----------------------------- MODULE LedgerTrie ------------------------------
(* The ledger of an island: a Merkle-Patricia trie with a size budget, its    *)
(* inclusion proofs, and the merge of two islands that meet again             *)
(* (consensus/src/trie.rs, proof.rs, ipld_codec.rs), beside the older trie of *)
(* bytes that the daemon still merges (TrieNode).                             *)
(*                                                                            *)
(* Branches have two children instead of sixteen. A digest is the node it is  *)
(* taken of: a hash without collisions. A value is a number, which is also    *)
(* its length and its place in the order of values.                           *)
EXTENDS Integers, Sequences, FiniteSets, FiniteSetsExt, SequencesExt

CONSTANTS
    Islands,
    Keys,          \* keys as nibble paths (bytes_to_nibbles): of even length
    Values,
    NodeOverhead,  \* NODE_OVERHEAD
    MaxLedgerSize  \* MAX_LEDGER_SIZE

VARIABLES
    trie,    \* [Islands -> [root, cached, size]]: MerklePatriciaTrie
    legacy   \* [Islands -> TrieNode]

ledgerVars == <<trie, legacy>>

Nibbles == {0, 1}
Nil == [kind |-> "nil"]
NoValue == 0

Leaf(path, value) == [kind |-> "leaf", path |-> path, value |-> value]
Extension(path, child) == [kind |-> "extension", path |-> path, child |-> child]
Branch(children, value) == [kind |-> "branch", children |-> children, value |-> value]

Take(s, n) == SubSeq(s, 1, n)
Drop(s, n) == SubSeq(s, n + 1, Len(s))

common_prefix_len(a, b) == Len(LongestCommonPrefix({a, b}))

\* One entry of a branch: what is left of a path after n shared nibbles.
Slot(n, path, node(_)) == IF Len(path) > n THEN path[n + 1] :> node(Drop(path, n + 1)) ELSE << >>

\* A branch over two entries that part after n nibbles, behind what they share.
Fork(n, path, entries, value) ==
    LET b == Branch([i \in Nibbles |-> IF i \in DOMAIN entries THEN entries[i] ELSE Nil], value)
    IN  IF n = 0 THEN b ELSE Extension(Take(path, n), b)

insert_leaf(path, old, key, value) ==
    LET n == common_prefix_len(path, key)
    IN  IF path = key THEN Leaf(path, value)
        ELSE Fork(n, path,
                  Slot(n, key, LAMBDA r : Leaf(r, value)) @@ Slot(n, path, LAMBDA r : Leaf(r, old)),
                  IF Len(key) = n THEN value ELSE IF Len(path) = n THEN old ELSE NoValue)

RECURSIVE insert_into(_, _, _)

insert_extension(path, child, key, value) ==
    LET n == common_prefix_len(path, key)
    IN  IF n = Len(path) THEN Extension(path, insert_into(child, Drop(key, n), value))
        ELSE Fork(n, path,
                  Slot(n, key, LAMBDA r : Leaf(r, value))
                     @@ Slot(n, path, LAMBDA r : IF r = << >> THEN child ELSE Extension(r, child)),
                  IF Len(key) = n THEN value ELSE NoValue)

\* The child that was there is replaced.
insert_branch_Bug(node, key, value) ==
    IF key = << >> THEN [node EXCEPT !.value = value]
    ELSE [node EXCEPT !.children[key[1]] = Leaf(Tail(key), value)]

insert_branch(node, key, value) ==
    IF key = << >> THEN [node EXCEPT !.value = value]
    ELSE [node EXCEPT !.children[key[1]] =
             IF @ = Nil THEN Leaf(Tail(key), value) ELSE insert_into(@, Tail(key), value)]

insert_into(node, key, value) ==
    CASE node.kind = "leaf"      -> insert_leaf(node.path, node.value, key, value)
      [] node.kind = "extension" -> insert_extension(node.path, node.child, key, value)
      [] node.kind = "branch"    -> insert_branch(node, key, value)

RECURSIVE get_from(_, _)
get_from(node, key) ==
    CASE node.kind = "nil"  -> NoValue
      [] node.kind = "leaf" -> IF node.path = key THEN node.value ELSE NoValue
      [] node.kind = "extension" ->
            IF IsPrefix(node.path, key) THEN get_from(node.child, Drop(key, Len(node.path)))
                                        ELSE NoValue
      [] node.kind = "branch" ->
            IF key = << >> THEN node.value ELSE get_from(node.children[key[1]], Tail(key))

RECURSIVE collect_leaves(_, _)
collect_leaves(node, prefix) ==
    CASE node.kind = "nil"       -> {}
      [] node.kind = "leaf"      -> {<<prefix \o node.path, node.value>>}
      [] node.kind = "extension" -> collect_leaves(node.child, prefix \o node.path)
      [] node.kind = "branch"    ->
            (IF node.value = NoValue THEN {} ELSE {<<prefix, node.value>>})
            \union UNION {collect_leaves(node.children[i], Append(prefix, i)) : i \in Nibbles}

RECURSIVE Nodes(_)
Nodes(node) == CASE node.kind = "nil"       -> << >>
                 [] node.kind = "leaf"      -> <<node>>
                 [] node.kind = "extension" -> <<node>> \o Nodes(node.child)
                 [] node.kind = "branch"    -> <<node>> \o Nodes(node.children[0])
                                                       \o Nodes(node.children[1])

PathLen(node) == IF node.kind = "branch" THEN 0 ELSE Len(node.path)
ValueLen(node) == IF node.kind = "extension" THEN 0 ELSE node.value

\* What the nodes of a trie take: each its overhead, `factor` times its bytes.
Footprint(node, factor) ==
    FoldLeft(LAMBDA sum, n : sum + NodeOverhead + factor * (PathLen(n) + ValueLen(n)), 0, Nodes(node))

estimate_node_size(node) == Footprint(node, 2)

GrownSize(t, key, value) ==
    LET old == get_from(t.root, key)
    IN  IF old # NoValue THEN t.size - old + value
        ELSE t.size + 4 * NodeOverhead + Len(key) + value

\* A digest cached in a node is the node; the root's is kept beside it.
compute_hash(node) == node

WithRoot(root, size) == [root |-> root, cached |-> compute_hash(root), size |-> size]
EmptyTrie == WithRoot(Nil, 0)

merge_nodes(local, remote) ==
    IF compute_hash(local) = compute_hash(remote) THEN local
    ELSE IF local.kind = "leaf" /\ remote.kind = "leaf" /\ local.path = remote.path
      THEN Leaf(local.path, Max({local.value, remote.value}))
    ELSE FoldSet(LAMBDA kv, node : insert_into(node, kv[1], kv[2]), local,
                 collect_leaves(remote, << >>))

MergedRoot(local, remote) ==
    IF remote = Nil THEN local ELSE IF local = Nil THEN remote ELSE merge_nodes(local, remote)

merge_with(t, remote) ==
    LET root == MergedRoot(t.root, remote.root)
    IN  IF t.cached = remote.cached \/ estimate_node_size(root) > MaxLedgerSize THEN t
        ELSE WithRoot(root, estimate_node_size(root))
-----------------------------------------------------------------------------
(* Inclusion proofs: a terminal and the steps from it up to the root, each    *)
(* with the digests that are needed to compute the parent's.                  *)

NotFound == [value |-> NoValue]
Above(step, p) == IF p = NotFound THEN p ELSE [p EXCEPT !.steps = Append(@, step)]

RECURSIVE build_proof(_, _)
build_proof(node, key) ==
    CASE node.kind = "nil" -> NotFound
      [] node.kind = "leaf" ->
            IF node.path # key THEN NotFound
            ELSE [value |-> node.value, terminal |-> node, steps |-> << >>]
      [] node.kind = "extension" ->
            IF ~IsPrefix(node.path, key) THEN NotFound
            ELSE Above([node EXCEPT !.child = Nil],
                       build_proof(node.child, Drop(key, Len(node.path))))
      [] node.kind = "branch" ->
            IF key # << >>
              THEN Above([nibble |-> key[1]] @@ [node EXCEPT !.children[key[1]] = Nil],
                         build_proof(node.children[key[1]], Tail(key)))
            ELSE IF node.value = NoValue THEN NotFound
            ELSE [value |-> node.value, terminal |-> node, steps |-> << >>]

\* The proof names the key it was asked for.
prove(root, key) == LET p == build_proof(root, key)
                    IN  IF p = NotFound THEN p ELSE [key |-> key] @@ p

\* A branch is hashed without the value it may hold itself.
StepHash_Bug(below, step) ==
    IF step.kind = "extension" THEN Extension(step.path, below)
    ELSE Branch([step.children EXCEPT ![step.nibble] = below], NoValue)

StepHash(below, step) ==
    IF step.kind = "extension" THEN Extension(step.path, below)
    ELSE Branch([step.children EXCEPT ![step.nibble] = below], step.value)

\* The key that the proof names is not compared with the path it takes.
verify_proof(p, root) ==
    /\ p.terminal.value = p.value
    /\ \A k \in DOMAIN p.steps : p.steps[k].kind = "extension" => p.steps[k].path # << >>
    /\ FoldLeft(StepHash, p.terminal, p.steps) = root

\* What a light client makes of a proof under the root it has pinned.
verify_inclusion(p, trusted_root) == IF verify_proof(p, trusted_root) THEN p.value ELSE NoValue
-----------------------------------------------------------------------------
(* The older trie: a node keeps its digest, which rehash brings up to date.   *)

Digest(children, value) ==
    [value |-> value, children |-> [b \in DOMAIN children |-> children[b].hash]]
rehash(children, value) ==
    [children |-> children, value |-> value, hash |-> Digest(children, value)]
\* A new node keeps a digest of its own ("empty_root"), which no value gives.
NewNode == [children |-> << >>, value |-> NoValue, hash |-> Digest(<< >>, -1)]

ChildOf(node, b) == IF b \in DOMAIN node.children THEN node.children[b] ELSE NewNode

RECURSIVE insert_node(_, _, _)
insert_node(node, key, value) ==
    IF key = << >> THEN rehash(node.children, value)
    ELSE rehash((key[1] :> insert_node(ChildOf(node, key[1]), Tail(key), value))
                   @@ node.children, node.value)

GreaterValue(local, remote) == Max({local, remote})

RECURSIVE merge_state(_, _)
merge_state(node, remote) ==
    IF node.hash = remote.hash THEN node
    ELSE rehash([b \in DOMAIN remote.children |-> merge_state(ChildOf(node, b), remote.children[b])]
                   @@ node.children,
                GreaterValue(node.value, remote.value))
-----------------------------------------------------------------------------
LedgerInit ==
    /\ trie = [i \in Islands |-> EmptyTrie]
    /\ legacy = [i \in Islands |-> NewNode]

Insert(i, key, value) ==
    /\ GrownSize(trie[i], key, value) <= MaxLedgerSize
    /\ LET old == trie[i].root
           new == IF old = Nil THEN Leaf(key, value) ELSE insert_into(old, key, value)
       IN  trie' = [trie EXCEPT ![i] = WithRoot(new, GrownSize(@, key, value))]
    /\ UNCHANGED legacy

Merge(i, j) == /\ trie' = [trie EXCEPT ![i] = merge_with(@, trie[j])]
               /\ UNCHANGED legacy

InsertNode(i, key, value) ==
    /\ legacy' = [legacy EXCEPT ![i] = insert_node(@, key, value)]
    /\ UNCHANGED trie

MergeState(i, j) == /\ legacy' = [legacy EXCEPT ![i] = merge_state(@, legacy[j])]
                    /\ UNCHANGED trie

TrieNext == \/ \E i \in Islands, k \in Keys, v \in Values : Insert(i, k, v)
            \/ \E i, j \in Islands : i # j /\ Merge(i, j)

LegacyNext == \/ \E i \in Islands, k \in Keys, v \in Values : InsertNode(i, k, v)
              \/ \E i, j \in Islands : i # j /\ MergeState(i, j)
-----------------------------------------------------------------------------
(* Properties *)

Contents(i) == {<<k, get_from(trie[i].root, k)>> : k \in Keys}

\* The root commits to the contents and to nothing else: islands with the same
\* entries have the same root, in whatever order entries and merges came.
ContentsDecideRoot ==
    \A i, j \in Islands : (Contents(i) = Contents(j)) <=> (trie[i].cached = trie[j].cached)

\* The size that is held against the budget is never less than what the nodes
\* take, after any mix of splits, updates and merges.
SizeCoversFootprint == \A i \in Islands : Footprint(trie[i].root, 1) <= trie[i].size

\* No entry is lost and none appears: a key keeps a value once it has one, and
\* a value that is new to an island was inserted there or comes from the other.
NothingIsLost ==
    [][\A i \in Islands, k \in Keys :
          LET old == get_from(trie[i].root, k)
              new == get_from(trie'[i].root, k)
          IN  /\ old # NoValue => new # NoValue
              /\ Cardinality({q \in Keys : get_from(trie[i].root, q)
                                             # get_from(trie'[i].root, q)}) > 1 =>
                    new \in {old} \union {get_from(trie[j].root, k) : j \in Islands}
      ]_ledgerVars

\* The key that is spelled by the path of a proof, from the root down.
PathOf(p) ==
    FoldLeft(LAMBDA below, step : IF step.kind = "extension" THEN step.path \o below
                                  ELSE <<step.nibble>> \o below,
             IF p.terminal.kind = "leaf" THEN p.terminal.path ELSE << >>, p.steps)

\* What may be shown in place of a proof: another value under it, or the end of
\* another key.
Altered(p) ==
    {[p EXCEPT !.value = v, !.terminal.value = v] : v \in Values}
    \union IF p.terminal.kind # "leaf" THEN {}
           ELSE {[p EXCEPT !.terminal.path = Drop(k, Len(k) - n)] : k \in Keys, n \in 1..2}

\* Every entry has a proof that names its key, takes its path and verifies. And
\* of all that can be made of the proofs of any island, now that it has changed
\* apart, whatever verifies leads along its path to an entry with its value. The
\* key it names may be another one: a proof under any name verifies.
ProofsAreSound ==
    \A i \in Islands, k \in Keys :
        LET value == get_from(trie[i].root, k)
            p == prove(trie[i].root, k)
        IN  IF value = NoValue THEN p = NotFound
            ELSE /\ p.key = k /\ PathOf(p) = k
                 /\ \A named \in Keys :
                      verify_inclusion([p EXCEPT !.key = named], trie[i].cached) = value
                 /\ \A j \in Islands : \A q \in Altered(p) :
                      verify_inclusion(q, trie[j].cached) \in
                          {NoValue, get_from(trie[j].root, PathOf(q))}

\* Islands of the older trie that merge each other agree, whoever begins.
LegacyMergesAgree ==
    \A i, j \in Islands :
        merge_state(legacy[i], legacy[j]).hash = merge_state(legacy[j], legacy[i]).hash

\* A root stands for what the trie holds and for nothing else, and what the trie
\* holds takes no more than was held against its budget (insert, merge_with).
RootsCommit == ContentsDecideRoot /\ ProofsAreSound /\ LegacyMergesAgree /\ SizeCoversFootprint

\* The same for the ledger, with the greater value winning a conflict, as its
\* merge says of itself.
MergesAgree ==
    \A i, j \in Islands :
        MergedRoot(trie[i].root, trie[j].root) = MergedRoot(trie[j].root, trie[i].root)
=============================================================================
