------------------------------ MODULE RgaText ------------------------------
(***************************************************************************)
(* The text of the document CRDT (consensus/src/crdt.rs): an RGA tree of   *)
(* characters replicated by disconnected mesh islands.                     *)
(*                                                                         *)
(* Each agent holds a Doc.  A local edit allocates an ItemId and integrates*)
(* an operation; operations reach other islands one at a time (OpNext), or *)
(* as deltas computed from version vectors and as whole-document merges    *)
(* (DeltaNext).  Operations are delivered in any order, any number of      *)
(* times, or never; a delta may be applied long after it was exported.     *)
(*                                                                         *)
(* A character is identified by the ItemId of its insert, and its content  *)
(* is left out.  The map half of the document shares no state with the     *)
(* text: it is modelled in LwwMap.                                         *)
(***************************************************************************)
EXTENDS Integers, SequencesExt

CONSTANTS
    Agents,   \* agent ids, ordered as in the code (u64)
    None,     \* the parent of a character inserted at the document start
    MaxSeq    \* bound of the model on the ids one agent allocates

ItemId == [agent : Agents, seq : 1 .. MaxSeq]

ASSUME RgaAssumption ==
    /\ Agents \subseteq Nat
    /\ MaxSeq \in Nat
    /\ None \notin ItemId

VARIABLES
    doc,      \* the Doc of each agent
    delta,    \* delta[r][s]: the last delta s exported for r
    gossip    \* what islands exchange: single operations, or deltas and merges

vars == <<doc, delta, gossip>>

InsertOp == [kind : {"Insert"}, id : ItemId, parent : ItemId \cup {None}]
DeleteOp == [kind : {"Delete"}, id : ItemId, target : ItemId]
CrdtOp == InsertOp \cup DeleteOp

SeqItem == [parent : ItemId \cup {None}, deleted : BOOLEAN]

\* Doc::new.  The applied inserts are the domain of items.
New(a) ==
    [agent           |-> a,
     items           |-> [id \in {} |-> {}],
     pending_deletes |-> {},
     applied_deletes |-> {},
     vector          |-> [b \in Agents |-> 0],
     next_seq        |-> 1,
     op_log          |-> <<>>]

Init ==
    /\ doc = [a \in Agents |-> New(a)]
    /\ delta = [r \in Agents |-> [s \in Agents |-> <<>>]]
    /\ gossip \in {"operations", "deltas"}

-----------------------------------------------------------------------------
\* The definitions whose names end in _Bug are mutated forms of the definition
\* that follows them, used only to show that the properties notice such a bug.

\* The order of ItemId derives from its fields: the agent, then the seq.
Above(x, y) == \/ x.agent > y.agent
               \/ x.agent = y.agent /\ x.seq > y.seq

Highest(ids) == CHOOSE id \in ids : \A other \in ids \ {id} : Above(id, other)

\* walk: depth first, siblings in descending order of ItemId.  An item whose
\* parent has not arrived is not reached.
Walk(items) ==
    LET kids(p) == {id \in DOMAIN items : items[id].parent = p}
        walk[ids \in SUBSET DOMAIN items] ==
            IF ids = {} THEN <<>>
            ELSE LET id == Highest(ids) IN <<id>> \o walk[kids(id)] \o walk[ids \ {id}]
    IN  walk[kids(None)]

\* The elements of a sequence that are in S, pushed one by one.
Those(seq, S) == FoldLeft(LAMBDA acc, e : IF e \in S THEN Append(acc, e) ELSE acc, <<>>, seq)

\* visible_ids, and text: the walk without its tombstones.
Visible(items) == Those(Walk(items), {id \in DOMAIN items : ~items[id].deleted})

\* The early return of integrate.
Applied(d, op) ==
    \/ op.kind = "Insert" /\ op.id \in DOMAIN d.items
    \/ op.kind = "Delete" /\ op.id \in d.applied_deletes

IntegrateInsert_Bug(d, op) ==  \* a delete that came first is forgotten
    [d EXCEPT
        !.items = [id \in DOMAIN @ \cup {op.id} |->
                      IF id = op.id THEN [parent |-> op.parent, deleted |-> FALSE]
                                    ELSE d.items[id]]]

IntegrateInsert_Root_Bug(d, op) ==  \* a character is placed before its parent comes
    [d EXCEPT
        !.items = [id \in DOMAIN @ \cup {op.id} |->
                      IF id = op.id
                      THEN [parent  |-> IF op.parent \in DOMAIN @ THEN op.parent ELSE None,
                            deleted |-> op.id \in d.pending_deletes]
                      ELSE d.items[id]],
        !.pending_deletes = @ \ {op.id}]

\* A character whose delete came first is born deleted.
IntegrateInsert(d, op) ==
    [d EXCEPT
        !.items = [id \in DOMAIN @ \cup {op.id} |->
                      IF id = op.id
                      THEN [parent  |-> op.parent,
                            deleted |-> op.id \in d.pending_deletes]
                      ELSE d.items[id]],
        !.pending_deletes = @ \ {op.id}]

IntegrateDelete(d, op) ==
    LET known == op.target \in DOMAIN d.items IN
    [d EXCEPT
        !.items = IF known THEN [@ EXCEPT ![op.target].deleted = TRUE] ELSE @,
        !.pending_deletes = IF known THEN @ ELSE @ \cup {op.target},
        !.applied_deletes = @ \cup {op.id}]

\* note_vector, and the push to the op log that ends integrate.
Note(d, op) ==
    LET a == op.id.agent
        n == op.id.seq
    IN [d EXCEPT
           !.vector = IF n > @[a] THEN [@ EXCEPT ![a] = n] ELSE @,
           !.next_seq = IF a = d.agent /\ n >= @ THEN n + 1 ELSE @,
           !.op_log = Append(@, op)]

\* integrate: idempotent.
Integrate(d, op) ==
    IF Applied(d, op) THEN d
    ELSE IF op.kind = "Insert" THEN Note(IntegrateInsert(d, op), op)
                               ELSE Note(IntegrateDelete(d, op), op)

AllocId(d) == [agent |-> d.agent, seq |-> d.next_seq]

\* alloc_id and integrate, as both local edits do.
Edit(d, op) == Integrate([d EXCEPT !.next_seq = @ + 1], op)

\* insert_char: the parent is the visible character to the left; an index
\* beyond the text finds none, and the character goes to the start.
InsertCharOp(d, i) ==
    LET ids == Visible(d.items) IN
    [kind |-> "Insert", id |-> AllocId(d),
     parent |-> IF i \in DOMAIN ids THEN ids[i] ELSE None]

InsertChar(r, i) ==
    /\ doc[r].next_seq <= MaxSeq
    /\ doc' = [doc EXCEPT ![r] = Edit(@, InsertCharOp(@, i))]
    /\ UNCHANGED delta

\* delete_char: an index beyond the text changes nothing.
DeleteChar(r, i) ==
    LET ids == Visible(doc[r].items) IN
    /\ doc[r].next_seq <= MaxSeq
    /\ i \in DOMAIN ids
    /\ doc' = [doc EXCEPT ![r] = Edit(@, [kind |-> "Delete", id |-> AllocId(@),
                                          target |-> ids[i]])]
    /\ UNCHANGED delta

\* integrate, called with one operation of another island.
Receive(r, op) ==
    /\ doc' = [doc EXCEPT ![r] = Integrate(@, op)]
    /\ UNCHANGED delta

Ops(r) == ToSet(doc[r].op_log)

AllOps == UNION {Ops(r) : r \in Agents}

\* apply_delta and merge integrate the operations of a sequence in turn.
ApplyDelta(d, ops) == FoldLeft(Integrate, d, ops)

DeltaSince_Bug(d, vv) ==  \* the next operation counts as seen
    Those(d.op_log, {op \in ToSet(d.op_log) : op.id.seq > vv[op.id.agent] + 1})

DeltaSince(d, vv) == Those(d.op_log, {op \in ToSet(d.op_log) : op.id.seq > vv[op.id.agent]})

\* s exports a delta against the version vector of r.
Export(r, s) ==
    /\ delta' = [delta EXCEPT ![r][s] = DeltaSince(doc[s], doc[r].vector)]
    /\ UNCHANGED doc

\* r applies the delta that s exported for it, however old it is.
Apply(r, s) ==
    /\ doc' = [doc EXCEPT ![r] = ApplyDelta(@, delta[r][s])]
    /\ UNCHANGED delta

Merge(r, s) ==
    /\ doc' = [doc EXCEPT ![r] = ApplyDelta(@, doc[s].op_log)]
    /\ UNCHANGED delta

LocalNext ==
    \E r \in Agents :
        \/ \E i \in 0 .. Len(Visible(doc[r].items)) : InsertChar(r, i)
        \/ \E i \in 1 .. Len(Visible(doc[r].items)) : DeleteChar(r, i)

\* Islands that gossip single operations.
OpNext == LocalNext \/ \E r \in Agents : \E op \in AllOps : Receive(r, op)

\* Islands that exchange deltas and merge whole documents.
DeltaNext == LocalNext \/ \E r, s \in Agents : Export(r, s) \/ Apply(r, s) \/ Merge(r, s)

Next ==
    /\ \/ gossip = "operations" /\ OpNext
       \/ gossip = "deltas" /\ DeltaNext
    /\ UNCHANGED gossip

\* Islands that exchange deltas export and apply them again and again.
Spec ==
    /\ Init
    /\ [][Next]_vars
    /\ \A r, s \in Agents :
           /\ WF_vars(gossip = "deltas" /\ Export(r, s) /\ UNCHANGED gossip)
           /\ WF_vars(gossip = "deltas" /\ Apply(r, s) /\ UNCHANGED gossip)

-----------------------------------------------------------------------------
IsDoc(d) ==
    /\ DOMAIN d.items \subseteq ItemId
    /\ d.items \in [DOMAIN d.items -> SeqItem]
    /\ d.pending_deletes \subseteq ItemId
    /\ d.applied_deletes \subseteq ItemId
    /\ d.vector \in [Agents -> 0 .. MaxSeq]
    /\ d.next_seq \in 1 .. MaxSeq + 1
    /\ d.op_log \in Seq(CrdtOp)

TypeOK ==
    /\ DOMAIN doc = Agents
    /\ \A r \in Agents : doc[r].agent = r /\ IsDoc(doc[r])
    /\ delta \in [Agents -> [Agents -> Seq(CrdtOp)]]
    /\ gossip \in {"operations", "deltas"}

\* "Globally unique item / operation identifier": no two operations anywhere
\* carry the same id, whatever has been deleted or is still on its way.
IdsAreUnique == \A o, p \in AllOps : o.id = p.id => o = p

\* A character is a tombstone exactly when some delete of it has arrived, in
\* whatever order the two came (issue #31); a delete that waits for its
\* character is pending, and nothing else is.
DeleteTargets(r) == {op.target : op \in {o \in Ops(r) : o.kind = "Delete"}}

TombstonesMatchDeletes ==
    \A r \in Agents :
        /\ \A id \in DOMAIN doc[r].items :
               doc[r].items[id].deleted <=> id \in DeleteTargets(r)
        /\ doc[r].pending_deletes = DeleteTargets(r) \ DOMAIN doc[r].items

\* "Guarantees strong eventual consistency": islands that have integrated the
\* same operations, in whatever order, show the same text.
Converged ==
    \A r, s \in Agents :
        Ops(r) = Ops(s) => Visible(doc[r].items) = Visible(doc[s].items)

\* Islands never disagree on the order of two characters that both of them
\* can place, tombstones included, even when they know different operations.
Before(r, x, y) ==
    LET w == Walk(doc[r].items) IN
    \E i, j \in DOMAIN w : i < j /\ w[i] = x /\ w[j] = y

OrderAgrees ==
    \A r, s \in Agents : \A x, y \in DOMAIN doc[r].items :
        Before(r, x, y) => ~Before(s, y, x)

\* Deltas only: an island's version vector never claims an operation that the
\* island lacks, although deltas may be stale, repeated or lost.
VectorIsComplete ==
    \A r \in Agents : \A op \in AllOps :
        op.id.seq <= doc[r].vector[op.id.agent] => op \in Ops(r)

\* Deltas only: every op log is causal; the parent of an insert and the target
\* of a delete come before it, so no character waits for another.
Depends(op) == CASE op.kind = "Delete" -> {op.target}
                 [] op.kind = "Insert" -> {op.parent} \ {None}

LogIsCausal ==
    \A r \in Agents :
        LET log == doc[r].op_log IN
        \A i \in DOMAIN log : \A id \in Depends(log[i]) :
            \E j \in 1 .. i - 1 : log[j].kind = "Insert" /\ log[j].id = id

\* With deltas, however stale, version vectors claim nothing that is missing
\* and no character waits for another.
DeltasAreCausal == gossip = "deltas" => VectorIsComplete /\ LogIsCausal

\* Islands that know different operations still agree on the order of what both
\* can place, and what deltas bring can always be placed (walk, delta_since).
IslandsAgree == OrderAgrees /\ DeltasAreCausal

\* Once deleted at an island, a character never shows there again.
NoResurrectionStep ==
    \A r \in Agents : \A id \in DOMAIN doc[r].items :
        /\ id \in DOMAIN doc'[r].items
        /\ doc[r].items[id].deleted => doc'[r].items[id].deleted

NoResurrection == [][NoResurrectionStep]_vars

\* "Concurrent divergent edits converge to the same state after exchanging op
\* logs": once nobody edits (MaxSeq bounds the edits), all islands come to
\* show the same text, by deltas alone.
EventuallyConverged ==
    <>[](\A r, s \in Agents : Visible(doc[r].items) = Visible(doc[s].items))

\* With deltas, islands come to show the same text once the edits stop.
DeltasConverge == gossip = "deltas" => EventuallyConverged
=============================================================================
