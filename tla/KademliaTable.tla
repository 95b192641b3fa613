--------------------------- MODULE KademliaTable ----------------------------
(* The routing table of a node and the iterative lookup                       *)
(* (mesh-transport/src/kademlia_routing.rs). An id is the set of the bits     *)
(* that are one, so the distance of two ids is their symmetric difference.    *)
EXTENDS Integers, Sequences, FiniteSets, FiniteSetsExt, SequencesExt

CONSTANTS
    Bits,      \* bits of an id: 256
    K, ALPHA,
    Cooldown,  \* BUCKET_REFRESH_COOLDOWN_TICKS
    MaxRounds  \* the cap of a lookup: 256

ASSUME TableAssumption == /\ {Bits, K, ALPHA} \subseteq Nat \ {0}
                          /\ {Cooldown, MaxRounds} \subseteq Nat

BitIndexes == 0..(Bits - 1)
NodeIds == SUBSET BitIndexes
Never == 0

xor_distance(a, b) == (a \ b) \union (b \ a)

\* Of two distances the one that lacks the highest bit they differ in is less.
cmp_distance(d, e) == d # e /\ Max(xor_distance(d, e)) \in e

is_closer(target, candidate, reference) ==
    cmp_distance(xor_distance(target, candidate), xor_distance(target, reference))

calculate_bucket_index(distance) == IF distance = {} THEN 0 ELSE Max(distance)
bucket_for(local, remote) == calculate_bucket_index(xor_distance(local, remote))

\* Those of a set of ids that fewer than n others are closer than.
ClosestOf(ids, target, n) ==
    {c \in ids : Cardinality({d \in ids : is_closer(target, d, c)}) < n}
-----------------------------------------------------------------------------
(* The table *)

NewTable(local) == [local_id |-> local, tick |-> 0,
                    buckets |-> [b \in BitIndexes |-> << >>],
                    refreshed_at |-> [b \in BitIndexes |-> Never]]

Contacts(t) == UNION {{c.id : c \in ToSet(t.buckets[b])} : b \in BitIndexes}
\* Only the bucket that the id belongs to is searched.
get(t, id) == {id} \intersect {c.id : c \in ToSet(t.buckets[bucket_for(t.local_id, id)])}

closest(t, target, count) == ClosestOf(Contacts(t), target, count)

\* A contact that is known moves to the tail of its bucket.
Refreshed(bucket, contact) ==
    LET known == {k \in DOMAIN bucket : bucket[k].id = contact.id}
    IN  Append(IF known = {} THEN bucket ELSE RemoveAt(bucket, Min(known)), contact)

\* A full bucket probes its head, but not again before the cooldown is over;
\* a newcomer takes the place of a head that is silent.
MayProbe(t, b) == \/ t.refreshed_at[b] = Never
                  \/ t.tick + 1 - t.refreshed_at[b] >= Cooldown

Probed(t, b, contact, alive) ==
    [t EXCEPT !.tick = @ + 1, !.refreshed_at[b] = t.tick + 1,
              !.buckets[b] = IF alive THEN @ ELSE Append(Tail(@), contact)]

insert_with_probe(t, id, alive) ==
    LET b == bucket_for(t.local_id, id)
        bucket == t.buckets[b]
        contact == [id |-> id, last_seen |-> t.tick + 1]
    IN  CASE id = t.local_id -> t
          [] id # t.local_id /\ (Len(bucket) < K \/ \E c \in ToSet(bucket) : c.id = id) ->
                 [t EXCEPT !.tick = @ + 1, !.buckets[b] = Refreshed(@, contact)]
          [] OTHER -> IF MayProbe(t, b) THEN Probed(t, b, contact, alive)
                                        ELSE [t EXCEPT !.tick = @ + 1]

insert(t, id) == insert_with_probe(t, id, TRUE)

\* get, or else the closest contact; none for an empty table.
find_node_local(t, target) ==
    IF get(t, target) # {} THEN {target} ELSE closest(t, target, 1)
-----------------------------------------------------------------------------
(* The lookup *)

StartLookup(t, target) ==
    LET known == closest(t, target, K) \union get(t, target)
    IN  [local |-> t.local_id, target |-> target, shortlist |-> known,
         queried |-> {t.local_id}, heard |-> known, found |-> target \in known,
         rounds |-> 0, done |-> FALSE]

Unqueried(l) == l.shortlist \ l.queried
Batch(l) == ClosestOf(Unqueried(l), l.target, ALPHA)

\* Whether the second of two shortlists holds a closer contact than the first.
Improved(target, before, after) == \E c \in after : \A d \in before : is_closer(target, c, d)

\* A round that brings nothing closer is the last one.
Round_Bug(l, replies) ==
    LET asked == Batch(l)
        heard == (UNION {replies[p] : p \in asked}) \ {l.local}
        kept == ClosestOf(l.shortlist \union heard, l.target, K)
    IN  IF asked = {} THEN [l EXCEPT !.rounds = @ + 1, !.done = TRUE]
        ELSE [l EXCEPT !.rounds = @ + 1, !.queried = @ \union asked, !.shortlist = kept,
                       !.heard = @ \union heard, !.found = @ \/ l.target \in heard,
                       !.done = ~Improved(l.target, l.shortlist, kept)]

\* The closest that were not asked yet are asked; of all that is known the
\* closest are kept. It ends when nothing came closer and nobody is left to ask.
Round(l, replies) ==
    LET asked == Batch(l)
        heard == (UNION {replies[p] : p \in asked}) \ {l.local}
        kept == ClosestOf(l.shortlist \union heard, l.target, K)
    IN  IF asked = {} THEN [l EXCEPT !.rounds = @ + 1, !.done = TRUE]
        ELSE [l EXCEPT !.rounds = @ + 1, !.queried = @ \union asked, !.shortlist = kept,
                       !.heard = @ \union heard, !.found = @ \/ l.target \in heard,
                       !.done = \/ ~Improved(l.target, l.shortlist, kept)
                                   /\ kept \subseteq l.queried \union asked
                                \/ l.rounds + 1 > MaxRounds]

\* A whole lookup: a peer answers with the closest contacts of its table.
FindNode(l, answers) ==
    LET after[n \in 0..(MaxRounds + 1)] ==
            IF n = 0 THEN l
            ELSE LET m == after[n - 1]
                 IN  IF m.done THEN m ELSE Round(m, [p \in Batch(m) |-> answers[p]])
    IN  after[MaxRounds + 1]

\* When a lookup that was not cut short is over, it holds the closest contacts
\* that anybody named to it, it has asked each of them, and it says it found its
\* target exactly when somebody named it.
LookupIsComplete(l) ==
    l.done /\ l.rounds <= MaxRounds =>
        /\ l.shortlist = ClosestOf(l.heard, l.target, K)
        /\ l.shortlist \subseteq l.queried
        /\ l.found <=> l.target \in l.shortlist
=============================================================================
