---------------------------- MODULE Availability ----------------------------
(* The data a node keeps for a while: a buffer bounded in entries and bytes   *)
(* that evicts what was least recently used (consensus/src/ring_buffer.rs),   *)
(* and blobs cut into shards of which some may be lost (erasure.rs). A value  *)
(* is its length; the bytes of a payload are told apart by their place.       *)
EXTENDS Integers, Sequences, FiniteSets, FiniteSetsExt, SequencesExt

CONSTANTS
    RingKeys, KeyLen, ValueLens,
    MaxEntries, MaxBytes   \* 0: without limit

ASSUME RingAssumption ==
    /\ KeyLen \in Nat /\ ValueLens \subseteq Nat
    /\ MaxEntries \in Nat /\ MaxBytes \in Nat

VARIABLES
    map, order, bytes,  \* LruRingBuffer
    typed               \* the keys of a TypedLruRing, oldest first

ringVars == <<map, order, bytes, typed>>

\* A key that is there goes to the back, a new one comes in there.
Promoted(q, k) ==
    LET places == {i \in DOMAIN q : q[i] = k}
    IN  Append(IF places = {} THEN q ELSE RemoveAt(q, Min(places)), k)

\* What retain leaves of a queue.
Retained(q, k) == FoldLeft(LAMBDA kept, o : IF o = k THEN kept ELSE Append(kept, o), << >>, q)

Monus(a, b) == IF a < b THEN 0 ELSE a - b

over_capacity(n, size) ==
    \/ MaxEntries > 0 /\ n > MaxEntries
    \/ MaxBytes > 0 /\ size > MaxBytes

SizeOf(m, keys) == MapThenSumSet(LAMBDA k : KeyLen + m[k], keys)

\* The oldest entries go, as many as it takes.
Evicted(m, q, size) ==
    LET fits(n) == LET gone == ToSet(SubSeq(q, 1, n))
                   IN  ~over_capacity(Cardinality(DOMAIN m \ gone), Monus(size, SizeOf(m, gone)))
    IN  Min({n \in 0..Len(q) : n = Len(q) \/ fits(n)})

evict_if_needed(m, q, size) ==
    LET n == Evicted(m, q, size)
        gone == ToSet(SubSeq(q, 1, n))
    IN  /\ map' = [k \in DOMAIN m \ gone |-> m[k]]
        /\ order' = SubSeq(q, n + 1, Len(q))
        /\ bytes' = Monus(size, SizeOf(m, gone))

Inserted(m, k, v) == [j \in DOMAIN m \union {k} |-> IF j = k THEN v ELSE m[j]]

\* The value that is replaced stays on the account.
put_Bug(k, v) ==
    evict_if_needed(Inserted(map, k, v), Promoted(order, k),
                    bytes + KeyLen + v - IF k \in DOMAIN map THEN KeyLen ELSE 0)

put(k, v) ==
    evict_if_needed(Inserted(map, k, v), Promoted(order, k),
                    (IF k \in DOMAIN map THEN Monus(bytes, KeyLen + map[k]) ELSE bytes)
                       + KeyLen + v)

get(k) ==
    /\ k \in DOMAIN map
    /\ order' = Promoted(order, k)
    /\ UNCHANGED <<map, bytes>>

remove(k) ==
    /\ k \in DOMAIN map
    /\ map' = [j \in DOMAIN map \ {k} |-> map[j]]
    /\ order' = Retained(order, k)
    /\ bytes' = Monus(bytes, KeyLen + map[k])

\* The typed buffer counts entries only: a new key evicts one at most.
TypedPut(k) ==
    LET q == Promoted(typed, k)
    IN  typed' = IF MaxEntries > 0 /\ Len(q) > MaxEntries THEN Tail(q) ELSE q

TypedGet(k) == typed' = IF k \in ToSet(typed) THEN Promoted(typed, k) ELSE typed

RingInit == map = << >> /\ order = << >> /\ bytes = 0 /\ typed = << >>

RingNext ==
    \E k \in RingKeys :
       \/ UNCHANGED typed /\ (get(k) \/ remove(k) \/ \E v \in ValueLens : put(k, v))
       \/ UNCHANGED <<map, order, bytes>> /\ (TypedPut(k) \/ TypedGet(k))

RingSpec == RingInit /\ [][RingNext]_ringVars

\* After any mix of inserts, updates, reads and removals the buffer accounts
\* for exactly the bytes it holds, knows the age of exactly the keys it holds,
\* and is within its bounds.
RingIsExact ==
    /\ bytes = SizeOf(map, DOMAIN map)
    /\ ToSet(order) = DOMAIN map /\ Len(order) = Cardinality(DOMAIN map)
    /\ ~over_capacity(Cardinality(DOMAIN map), bytes)
    /\ IsInjective(typed) /\ ~over_capacity(Len(typed), 0)
-----------------------------------------------------------------------------
Payload(n) == [i \in 1..n |-> i]

CeilDiv(a, b) == (a + b - 1) \div b

\* Data shards of equal length, the last of them padded with zeros. A parity
\* shard is a function of all the data (reed-solomon-erasure).
DataShards(payload, d) ==
    LET len == CeilDiv(Len(payload), d)
    IN  [i \in 1..d |-> [j \in 1..len |->
            LET at == (i - 1) * len + j IN IF at <= Len(payload) THEN payload[at] ELSE 0]]

ParityShard(k, data) == <<"parity", k, data>>

\* For a payload that is not empty and at least one shard of each kind.
encode(payload, d, p) ==
    LET data == DataShards(payload, d)
    IN  [data_shards |-> d, parity_shards |-> p, original_len |-> Len(payload),
         shards |-> data \o [k \in 1..p |-> ParityShard(k, data)]]

\* From as many shards as there are data shards the library restores them all.
Reconstruct(b, present) ==
    IF Cardinality(present) < b.data_shards THEN "TooFewShards"
    ELSE SubSeq(b.shards, 1, b.data_shards)

concat_data(data, original_len) == SubSeq(FlattenSeq(data), 1, original_len)

recover_blob(b, missing) ==
    LET present == DOMAIN b.shards \ missing
        restored == IF missing = {} THEN SubSeq(b.shards, 1, b.data_shards)
                                    ELSE Reconstruct(b, present)
    IN  IF Cardinality(missing) > b.parity_shards THEN "TooManyLost"
        ELSE concat_data(restored, b.original_len)

\* A payload of any length comes back byte for byte, whichever shards are lost,
\* while they are no more than there is parity.
SurvivesLosses(n, d, p) ==
    LET blob == encode(Payload(n), d, p)
    IN  \A lost \in SUBSET (DOMAIN blob.shards) :
            Cardinality(lost) <= p => recover_blob(blob, lost) = Payload(n)
=============================================================================
