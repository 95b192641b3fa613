------------------------------- MODULE LwwMap -------------------------------
(***************************************************************************)
(* The last-writer-wins map of the document CRDT (consensus/src/crdt.rs).  *)
(*                                                                         *)
(* Every put or remove carries a LogicalTime, the writer's wall counter    *)
(* with the writer's agent id as the tie-break, and the later time wins.   *)
(* A replica that accepts an operation moves its own counter past the      *)
(* operation's time, records the time in its map version vector and logs   *)
(* the operation; an operation that loses leaves no trace.                 *)
(*                                                                         *)
(* As in RgaText, operations travel one at a time (OpNext) or in deltas    *)
(* and merges (DeltaNext).  A value is identified by the time of its put,  *)
(* and its bytes are left out.                                             *)
(***************************************************************************)
EXTENDS Integers, SequencesExt

CONSTANTS
    Agents,    \* agent ids, ordered as in the code (u64)
    Keys,      \* keys of the map
    Absent,    \* the entry of a key that no accepted operation has named
    MaxWall    \* bound of the model on the wall counters

LogicalTime == [wall : 1 .. MaxWall, agent : Agents]

LwwValue == [present : BOOLEAN, time : LogicalTime]

ASSUME LwwAssumption ==
    /\ Agents \subseteq Nat
    /\ MaxWall \in Nat
    /\ Absent \notin LwwValue

VARIABLES
    doc,       \* the map state of each agent's Doc
    delta,     \* delta[r][s]: the last delta s exported for r
    offered    \* history: operations each agent was handed, accepted or not

vars == <<doc, delta, offered>>

\* A put (present) or a remove.
MapOp == [key : Keys, present : BOOLEAN, time : LogicalTime]

New(a) ==
    [agent      |-> a,
     map        |-> [k \in Keys |-> Absent],
     next_wall  |-> 1,
     map_vector |-> [b \in Agents |-> 0],
     op_log     |-> <<>>]

Init ==
    /\ doc = [a \in Agents |-> New(a)]
    /\ delta = [r \in Agents |-> [s \in Agents |-> <<>>]]
    /\ offered = [a \in Agents |-> {}]

-----------------------------------------------------------------------------
\* The order of LogicalTime derives from its fields: the wall, then the agent.
AtLeast(t, u) == \/ t.wall > u.wall
                 \/ t.wall = u.wall /\ t.agent >= u.agent

\* The early return of integrate.
Superseded(d, op) == /\ d.map[op.key] # Absent
                     /\ AtLeast(d.map[op.key].time, op.time)

Accept_Bug(d, op) ==  \* the counter stays behind what was accepted
    LET t == op.time IN
    [d EXCEPT !.map[op.key] = [present |-> op.present, time |-> t],
              !.map_vector[t.agent] = IF t.wall > @ THEN t.wall ELSE @,
              !.op_log = Append(@, op)]

\* The map arms of integrate, with note_map_time and the push to the log.
Accept(d, op) ==
    LET t == op.time IN
    [d EXCEPT !.map[op.key] = [present |-> op.present, time |-> t],
              !.next_wall = IF t.wall >= @ THEN t.wall + 1 ELSE @,
              !.map_vector[t.agent] = IF t.wall > @ THEN t.wall ELSE @,
              !.op_log = Append(@, op)]

Integrate(d, op) == IF Superseded(d, op) THEN d ELSE Accept(d, op)

\* tick_wall: the time it returns, and the counter it leaves.
TickWall(d) == [wall |-> d.next_wall, agent |-> d.agent]

Ticked(d) == [d EXCEPT !.next_wall = @ + 1]

\* map_set and map_delete.
Write(r, k, present) ==
    LET op == [key |-> k, present |-> present, time |-> TickWall(doc[r])] IN
    /\ doc[r].next_wall <= MaxWall
    /\ doc' = [doc EXCEPT ![r] = Integrate(Ticked(@), op)]
    /\ offered' = [offered EXCEPT ![r] = @ \cup {op}]
    /\ UNCHANGED delta

AllOps == UNION {offered[r] : r \in Agents}

\* integrate, called with one operation of another island.
Receive(r, op) ==
    /\ doc' = [doc EXCEPT ![r] = Integrate(@, op)]
    /\ offered' = [offered EXCEPT ![r] = @ \cup {op}]
    /\ UNCHANGED delta

\* apply_delta and merge integrate the operations of a sequence in turn.
ApplyAll(r, ops) ==
    /\ doc' = [doc EXCEPT ![r] = FoldLeft(Integrate, @, ops)]
    /\ offered' = [offered EXCEPT ![r] = @ \cup ToSet(ops)]
    /\ UNCHANGED delta

Unseen_Bug(d, vv) ==  \* the next tick counts as seen
    {op \in ToSet(d.op_log) : op.time.wall > vv[op.time.agent] + 1}

\* The filter of delta_since.
Unseen(d, vv) == {op \in ToSet(d.op_log) : op.time.wall > vv[op.time.agent]}

\* compact_map_ops keeps the latest operation of each key.
Compact(ops) == {op \in ops : \A o \in ops : o.key = op.key => AtLeast(op.time, o.time)}

\* s exports a delta against the map version vector of r; the order of the
\* operations is that of a hash map, any order.
Export(r, s) ==
    LET ops == Compact(Unseen(doc[s], doc[r].map_vector)) IN
    /\ \E order \in SetToSeqs(ops) : delta' = [delta EXCEPT ![r][s] = order]
    /\ UNCHANGED <<doc, offered>>

Apply(r, s) == ApplyAll(r, delta[r][s])

Merge(r, s) == ApplyAll(r, doc[s].op_log)

LocalNext == \E r \in Agents, k \in Keys, present \in BOOLEAN : Write(r, k, present)

OpNext == LocalNext \/ \E r \in Agents : \E op \in AllOps : Receive(r, op)

OpSpec == Init /\ [][OpNext]_vars

DeltaNext == LocalNext \/ \E r, s \in Agents : Export(r, s) \/ Apply(r, s) \/ Merge(r, s)

-----------------------------------------------------------------------------
Doc == [agent      : Agents,
        map        : [Keys -> LwwValue \cup {Absent}],
        next_wall  : 1 .. MaxWall + 1,
        map_vector : [Agents -> 0 .. MaxWall],
        op_log     : Seq(MapOp)]

TypeOK ==
    /\ doc \in [Agents -> Doc]
    /\ \A r \in Agents : doc[r].agent = r
    /\ offered \in [Agents -> SUBSET MapOp]

\* "LogicalTime total order": no two operations carry the same time, so the
\* order decides every conflict.
TimesAreUnique == \A o, p \in AllOps : o.time = p.time => o = p

Offers(r, k) == {op \in offered[r] : op.key = k}

\* Strong convergence: an entry is the latest operation the island was ever
\* handed for the key, whatever the order in which they came.
Latest(r, k) == {op \in Offers(r, k) : \A o \in Offers(r, k) : AtLeast(op.time, o.time)}

LatestWins ==
    \A r \in Agents, k \in Keys :
        IF Offers(r, k) # {}
        THEN \E op \in Latest(r, k) :
                 doc[r].map[k] = [present |-> op.present, time |-> op.time]
        ELSE doc[r].map[k] = Absent

\* Islands that were handed the same operations on a key agree on it.
Converged ==
    \A r, s \in Agents, k \in Keys :
        Offers(r, k) = Offers(s, k) => doc[r].map[k] = doc[s].map[k]

\* A local write is never dropped by the early return of integrate: whatever
\* the island has accepted, its own next time is later.
Writes(r, k, present) ==
    doc'[r].map[k] = [present |-> present, time |-> TickWall(doc[r])]

LocalWriteStep ==
    \A r \in Agents :
        offered'[r] \ AllOps # {} => \E k \in Keys, present \in BOOLEAN : Writes(r, k, present)

LocalWritesStick == [][LocalWriteStep]_vars

\* An entry never moves back to an earlier time, and never disappears.
ForwardStep ==
    \A r \in Agents, k \in Keys :
        doc[r].map[k] # Absent => /\ doc'[r].map[k] # Absent
                                  /\ AtLeast(doc'[r].map[k].time, doc[r].map[k].time)

EntriesMoveForward == [][ForwardStep]_vars

\* Deltas only: the map version vector never claims an operation that could
\* still change the island's map, although losing operations are not logged
\* and deltas leave superseded ones out.
MapVectorIsComplete ==
    \A r \in Agents : \A op \in AllOps :
        op.time.wall <= doc[r].map_vector[op.time.agent] => Superseded(doc[r], op)

\* Once nobody writes (MaxWall bounds the writes), all islands come to hold
\* the same map, by deltas alone.
EventuallyConverged == <>[](\A r, s \in Agents : doc[r].map = doc[s].map)
=============================================================================
