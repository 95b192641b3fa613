---------------------------- MODULE LwwMapProofs ----------------------------
(***************************************************************************)
(* The last-writer-wins map for every number of islands, keys and writes,  *)
(* when operations are gossiped one at a time in any order (OpSpec).       *)
(*                                                                         *)
(* The strengthening that makes LatestWins inductive is Ahead: an island's *)
(* wall counter is past every time it was ever handed, so its own next     *)
(* write is later than all of them; and Home: every operation was handed   *)
(* to its own author first, so a time can be given out only once.          *)
(***************************************************************************)
EXTENDS LwwMap, TLAPS

Ahead == \A r \in Agents : \A op \in offered[r] : op.time.wall < doc[r].next_wall

Home == \A op \in AllOps : op \in offered[op.time.agent]

LwwInv == TypeOK /\ Ahead /\ Home /\ TimesAreUnique /\ LatestWins

-----------------------------------------------------------------------------
LEMMA Bounds == Agents \subseteq Nat /\ MaxWall \in Nat
BY LwwAssumption

LEMMA TimeOrder ==
    /\ \A t, u \in LogicalTime : AtLeast(t, u) \/ AtLeast(u, t)
    /\ \A t, u, v \in LogicalTime : AtLeast(t, u) /\ AtLeast(u, v) => AtLeast(t, v)
    /\ \A t \in LogicalTime : AtLeast(t, t)
    /\ \A t, u \in LogicalTime : t.wall > u.wall => AtLeast(t, u) /\ ~AtLeast(u, t)
    /\ \A t, u \in LogicalTime : AtLeast(t, u) => t.wall >= u.wall
<1>1. ASSUME NEW t \in LogicalTime PROVE t.wall \in Int /\ t.agent \in Int
  <2>1. t.wall \in 1 .. MaxWall /\ t.agent \in Agents
    BY DEF LogicalTime
  <2>2. t.agent \in Nat
    BY <2>1, Bounds
  <2>3. t.wall \in Int
    BY <2>1, Bounds
  <2> QED
    BY <2>2, <2>3
<1>2. ASSUME NEW t \in LogicalTime, NEW u \in LogicalTime
      PROVE  /\ AtLeast(t, u) \/ AtLeast(u, t)
             /\ AtLeast(t, t)
             /\ t.wall > u.wall => AtLeast(t, u) /\ ~AtLeast(u, t)
             /\ AtLeast(t, u) => t.wall >= u.wall
  BY <1>1 DEF AtLeast
<1>3. ASSUME NEW t \in LogicalTime, NEW u \in LogicalTime, NEW v \in LogicalTime,
             AtLeast(t, u), AtLeast(u, v)
      PROVE  AtLeast(t, v)
  BY <1>1, <1>3 DEF AtLeast
<1> QED
  BY <1>2, <1>3

LEMMA AcceptFields ==
    ASSUME NEW d \in Doc, NEW op \in MapOp
    PROVE  LET e == Accept(d, op) IN
           /\ e \in Doc
           /\ e.agent = d.agent
           /\ e.map = [d.map EXCEPT ![op.key] = [present |-> op.present, time |-> op.time]]
           /\ e.next_wall = IF op.time.wall >= d.next_wall THEN op.time.wall + 1
                                                           ELSE d.next_wall
<1>1. /\ op.time.wall \in 1 .. MaxWall
      /\ op.time.agent \in Agents
      /\ op.key \in Keys
      /\ [present |-> op.present, time |-> op.time] \in LwwValue
      /\ MaxWall \in Nat
  BY LwwAssumption DEF MapOp, LogicalTime, LwwValue
<1>2. [d.map EXCEPT ![op.key] = [present |-> op.present, time |-> op.time]]
        \in [Keys -> LwwValue \cup {Absent}]
  BY <1>1 DEF Doc
<1>3. Append(d.op_log, op) \in Seq(MapOp)
  BY DEF Doc
<1> DEFINE m == [d.map EXCEPT ![op.key] = [present |-> op.present, time |-> op.time]]
           w == IF op.time.wall >= d.next_wall THEN op.time.wall + 1 ELSE d.next_wall
           a == op.time.agent
           mv == [d.map_vector EXCEPT ![a] = IF op.time.wall > @ THEN op.time.wall ELSE @]
           log == Append(d.op_log, op)
<1>4. Accept(d, op) = [agent |-> d.agent, map |-> m, next_wall |-> w,
                       map_vector |-> mv, op_log |-> log]
  <2>1. d = [agent |-> d.agent, map |-> d.map, next_wall |-> d.next_wall,
             map_vector |-> d.map_vector, op_log |-> d.op_log]
    BY DEF Doc
  <2>2. Accept(d, op) = [d EXCEPT !.map = m, !.next_wall = w, !.map_vector = mv, !.op_log = log]
    BY DEF Accept
  <2> HIDE DEF m, w, mv, log
  <2> QED
    BY <2>1, <2>2
<1>5. d.agent \in Agents /\ w \in 1 .. MaxWall + 1 /\ mv \in [Agents -> 0 .. MaxWall]
  BY <1>1 DEF Doc
<1> HIDE DEF m, w, mv, log
<1>6. [agent |-> d.agent, map |-> m, next_wall |-> w, map_vector |-> mv, op_log |-> log] \in Doc
  BY <1>2, <1>3, <1>5 DEF Doc, m, log
<1> QED
  BY <1>4, <1>6 DEF m, w

\* Handing operation op to island r, with its counter already at w: the state
\* of r follows, and so does the winner of every key.
Hands(r, op, w) ==
    /\ r \in Agents
    /\ op \in MapOp
    /\ w \in 1 .. MaxWall + 1
    /\ doc[r].next_wall <= w
    /\ doc' = [doc EXCEPT ![r] = Integrate([@ EXCEPT !.next_wall = w], op)]
    /\ offered' = [offered EXCEPT ![r] = @ \cup {op}]

LEMMA HandStep ==
    ASSUME LwwInv, NEW r, NEW op, NEW w, Hands(r, op, w)
    PROVE  /\ TypeOK' /\ Ahead' /\ LatestWins'
           /\ \A s \in Agents : doc'[s].next_wall >= doc[s].next_wall
           /\ ForwardStep
           /\ Superseded(doc[r], op) \/ doc'[r].map[op.key] = [present |-> op.present, time |-> op.time]
<1> DEFINE d == [doc[r] EXCEPT !.next_wall = w]
           e == Integrate(d, op)
           v == [present |-> op.present, time |-> op.time]
<1> USE DEF Hands
<1>1. /\ d \in Doc /\ d.map = doc[r].map /\ d.agent = r /\ d.next_wall = w
      /\ doc[r] \in Doc
  <2>1. doc[r] \in Doc /\ doc[r].agent = r
    BY DEF LwwInv, TypeOK
  <2>2. d = [agent |-> r, map |-> doc[r].map, next_wall |-> w,
             map_vector |-> doc[r].map_vector, op_log |-> doc[r].op_log]
    BY <2>1 DEF Doc
  <2> QED
    BY <2>1, <2>2 DEF Doc
<1>2. /\ op.key \in Keys /\ op.time \in LogicalTime /\ op.time.wall \in 1 .. MaxWall
      /\ v \in LwwValue /\ v # Absent /\ v.time = op.time
      /\ MaxWall \in Nat
  BY LwwAssumption DEF MapOp, LogicalTime, LwwValue
<1>3. Superseded(d, op) <=> Superseded(doc[r], op)
  BY <1>1 DEF Superseded
<1>4. /\ doc' = [s \in Agents |-> IF s = r THEN e ELSE doc[s]]
      /\ offered' = [s \in Agents |-> IF s = r THEN offered[r] \cup {op} ELSE offered[s]]
  BY DEF LwwInv, TypeOK
<1>5. ASSUME NEW k \in Keys
      PROVE  doc[r].map[k] # Absent => /\ doc[r].map[k].time \in LogicalTime
                                       /\ doc[r].map[k] \in LwwValue
  BY <1>1 DEF Doc, LwwValue
\* The new document of r.
<1>6. /\ e \in Doc /\ e.agent = r
      /\ e.next_wall >= w
      /\ \A k \in Keys \ {op.key} : e.map[k] = doc[r].map[k]
      /\ IF Superseded(doc[r], op) THEN e.map = doc[r].map /\ e.next_wall = w
                                   ELSE e.map[op.key] = v /\ e.next_wall > op.time.wall
  <2>1. CASE Superseded(doc[r], op)
    <3>1. e = d
      BY <2>1, <1>3 DEF Integrate
    <3> HIDE DEF d, e
    <3> QED
      BY <1>1, <2>1, <3>1
  <2>2. CASE ~Superseded(doc[r], op)
    <3>1. e = Accept(d, op)
      BY <2>2, <1>3 DEF Integrate
    <3> HIDE DEF d, e
    <3>2. /\ e \in Doc
          /\ e.agent = d.agent
          /\ e.map = [d.map EXCEPT ![op.key] = v]
          /\ e.next_wall = IF op.time.wall >= d.next_wall THEN op.time.wall + 1
                                                          ELSE d.next_wall
      BY <1>1, <3>1, AcceptFields
    <3>3. d.map \in [Keys -> LwwValue \cup {Absent}]
      BY <1>1 DEF Doc
    <3> QED
      BY <1>1, <1>2, <2>2, <3>2, <3>3
  <2> QED
    BY <2>1, <2>2
<1> HIDE DEF d, e, v
<1>7. TypeOK'
  BY <1>4, <1>6 DEF LwwInv, TypeOK
<1>8. w \in Nat /\ doc[r].next_wall \in Nat /\ e.next_wall \in Nat
  BY <1>1, <1>2, <1>6 DEF Doc
\* The counter of r stays past everything it was handed.
<1>9. op.time.wall < e.next_wall
  <2>1. CASE Superseded(doc[r], op)
    <3>1. /\ doc[r].map[op.key] # Absent
          /\ doc[r].map[op.key].time.wall >= op.time.wall
      BY <2>1, <1>2, <1>5, TimeOrder DEF Superseded
    <3>2. PICK o \in offered[r] : doc[r].map[op.key] = [present |-> o.present, time |-> o.time]
      BY <3>1, <1>2 DEF LwwInv, LatestWins, Latest, Offers
    <3>3. o.time.wall < doc[r].next_wall /\ o.time.wall \in Nat /\ o.time.wall >= op.time.wall
      BY <3>1, <3>2 DEF LwwInv, Ahead, TypeOK, MapOp, LogicalTime
    <3> QED
      BY <3>3, <1>2, <1>6, <1>8
  <2>2. CASE ~Superseded(doc[r], op)
    BY <2>2, <1>6
  <2> QED
    BY <2>1, <2>2
<1>10. Ahead'
  <2> SUFFICES ASSUME NEW s \in Agents, NEW o \in offered'[s]
               PROVE  o.time.wall < doc'[s].next_wall
    BY DEF Ahead
  <2>1. CASE s # r
    BY <2>1, <1>4 DEF LwwInv, Ahead
  <2>2. CASE s = r /\ o = op
    BY <2>2, <1>4, <1>9
  <2>3. CASE s = r /\ o \in offered[r]
    <3>1. o.time.wall < doc[r].next_wall /\ o.time.wall \in Nat
      BY <2>3 DEF LwwInv, Ahead, TypeOK, MapOp, LogicalTime
    <3> QED
      BY <2>3, <3>1, <1>4, <1>6, <1>8
  <2> QED
    BY <2>1, <2>2, <2>3, <1>4
<1>11. \A s \in Agents : doc'[s].next_wall >= doc[s].next_wall
  <2>1. \A s \in Agents : doc[s].next_wall \in Nat
    BY <1>2 DEF LwwInv, TypeOK, Doc
  <2>2. doc'[r].next_wall >= doc[r].next_wall
    BY <1>4, <1>6, <1>8
  <2> QED
    BY <1>4, <2>1, <2>2
<1>12. ForwardStep
  <2> SUFFICES ASSUME NEW s \in Agents, NEW k \in Keys, doc[s].map[k] # Absent
               PROVE  doc'[s].map[k] # Absent /\ AtLeast(doc'[s].map[k].time, doc[s].map[k].time)
    BY DEF ForwardStep
  <2>1. doc[s].map[k].time \in LogicalTime
    BY DEF LwwInv, TypeOK, Doc, LwwValue
  <2>2. CASE s # r \/ k # op.key \/ Superseded(doc[r], op)
    <3>1. doc'[s].map[k] = doc[s].map[k]
      BY <2>2, <1>4, <1>6
    <3> QED
      BY <2>1, <3>1, TimeOrder
  <2>3. CASE s = r /\ k = op.key /\ ~Superseded(doc[r], op)
    <3>1. doc'[s].map[k] = v
      BY <2>3, <1>4, <1>6
    <3>2. ~AtLeast(doc[s].map[k].time, op.time)
      BY <2>3 DEF Superseded
    <3> QED
      BY <2>1, <3>1, <3>2, <1>2, TimeOrder
  <2> QED
    BY <2>2, <2>3
<1>13. LatestWins'
  <2> SUFFICES ASSUME NEW s \in Agents, NEW k \in Keys
               PROVE  IF Offers(s, k)' # {}
                      THEN \E o \in Latest(s, k)' :
                               doc'[s].map[k] = [present |-> o.present, time |-> o.time]
                      ELSE doc'[s].map[k] = Absent
    BY DEF LatestWins
  <2>0. IF Offers(s, k) # {}
        THEN \E o \in Latest(s, k) : doc[s].map[k] = [present |-> o.present, time |-> o.time]
        ELSE doc[s].map[k] = Absent
    BY DEF LwwInv, LatestWins
  <2>1. CASE s # r \/ k # op.key
    <3>1. Offers(s, k)' = Offers(s, k) /\ doc'[s].map[k] = doc[s].map[k]
      BY <2>1, <1>4, <1>6 DEF Offers
    <3>2. Latest(s, k)' = Latest(s, k)
      BY <3>1 DEF Latest
    <3> QED
      BY <2>0, <3>1, <3>2
  <2>2. CASE s = r /\ k = op.key
    <3>1. Offers(r, k)' = Offers(r, k) \cup {op}
      BY <2>2, <1>4 DEF Offers
    <3>2. \A o \in Offers(r, k)' : o.time \in LogicalTime
      BY <3>1, <1>2 DEF Offers, LwwInv, TypeOK, MapOp
    <3>3. CASE Superseded(doc[r], op)
      <4>1. doc'[r].map[k] = doc[r].map[k] /\ doc[r].map[k] # Absent
            /\ AtLeast(doc[r].map[k].time, op.time)
        BY <2>2, <3>3, <1>4, <1>6 DEF Superseded
      <4>2. PICK o \in Latest(r, k) : doc[r].map[k] = [present |-> o.present, time |-> o.time]
        BY <2>0, <2>2, <4>1
      <4>3. AtLeast(o.time, op.time)
        BY <4>1, <4>2
      <4>4. o \in Latest(r, k)'
        BY <3>1, <4>2, <4>3 DEF Latest
      <4> QED
        BY <2>2, <3>1, <4>1, <4>2, <4>4
    <3>4. CASE ~Superseded(doc[r], op)
      <4>1. doc'[r].map[k] = [present |-> op.present, time |-> op.time]
        BY <2>2, <3>4, <1>4, <1>6 DEF v
      <4>2. \A o \in Offers(r, k) : AtLeast(op.time, o.time)
        <5>1. CASE Offers(r, k) = {}
          BY <5>1
        <5>2. CASE Offers(r, k) # {}
          <6>1. PICK m \in Latest(r, k) :
                    doc[r].map[k] = [present |-> m.present, time |-> m.time]
            BY <2>0, <2>2, <5>2
          <6>2. m \in Offers(r, k) /\ \A o \in Offers(r, k) : AtLeast(m.time, o.time)
            BY <6>1 DEF Latest
          <6>3. m \in MapOp
            BY <6>2 DEF Offers, LwwInv, TypeOK
          <6>4. doc[r].map[k] # Absent
            BY <6>1, <6>3, LwwAssumption DEF MapOp, LwwValue
          <6>5. ~AtLeast(m.time, op.time)
            BY <2>2, <3>4, <6>1, <6>4 DEF Superseded
          <6>6. AtLeast(op.time, m.time)
            BY <6>3, <6>5, <1>2, TimeOrder DEF MapOp
          <6>7. ASSUME NEW o \in Offers(r, k) PROVE AtLeast(op.time, o.time)
            <7>1. AtLeast(m.time, o.time) /\ o.time \in LogicalTime /\ m.time \in LogicalTime
              BY <3>1, <3>2, <6>2
            <7> QED
              BY <6>6, <7>1, <1>2, TimeOrder
          <6> QED
            BY <6>7
        <5> QED
          BY <5>1, <5>2
      <4>3. op \in Latest(r, k)'
        BY <3>1, <4>2, <1>2, TimeOrder DEF Latest
      <4> QED
        BY <2>2, <3>1, <4>1, <4>3
    <3> QED
      BY <3>3, <3>4
  <2> QED
    BY <2>1, <2>2
<1>14. Superseded(doc[r], op) \/ doc'[r].map[op.key] = [present |-> op.present, time |-> op.time]
  BY <1>4, <1>6 DEF v
<1> QED
  BY <1>7, <1>10, <1>11, <1>12, <1>13, <1>14

-----------------------------------------------------------------------------
LEMMA WriteStep ==
    ASSUME LwwInv, NEW r \in Agents, NEW k \in Keys, NEW present \in BOOLEAN,
           Write(r, k, present)
    PROVE  LwwInv' /\ ForwardStep /\ LocalWriteStep
<1> DEFINE op == [key |-> k, present |-> present, time |-> TickWall(doc[r])]
<1>1. /\ doc[r] \in Doc /\ doc[r].agent = r
      /\ doc[r].next_wall \in 1 .. MaxWall
      /\ MaxWall \in Nat
  BY LwwAssumption DEF LwwInv, TypeOK, Doc, Write
<1>2. /\ op.time = [wall |-> doc[r].next_wall, agent |-> r]
      /\ op \in MapOp
  BY <1>1 DEF TickWall, MapOp, LogicalTime
<1>3. Hands(r, op, doc[r].next_wall + 1)
  <2>1. doc' = [doc EXCEPT ![r] = Integrate([@ EXCEPT !.next_wall = doc[r].next_wall + 1], op)]
    BY DEF Write, Ticked
  <2>2. /\ doc[r].next_wall + 1 \in 1 .. MaxWall + 1
        /\ doc[r].next_wall <= doc[r].next_wall + 1
    BY <1>1
  <2>3. offered' = [offered EXCEPT ![r] = @ \cup {op}]
    BY DEF Write
  <2> HIDE DEF op
  <2> QED
    BY <1>2, <2>1, <2>2, <2>3 DEF Hands
<1> HIDE DEF op
<1>4. /\ TypeOK' /\ Ahead' /\ LatestWins'
      /\ \A s \in Agents : doc'[s].next_wall >= doc[s].next_wall
      /\ ForwardStep
      /\ Superseded(doc[r], op) \/ doc'[r].map[op.key] = [present |-> op.present, time |-> op.time]
  BY <1>3, HandStep
\* Everything r knows is earlier than its own next time.
<1>5. ~Superseded(doc[r], op)
  <2> SUFFICES ASSUME Superseded(doc[r], op) PROVE FALSE
    OBVIOUS
  <2>1. /\ op.key \in Keys
        /\ doc[r].map[op.key] # Absent
        /\ AtLeast(doc[r].map[op.key].time, op.time)
    BY <1>2 DEF Superseded, MapOp
  <2>2. PICK o \in offered[r] : doc[r].map[op.key] = [present |-> o.present, time |-> o.time]
    BY <2>1 DEF LwwInv, LatestWins, Latest, Offers
  <2>3. o.time \in LogicalTime /\ o.time.wall \in Nat /\ o.time.wall < doc[r].next_wall
    BY DEF LwwInv, Ahead, TypeOK, MapOp, LogicalTime
  <2>4. o.time.wall >= op.time.wall
    BY <1>2, <2>1, <2>2, <2>3, TimeOrder DEF MapOp
  <2> QED
    BY <1>1, <1>2, <2>3, <2>4
<1>6. \A o \in AllOps : o.time # op.time
  <2> SUFFICES ASSUME NEW o \in AllOps, o.time = op.time PROVE FALSE
    OBVIOUS
  <2>1. o.time.agent = r
    BY <1>2
  <2>2. o \in offered[r]
    BY <2>1 DEF LwwInv, Home
  <2>3. o.time.wall < doc[r].next_wall
    BY <2>2 DEF LwwInv, Ahead
  <2> QED
    BY <1>1, <1>2, <2>3
<1>7. offered' = [offered EXCEPT ![r] = @ \cup {op}]
  BY <1>3 DEF Hands
<1>8. AllOps' = AllOps \cup {op}
  BY <1>7 DEF AllOps, LwwInv, TypeOK
<1>9. Home'
  <2> SUFFICES ASSUME NEW o \in AllOps' PROVE o \in offered'[o.time.agent]
    BY DEF Home
  <2>1. CASE o = op
    BY <2>1, <1>2, <1>7 DEF LwwInv, TypeOK
  <2>2. CASE o \in AllOps
    <3>1. o \in offered[o.time.agent]
      BY <2>2 DEF LwwInv, Home
    <3> QED
      BY <3>1, <1>7 DEF LwwInv, TypeOK
  <2> QED
    BY <2>1, <2>2, <1>8
<1>10. TimesAreUnique'
  BY <1>6, <1>8 DEF LwwInv, TimesAreUnique
<1>11. LocalWriteStep
  <2> SUFFICES ASSUME NEW s \in Agents, offered'[s] \ AllOps # {}
               PROVE  \E j \in Keys, b \in BOOLEAN : Writes(s, j, b)
    BY DEF LocalWriteStep
  <2>1. s = r
    BY <1>7 DEF AllOps, LwwInv, TypeOK
  <2>2. /\ op.key = k /\ op.present = present /\ op.time = TickWall(doc[r])
    BY DEF op
  <2>3. Writes(r, k, present)
    BY <1>4, <1>5, <2>2 DEF Writes
  <2> QED
    BY <2>1, <2>3
<1> QED
  BY <1>4, <1>9, <1>10, <1>11 DEF LwwInv

LEMMA ReceiveStep ==
    ASSUME LwwInv, NEW r \in Agents, NEW op \in AllOps, Receive(r, op)
    PROVE  LwwInv' /\ ForwardStep /\ LocalWriteStep
<1>1. /\ doc[r] \in Doc
      /\ doc[r].next_wall \in 1 .. MaxWall + 1
      /\ op \in MapOp
  BY DEF LwwInv, TypeOK, Doc, AllOps
<1>2. [doc[r] EXCEPT !.next_wall = doc[r].next_wall] = doc[r]
  BY <1>1 DEF Doc
<1>3. Hands(r, op, doc[r].next_wall)
  <2>1. doc' = [doc EXCEPT ![r] = Integrate([@ EXCEPT !.next_wall = doc[r].next_wall], op)]
    BY <1>2 DEF Receive
  <2>2. doc[r].next_wall <= doc[r].next_wall
    BY <1>1, LwwAssumption
  <2> QED
    BY <1>1, <2>1, <2>2 DEF Hands, Receive
<1>4. TypeOK' /\ Ahead' /\ LatestWins' /\ ForwardStep
  BY <1>3, HandStep
<1>5. offered' = [offered EXCEPT ![r] = @ \cup {op}]
  BY DEF Receive
<1>6. AllOps' = AllOps
  BY <1>5 DEF AllOps, LwwInv, TypeOK
<1>7. Home' /\ TimesAreUnique'
  BY <1>5, <1>6 DEF LwwInv, TypeOK, Home, TimesAreUnique
<1>8. LocalWriteStep
  BY <1>6 DEF LocalWriteStep, AllOps
<1> QED
  BY <1>4, <1>7, <1>8 DEF LwwInv

LEMMA InitLwwInv == Init => LwwInv
<1> SUFFICES ASSUME Init PROVE LwwInv
  OBVIOUS
<1>1. ASSUME NEW a \in Agents PROVE New(a) \in Doc /\ New(a).agent = a
  <2>1. <<>> \in Seq(MapOp) /\ 1 \in 1 .. MaxWall + 1 /\ 0 \in 0 .. MaxWall
    BY LwwAssumption
  <2> QED
    BY <2>1 DEF New, Doc
<1>2. TypeOK
  BY <1>1 DEF Init, TypeOK
<1>3. \A r \in Agents : offered[r] = {} /\ \A k \in Keys : doc[r].map[k] = Absent
  BY DEF Init, New
<1>4. AllOps = {}
  BY <1>3 DEF AllOps
<1> QED
  BY <1>2, <1>3, <1>4 DEF LwwInv, Ahead, Home, TimesAreUnique, LatestWins, Offers

LEMMA EveryStep ==
    ASSUME LwwInv, [OpNext]_vars
    PROVE  LwwInv' /\ [ForwardStep]_vars /\ [LocalWriteStep]_vars
<1>1. CASE LocalNext
  BY <1>1, WriteStep DEF LocalNext
<1>2. ASSUME NEW r \in Agents, NEW op \in AllOps, Receive(r, op)
      PROVE  LwwInv' /\ ForwardStep /\ LocalWriteStep
  BY <1>2, ReceiveStep
<1>3. CASE UNCHANGED vars
  BY <1>3 DEF vars, LwwInv, TypeOK, Ahead, Home, TimesAreUnique, LatestWins, Latest,
              Offers, AllOps
<1> QED
  BY <1>1, <1>2, <1>3 DEF OpNext

LEMMA LwwInvariant == OpSpec => []LwwInv
BY InitLwwInv, EveryStep, PTL DEF OpSpec

-----------------------------------------------------------------------------
\* The state of the map stays well formed.
THEOREM MapTypeCorrect == OpSpec => []TypeOK
BY LwwInvariant, PTL DEF LwwInv

\* Strong eventual consistency of the map: every entry is the latest operation
\* on its key that the island was handed, in whatever order they came.
THEOREM LatestWriteWins == OpSpec => []LatestWins
BY LwwInvariant, PTL DEF LwwInv

\* A time is never given to two operations.
THEOREM WriteTimesAreUnique == OpSpec => []TimesAreUnique
BY LwwInvariant, PTL DEF LwwInv

\* A local write always takes effect at once, whatever was received before.
THEOREM LocalWritesTakeEffect == OpSpec => LocalWritesStick
BY LwwInvariant, EveryStep, PTL DEF OpSpec, LocalWritesStick

\* No entry ever goes back to an earlier time.
THEOREM NoEntryGoesBack == OpSpec => EntriesMoveForward
BY LwwInvariant, EveryStep, PTL DEF OpSpec, EntriesMoveForward

\* Islands that were handed the same operations on a key agree on it.
THEOREM MapConverges == OpSpec => []Converged
<1>1. LwwInv => Converged
  <2> SUFFICES ASSUME LwwInv, NEW r \in Agents, NEW s \in Agents, NEW k \in Keys,
                      Offers(r, k) = Offers(s, k)
               PROVE  doc[r].map[k] = doc[s].map[k]
    BY DEF Converged
  <2>1. CASE Offers(r, k) = {}
    BY <2>1 DEF LwwInv, LatestWins
  <2>2. CASE Offers(r, k) # {}
    <3>1. PICK o \in Latest(r, k) : doc[r].map[k] = [present |-> o.present, time |-> o.time]
      BY <2>2 DEF LwwInv, LatestWins
    <3>2. PICK p \in Latest(s, k) : doc[s].map[k] = [present |-> p.present, time |-> p.time]
      BY <2>2 DEF LwwInv, LatestWins
    <3>3. o \in AllOps /\ p \in AllOps /\ o \in MapOp /\ p \in MapOp
      BY DEF Latest, Offers, AllOps, LwwInv, TypeOK
    <3>4. AtLeast(o.time, p.time) /\ AtLeast(p.time, o.time)
      BY DEF Latest
    <3>5. o.time = p.time
      <4>1. o.time \in LogicalTime /\ p.time \in LogicalTime
        BY <3>3 DEF MapOp
      <4>2. /\ o.time = [wall |-> o.time.wall, agent |-> o.time.agent]
            /\ p.time = [wall |-> p.time.wall, agent |-> p.time.agent]
            /\ o.time.wall \in 1 .. MaxWall /\ p.time.wall \in 1 .. MaxWall
            /\ o.time.agent \in Agents /\ p.time.agent \in Agents
        BY <4>1 DEF LogicalTime
      <4>3. /\ o.time.wall \in Int /\ p.time.wall \in Int
            /\ o.time.agent \in Int /\ p.time.agent \in Int
        <5>1. o.time.agent \in Nat /\ p.time.agent \in Nat
          BY <4>2, Bounds
        <5>2. o.time.wall \in Int /\ p.time.wall \in Int
          BY <4>2
        <5> QED
          BY <5>1, <5>2
      <4>4. o.time.wall = p.time.wall
        BY <3>4, <4>3 DEF AtLeast
      <4>5. o.time.agent = p.time.agent
        BY <3>4, <4>3, <4>4 DEF AtLeast
      <4> QED
        BY <4>2, <4>4, <4>5
    <3>6. o = p
      BY <3>3, <3>5 DEF LwwInv, TimesAreUnique
    <3> QED
      BY <3>1, <3>2, <3>6
  <2> QED
    BY <2>1, <2>2
<1> QED
  BY <1>1, LwwInvariant, PTL
=============================================================================
