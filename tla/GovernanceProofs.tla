-------------------------- MODULE GovernanceProofs --------------------------
(***************************************************************************)
(* Theorems about WebOfTrust, for every set of nodes, keys, nonces and     *)
(* powers and every width, about AdminMultisig, for every finite set of    *)
(* administrators, every threshold and every window, and about             *)
(* BlindedVoting, for all sets of voters, proposals and secrets.           *)
(***************************************************************************)
EXTENDS WebOfTrust, AdminMultisig, BlindedVoting, Sums

USE DEF Edges

LEMMA SquareIsNat == ASSUME NEW p \in Nat PROVE QuadraticCost(p) \in Nat
BY DEF QuadraticCost

LEMMA Wrap ==
    ASSUME NEW x \in Nat, NEW w \in Nat \ {0}
    PROVE  x % w \in 0 .. w - 1
OBVIOUS

LEMMA U64Bound == ASSUME NEW x \in Nat PROVE U64(x) \in 0 .. MaxU64
<1>1. MaxU64 + 1 \in Nat \ {0}
  BY TrustAssumption
<1> QED
  BY <1>1, Wrap, TrustAssumption DEF U64

LEMMA U128Bound == ASSUME NEW x \in Nat PROVE U128(x) \in Nat
<1> DEFINE m == MaxU64 + 1
           w == m * m
<1>1. m \in Nat \ {0}
  BY TrustAssumption
<1>2. w \in Nat
  BY <1>1
<1>3. w # 0
  BY <1>1
<1>4. x % w \in 0 .. w - 1
  BY <1>2, <1>3, Wrap
<1>5. x % w \in Nat
  <2> HIDE DEF w
  <2> QED
    BY <1>2, <1>4
<1> QED
  BY <1>5 DEF U128

LEMMA PowersAreNat == Powers \subseteq Nat
BY TrustAssumption

-----------------------------------------------------------------------------
\* The ledger's operations keep its types.
LedgerOK ==
    /\ locked \in [Nodes -> Nat]
    /\ power \in [Nodes -> 0 .. MaxU64]
    /\ slashed \in [Nodes -> Nat]

LEMMA LockKeepsTypes ==
    ASSUME LedgerOK, NEW v \in Nodes, NEW p \in Powers, Lock(v, p), UNCHANGED slashed
    PROVE  LedgerOK'
<1>1. p \in Nat /\ QuadraticCost(p) \in Nat
  BY PowersAreNat, SquareIsNat
<1>2. locked[v] + QuadraticCost(p) \in Nat /\ power[v] + p \in Nat
  BY <1>1, TrustAssumption DEF LedgerOK
<1>3. U128(locked[v] + QuadraticCost(p)) \in Nat /\ U64(power[v] + p) \in 0 .. MaxU64
  BY <1>2, U64Bound, U128Bound
<1> QED
  BY <1>3 DEF LedgerOK, Lock

LEMMA WithdrawKeepsTypes ==
    ASSUME LedgerOK, NEW v \in Nodes, NEW p \in Powers, Withdrawable(v, p), Withdraw(v, p)
    PROVE  /\ locked' \in [Nodes -> Nat]
           /\ power' \in [Nodes -> 0 .. MaxU64]
<1>1. p \in Nat /\ QuadraticCost(p) \in Nat
  BY PowersAreNat, SquareIsNat
<1>2. locked[v] - QuadraticCost(p) \in Nat
  BY <1>1 DEF LedgerOK, Withdrawable
<1>3. (IF power[v] > p THEN power[v] - p ELSE 0) \in 0 .. MaxU64
  BY <1>1, TrustAssumption DEF LedgerOK
<1> QED
  BY <1>2, <1>3 DEF LedgerOK, Withdraw

\* What slash does to the lifetime total: nothing, or the square for one node.
LEMMA SlashEffect ==
    ASSUME LedgerOK, NEW v \in Nodes, NEW p \in Powers, Slash(v, p)
    PROVE  /\ LedgerOK'
           /\ \A u \in Nodes : slashed'[u] # slashed[u] =>
                  u = v /\ slashed'[u] = slashed[u] + QuadraticCost(p)
           /\ slashed'[v] = slashed[v] + (IF Withdrawable(v, p) THEN QuadraticCost(p) ELSE 0)
<1>1. CASE Withdrawable(v, p)
  <2>1. Withdraw(v, p) /\ slashed' = [slashed EXCEPT ![v] = @ + QuadraticCost(p)]
    BY <1>1 DEF Slash
  <2>2. QuadraticCost(p) \in Nat
    BY PowersAreNat, SquareIsNat
  <2>3. slashed' \in [Nodes -> Nat]
    BY <2>1, <2>2 DEF LedgerOK
  <2>4. LedgerOK'
    BY <1>1, <2>1, <2>3, WithdrawKeepsTypes DEF LedgerOK
  <2> QED
    BY <1>1, <2>1, <2>2, <2>4 DEF LedgerOK
<1>2. CASE ~Withdrawable(v, p)
  BY <1>2 DEF Slash, LedgerOK, stakingVars
<1> QED
  BY <1>1, <1>2

-----------------------------------------------------------------------------
LEMMA InitType == Init => TypeOK
<1> SUFFICES ASSUME Init PROVE TypeOK
  OBVIOUS
<1>1. Edges = {} /\ DOMAIN voucher_keys = {}
  BY DEF Init
<1>2. by_invitee \in [Edges -> VoucherEdge] /\ voucher_keys \in [DOMAIN voucher_keys -> Keys]
  BY <1>1 DEF Init
<1> QED
  BY <1>1, <1>2, TrustAssumption DEF Init, TypeOK

\* The accepted consent as a new edge.
LEMMA AddEdgeType ==
    ASSUME TypeOK, NEW c \in VoucherConsent, AddEdge(c), UNCHANGED slashed
    PROVE  /\ nodes' \subseteq Nodes /\ Edges' = Edges \cup {c.invitee}
           /\ Edges' \subseteq Nodes
           /\ by_invitee' \in [Edges' -> VoucherEdge]
           /\ by_voucher' \in [Nodes -> Seq(Nodes)]
           /\ LedgerOK'
<1>1. c.voucher \in Nodes /\ c.invitee \in Nodes /\ c.power_units \in Powers
  BY DEF VoucherConsent
<1>2. LedgerOK'
  BY <1>1, LockKeepsTypes DEF AddEdge, TypeOK, LedgerOK
<1>3. Edges' = Edges \cup {c.invitee} /\ nodes' \subseteq Nodes
  BY <1>1 DEF AddEdge, TypeOK
<1>4. [voucher |-> c.voucher, invitee |-> c.invitee, power_units |-> c.power_units,
       slashed |-> FALSE] \in VoucherEdge
  BY <1>1 DEF VoucherEdge
<1>5. by_invitee' \in [Edges' -> VoucherEdge]
  BY <1>3, <1>4 DEF AddEdge, TypeOK
<1>6. Append(by_voucher[c.voucher], c.invitee) \in Seq(Nodes)
  BY <1>1 DEF TypeOK
<1>7. by_voucher' \in [Nodes -> Seq(Nodes)]
  BY <1>1, <1>6 DEF AddEdge, TypeOK
<1> QED
  BY <1>1, <1>2, <1>3, <1>5, <1>7 DEF TypeOK

LEMMA MarkType ==
    ASSUME TypeOK, NEW i \in Nodes, MarkMaliciousAndSlash(i)
    PROVE  TypeOK'
<1>1. CASE i \in Edges /\ ~by_invitee[i].slashed
  <2>1. by_invitee[i] \in VoucherEdge
    BY <1>1 DEF TypeOK
  <2>2. by_invitee[i].voucher \in Nodes /\ by_invitee[i].power_units \in Powers
    BY <2>1 DEF VoucherEdge
  <2>3. LedgerOK'
    BY <1>1, <2>2, SlashEffect DEF MarkMaliciousAndSlash, TypeOK, LedgerOK
  <2>4. [by_invitee[i] EXCEPT !.slashed = TRUE] \in VoucherEdge
    BY <2>1 DEF VoucherEdge
  <2>5. Edges' = Edges /\ by_invitee' \in [Edges -> VoucherEdge]
    BY <1>1, <2>4 DEF MarkMaliciousAndSlash, TypeOK
  <2> QED
    BY <2>3, <2>5 DEF MarkMaliciousAndSlash, TypeOK, LedgerOK
<1>2. CASE ~(i \in Edges /\ ~by_invitee[i].slashed)
  BY <1>2 DEF MarkMaliciousAndSlash, TypeOK, stakingVars
<1> QED
  BY <1>1, <1>2

LEMMA NextType == TypeOK /\ [Next]_vars => TypeOK'
<1> SUFFICES ASSUME TypeOK, [Next]_vars PROVE TypeOK'
  OBVIOUS
<1>1. ASSUME NEW n \in Nodes, AddGenesis(n) PROVE TypeOK'
  BY <1>1 DEF AddGenesis, TypeOK, stakingVars
<1>2. ASSUME NEW n \in Nodes, NEW k \in Keys, RegisterVoucherKey(n, k) PROVE TypeOK'
  <2>1. /\ DOMAIN voucher_keys' = DOMAIN voucher_keys \cup {n}
        /\ voucher_keys' \in [DOMAIN voucher_keys \cup {n} -> Keys]
    BY <1>2 DEF RegisterVoucherKey, TypeOK
  <2> QED
    BY <1>2, <2>1 DEF RegisterVoucherKey, TypeOK, stakingVars
<1>3. ASSUME NEW c \in VoucherConsent, Onboard(c) PROVE TypeOK'
  <2>1. consumed_consents' \subseteq Nonces
    BY <1>3 DEF Onboard, VoucherConsent, TypeOK
  <2>2. CASE c.invitee \in nodes \/ c.power_units = 0
    BY <1>3, <2>1, <2>2 DEF Onboard, TypeOK
  <2>3. CASE ~(c.invitee \in nodes \/ c.power_units = 0)
    <3>1. AddEdge(c) /\ UNCHANGED slashed
      BY <1>3, <2>3 DEF Onboard
    <3> QED
      BY <1>3, <2>1, <3>1, AddEdgeType DEF Onboard, TypeOK, LedgerOK
  <2> QED
    BY <2>2, <2>3
<1>4. ASSUME NEW i \in Nodes, MarkMaliciousAndSlash(i) PROVE TypeOK'
  BY <1>4, MarkType
<1>5. ASSUME NEW v \in Nodes, NEW p \in Powers, Unlock(v, p) PROVE TypeOK'
  <2>1. locked' \in [Nodes -> Nat] /\ power' \in [Nodes -> 0 .. MaxU64]
    BY <1>5, WithdrawKeepsTypes DEF Unlock, TypeOK, LedgerOK
  <2>2. released' \in [Nodes -> Nat]
    BY <1>5, PowersAreNat, SquareIsNat DEF Unlock, TypeOK
  <2> QED
    BY <1>5, <2>1, <2>2 DEF Unlock, TypeOK, graphVars
<1>6. CASE UNCHANGED vars
  BY <1>6 DEF vars, graphVars, stakingVars, TypeOK
<1> QED
  BY <1>1, <1>2, <1>3, <1>4, <1>5, <1>6 DEF Next

\* Every variable keeps its type; in particular no lock is ever overdrawn.
THEOREM TrustIsWellFormed == Spec => []TypeOK
BY InitType, NextType, PTL DEF Spec

-----------------------------------------------------------------------------
\* Vouchers are members, everybody but a genesis node has one, and no edge is
\* free of charge: the facts that, with TrustIsRooted, are inductive.
Founded ==
    /\ Edges \subseteq nodes
    /\ genesis \subseteq nodes
    /\ nodes \subseteq genesis \cup Edges
    /\ \A i \in Edges : by_invitee[i].voucher \in nodes /\ by_invitee[i].power_units # 0

RootedInv == Founded /\ TrustIsRooted

\* A newcomer joins below a member: a group with the newcomer in it has either
\* that member outside, or, without the newcomer, somebody who was vouched for
\* from outside the group already.
LEMMA NewcomerIsRooted ==
    ASSUME RootedInv, NEW c \in VoucherConsent, c.invitee \notin nodes,
           c.voucher \in nodes, c.power_units # 0, AddEdge(c), UNCHANGED genesis
    PROVE  RootedInv'
<1> DEFINE i == c.invitee
<1>1. /\ nodes' = nodes \cup {i}
      /\ Edges' = Edges \cup {i}
      /\ by_invitee'[i].voucher = c.voucher /\ by_invitee'[i].power_units = c.power_units
      /\ \A j \in Edges : j # i /\ by_invitee'[j] = by_invitee[j]
  BY DEF AddEdge, RootedInv, Founded
<1>2. Founded'
  BY <1>1 DEF RootedInv, Founded
<1>3. ASSUME NEW S \in (SUBSET nodes') \ {{}}, S \cap genesis' = {}
      PROVE  \E j \in S : j \in Edges' /\ by_invitee'[j].voucher \notin S
  <2>1. CASE i \notin S
    <3>1. S \in (SUBSET nodes) \ {{}} /\ S \cap genesis = {}
      BY <1>1, <1>3, <2>1
    <3>2. PICK j \in S : j \in Edges /\ by_invitee[j].voucher \notin S
      BY <3>1 DEF RootedInv, TrustIsRooted
    <3> QED
      BY <1>1, <3>2
  <2>2. CASE i \in S /\ c.voucher \notin S
    BY <1>1, <2>2
  <2>3. CASE i \in S /\ c.voucher \in S
    <3> DEFINE Rest == S \ {i}
    <3>1. c.voucher \in Rest
      BY <2>3
    <3>2. Rest \in (SUBSET nodes) \ {{}} /\ Rest \cap genesis = {}
      BY <1>1, <1>3, <3>1
    <3>3. PICK j \in Rest : j \in Edges /\ by_invitee[j].voucher \notin Rest
      BY <3>2 DEF RootedInv, TrustIsRooted
    <3>4. by_invitee[j].voucher # i
      BY <3>3 DEF RootedInv, Founded
    <3>5. by_invitee[j].voucher \notin S
      BY <3>3, <3>4
    <3> QED
      BY <1>1, <3>3, <3>5
  <2> QED
    BY <2>1, <2>2, <2>3
<1> QED
  BY <1>2, <1>3 DEF RootedInv, TrustIsRooted

LEMMA NextRooted == TypeOK /\ RootedInv /\ [Next]_vars => RootedInv'
<1> SUFFICES ASSUME TypeOK, RootedInv, [Next]_vars PROVE RootedInv'
  OBVIOUS
<1>1. ASSUME NEW n \in Nodes, AddGenesis(n) PROVE RootedInv'
  <2>1. /\ nodes' = nodes \cup {n} /\ genesis' = genesis \cup {n}
        /\ by_invitee' = by_invitee
    BY <1>1 DEF AddGenesis
  <2>2. Founded'
    BY <2>1 DEF RootedInv, Founded
  <2>3. ASSUME NEW S \in (SUBSET nodes') \ {{}}, S \cap genesis' = {}
        PROVE  \E j \in S : j \in Edges' /\ by_invitee'[j].voucher \notin S
    <3>1. S \in (SUBSET nodes) \ {{}} /\ S \cap genesis = {}
      BY <2>1, <2>3
    <3> QED
      BY <2>1, <3>1 DEF RootedInv, TrustIsRooted
  <2> QED
    BY <2>2, <2>3 DEF RootedInv, TrustIsRooted
<1>2. ASSUME NEW n \in Nodes, NEW k \in Keys, RegisterVoucherKey(n, k) PROVE RootedInv'
  BY <1>2 DEF RegisterVoucherKey, RootedInv, Founded, TrustIsRooted
<1>3. ASSUME NEW c \in VoucherConsent, Onboard(c) PROVE RootedInv'
  <2>1. CASE c.invitee \in nodes \/ c.power_units = 0
    BY <1>3, <2>1 DEF Onboard, RootedInv, Founded, TrustIsRooted
  <2>2. CASE ~(c.invitee \in nodes \/ c.power_units = 0)
    <3>1. AddEdge(c) /\ c.voucher \in nodes /\ UNCHANGED genesis
      BY <1>3, <2>2 DEF Onboard, Acceptable
    <3> QED
      BY <2>2, <3>1, NewcomerIsRooted
  <2> QED
    BY <2>1, <2>2
<1>4. ASSUME NEW i \in Nodes, MarkMaliciousAndSlash(i) PROVE RootedInv'
  <2>1. /\ nodes' = nodes /\ genesis' = genesis /\ Edges' = Edges
        /\ \A j \in Edges : /\ by_invitee'[j].voucher = by_invitee[j].voucher
                             /\ by_invitee'[j].power_units = by_invitee[j].power_units
    <3>1. CASE i \in Edges /\ ~by_invitee[i].slashed
      <4>1. by_invitee' = [by_invitee EXCEPT ![i] = [by_invitee[i] EXCEPT !.slashed = TRUE]]
        BY <1>4, <3>1 DEF MarkMaliciousAndSlash
      <4>2. by_invitee[i] \in VoucherEdge
        BY <3>1 DEF TypeOK
      <4>3. LET e == [by_invitee[i] EXCEPT !.slashed = TRUE]
            IN  e.voucher = by_invitee[i].voucher /\ e.power_units = by_invitee[i].power_units
        BY <4>2 DEF VoucherEdge
      <4> QED
        BY <1>4, <4>1, <4>3 DEF MarkMaliciousAndSlash, TypeOK
    <3>2. CASE ~(i \in Edges /\ ~by_invitee[i].slashed)
      BY <1>4, <3>2 DEF MarkMaliciousAndSlash
    <3> QED
      BY <3>1, <3>2
  <2>2. Founded'
    BY <2>1 DEF RootedInv, Founded
  <2>3. TrustIsRooted'
    <3>1. ASSUME NEW S \in (SUBSET nodes) \ {{}}, S \cap genesis = {}
          PROVE  \E j \in S : j \in Edges' /\ by_invitee'[j].voucher \notin S
      <4>1. PICK j \in S : j \in Edges /\ by_invitee[j].voucher \notin S
        BY <3>1 DEF RootedInv, TrustIsRooted
      <4> QED
        BY <2>1, <4>1
    <3> QED
      BY <2>1, <3>1 DEF TrustIsRooted
  <2> QED
    BY <2>2, <2>3 DEF RootedInv
<1>5. ASSUME NEW v \in Nodes, NEW p \in Powers, Unlock(v, p) PROVE RootedInv'
  BY <1>5 DEF Unlock, graphVars, RootedInv, Founded, TrustIsRooted
<1>6. CASE UNCHANGED vars
  BY <1>6 DEF vars, graphVars, RootedInv, Founded, TrustIsRooted
<1> QED
  BY <1>1, <1>2, <1>3, <1>4, <1>5, <1>6 DEF Next

\* Nobody is a member by a circle of vouchers: all trust comes from genesis.
THEOREM AllTrustIsRooted == Spec => []TrustIsRooted
<1>1. Init => RootedInv
  BY DEF Init, RootedInv, Founded, TrustIsRooted
<1>2. RootedInv => TrustIsRooted
  BY DEF RootedInv
<1> QED
  BY <1>1, <1>2, NextRooted, TrustIsWellFormed, PTL DEF Spec

-----------------------------------------------------------------------------
LEMMA QuietStep ==
    ASSUME TypeOK, NEW S, Edges' = Edges \cup S,
           \A j \in Edges : by_invitee'[j] = by_invitee[j], UNCHANGED slashed
    PROVE  SlashStep
BY DEF SlashStep

LEMMA MarkSlashes ==
    ASSUME TypeOK, Founded, NEW i \in Nodes, MarkMaliciousAndSlash(i)
    PROVE  SlashStep
<1>1. CASE i \in Edges /\ ~by_invitee[i].slashed
  <2> DEFINE e == by_invitee[i]
             v == e.voucher
             p == e.power_units
  <2>1. e \in VoucherEdge /\ v \in Nodes /\ p \in Powers
    BY <1>1 DEF TypeOK, VoucherEdge
  <2>2. by_invitee' = [by_invitee EXCEPT ![i] = [e EXCEPT !.slashed = TRUE]]
    BY <1>1 DEF MarkMaliciousAndSlash
  <2>3. /\ Edges' = Edges
        /\ by_invitee'[i] = [e EXCEPT !.slashed = TRUE]
        /\ \A j \in Edges : j # i => by_invitee'[j] = by_invitee[j]
    BY <1>1, <2>2 DEF TypeOK
  <2>4. /\ by_invitee'[i].slashed
        /\ [by_invitee'[i] EXCEPT !.slashed = FALSE] = [e EXCEPT !.slashed = FALSE]
    BY <2>1, <2>3 DEF VoucherEdge
  <2>5. ASSUME NEW j \in Edges
        PROVE  /\ [by_invitee'[j] EXCEPT !.slashed = FALSE]
                     = [by_invitee[j] EXCEPT !.slashed = FALSE]
               /\ by_invitee[j].slashed => by_invitee'[j].slashed
    BY <1>1, <2>3, <2>4, <2>5
  <2>6. Slash(v, p) /\ i \in malicious'
    BY <1>1 DEF MarkMaliciousAndSlash
  <2>7. \A u \in Nodes : slashed'[u] # slashed[u] =>
            u = v /\ slashed'[u] = slashed[u] + QuadraticCost(p)
    BY <2>1, <2>6, SlashEffect DEF TypeOK, LedgerOK
  <2>8. slashed'[v] = slashed[v] + (IF locked[v] >= QuadraticCost(p) THEN QuadraticCost(p) ELSE 0)
    <3>1. slashed'[v] = slashed[v] + (IF Withdrawable(v, p) THEN QuadraticCost(p) ELSE 0)
      BY <2>1, <2>6, SlashEffect DEF TypeOK, LedgerOK
    <3>2. p \in Nat /\ p # 0 /\ locked[v] \in Nat
      BY <1>1, <2>1, PowersAreNat DEF Founded, TypeOK
    <3> HIDE DEF e, v, p
    <3>3. Withdrawable(v, p) <=> locked[v] >= QuadraticCost(p)
      <4>1. p * p > 0 /\ p * p \in Nat
        BY <3>2
      <4> QED
        BY <3>2, <4>1 DEF Withdrawable, QuadraticCost
    <3> QED
      BY <3>1, <3>3
  <2> HIDE DEF e, v, p
  <2>9. e = by_invitee[i] /\ v = by_invitee[i].voucher /\ p = by_invitee[i].power_units
    BY DEF e, v, p
  <2>10. \A j \in Edges : ~by_invitee[j].slashed /\ by_invitee'[j].slashed => j = i
    BY <2>3
  <2> QED
    BY <1>1, <2>3, <2>4, <2>5, <2>6, <2>7, <2>8, <2>9, <2>10 DEF SlashStep
<1>2. CASE ~(i \in Edges /\ ~by_invitee[i].slashed)
  <2>1. by_invitee' = by_invitee /\ slashed' = slashed
    BY <1>2 DEF MarkMaliciousAndSlash, stakingVars
  <2> QED
    BY <2>1, QuietStep
<1> QED
  BY <1>1, <1>2

LEMMA NextSlashes == TypeOK /\ Founded /\ [Next]_vars => [SlashStep]_vars
<1> SUFFICES ASSUME TypeOK, Founded, Next PROVE SlashStep
  OBVIOUS
<1>1. ASSUME NEW n \in Nodes, AddGenesis(n) PROVE SlashStep
  BY <1>1 DEF AddGenesis, SlashStep, stakingVars
<1>2. ASSUME NEW n \in Nodes, NEW k \in Keys, RegisterVoucherKey(n, k) PROVE SlashStep
  BY <1>2 DEF RegisterVoucherKey, SlashStep, stakingVars
<1>3. ASSUME NEW c \in VoucherConsent, Onboard(c) PROVE SlashStep
  <2>1. CASE c.invitee \in nodes \/ c.power_units = 0
    BY <1>3, <2>1 DEF Onboard, SlashStep
  <2>2. CASE ~(c.invitee \in nodes \/ c.power_units = 0)
    <3>1. /\ Edges' = Edges \cup {c.invitee}
          /\ \A j \in Edges : by_invitee'[j] = by_invitee[j]
          /\ slashed' = slashed
      BY <1>3, <2>2 DEF Onboard, AddEdge, Founded
    <3> QED
      BY <3>1, QuietStep
  <2> QED
    BY <2>1, <2>2
<1>4. ASSUME NEW i \in Nodes, MarkMaliciousAndSlash(i) PROVE SlashStep
  BY <1>4, MarkSlashes
<1>5. ASSUME NEW v \in Nodes, NEW p \in Powers, Unlock(v, p) PROVE SlashStep
  BY <1>5 DEF Unlock, SlashStep, graphVars
<1> QED
  BY <1>1, <1>2, <1>3, <1>4, <1>5 DEF Next

\* A voucher loses collateral only for an invitee of its own that was marked
\* malicious, the square it signed for, and once.
THEOREM SlashesFollowEdges == Spec => SlashedOncePerEdge
<1>1. Init => RootedInv
  BY DEF Init, RootedInv, Founded, TrustIsRooted
<1>2. RootedInv => Founded
  BY DEF RootedInv
<1> QED
  BY <1>1, <1>2, NextRooted, NextSlashes, TrustIsWellFormed, PTL DEF Spec, SlashedOncePerEdge
-----------------------------------------------------------------------------
\* The power each node was vouched for with, 0 without an edge, and the
\* collateral that stands for it; the edges of one voucher, and those that were
\* not slashed.
PowerOf == [i \in Nodes |-> IF i \in Edges THEN by_invitee[i].power_units ELSE 0]

Collateral == [i \in Nodes |-> QuadraticCost(PowerOf[i])]

Own(v) == {i \in Edges : by_invitee[i].voucher = v}

Live(v) == {i \in Own(v) : ~by_invitee[i].slashed}

\* The hypothesis: there are finitely many nodes, and the powers that all of
\* them can be vouched for with fit the width of a sum of power.
PowersFit ==
    /\ IsFiniteSet(Nodes)
    /\ \A f \in [Nodes -> Powers \cup {0}] : Total(f, Nodes) <= MaxU64

Accounted(v) == locked[v] + slashed[v] + released[v] = Total(Collateral, Own(v))

Backed(v) ==
    released[v] = 0 => /\ locked[v] = Total(Collateral, Live(v))
                       /\ power[v] = Total(PowerOf, Live(v))
                       /\ slashed[v] = Total(Collateral, Own(v) \ Live(v))

\* The inductive invariant: the list of a voucher's invitees is the set of its
\* edges, no edge is free of charge, and the ledger's three sums are the sums
\* over those edges.
CollateralInv ==
    /\ \A i \in Edges : by_invitee[i].power_units # 0
    /\ \A v \in Nodes : ToSet(by_voucher[v]) = Own(v) /\ Accounted(v) /\ Backed(v)
    /\ IsFiniteSet(consumed_consents)
    /\ Cardinality(Edges) <= Cardinality(consumed_consents)

LEMMA WrapsBelow ==
    ASSUME NEW x \in Nat, NEW y \in Nat, x <= y, U128(y) = y
    PROVE  U128(x) = x
<1> DEFINE m == MaxU64 + 1
           w == m * m
<1>1. m \in Nat \ {0}
  BY TrustAssumption
<1>2. w \in Nat /\ w # 0
  BY <1>1
<1>3. y % w = y /\ y % w \in 0 .. w - 1
  BY <1>2, Wrap DEF U128
<1>4. x % w = x
  <2> HIDE DEF w
  <2> QED
    BY <1>2, <1>3
<1> QED
  BY <1>4 DEF U128

LEMMA RangeGrows ==
    ASSUME NEW S, NEW s \in Seq(S), NEW x
    PROVE  ToSet(Append(s, x)) = ToSet(s) \cup {x}
<1>1. /\ DOMAIN s = 1 .. Len(s) /\ Len(s) \in Nat
      /\ DOMAIN Append(s, x) = 1 .. Len(s) + 1
      /\ \A i \in 1 .. Len(s) : Append(s, x)[i] = s[i]
      /\ Append(s, x)[Len(s) + 1] = x
  OBVIOUS
<1>2. 1 .. Len(s) + 1 = (1 .. Len(s)) \cup {Len(s) + 1}
  BY <1>1
<1> QED
  BY <1>1, <1>2 DEF ToSet

LEMMA EdgePowers ==
    ASSUME PowersFit, TypeOK
    PROVE  /\ IsFiniteSet(Edges)
           /\ PowerOf \in [Nodes -> Powers \cup {0}]
           /\ \A i \in Nodes : PowerOf[i] \in Nat /\ Collateral[i] = PowerOf[i] * PowerOf[i]
           /\ \A i \in Nodes : Collateral[i] \in Nat
<1>1. IsFiniteSet(Edges)
  BY FS_Subset DEF PowersFit, TypeOK
<1>2. PowerOf \in [Nodes -> Powers \cup {0}]
  BY DEF PowerOf, TypeOK, VoucherEdge
<1>3. \A i \in Nodes : PowerOf[i] \in Nat /\ Collateral[i] = PowerOf[i] * PowerOf[i]
  <2>1. \A i \in Nodes : PowerOf[i] \in Powers \cup {0}
    BY <1>2
  <2>2. Powers \cup {0} \subseteq Nat
    BY PowersAreNat
  <2> QED
    BY <2>1, <2>2 DEF Collateral, QuadraticCost
<1>4. \A i \in Nodes : Collateral[i] \in Nat
  BY <1>3
<1> QED
  BY <1>1, <1>2, <1>3, <1>4

LEMMA EdgeTotals ==
    ASSUME PowersFit, TypeOK, NEW S \in SUBSET Nodes
    PROVE  /\ IsFiniteSet(S) /\ Counting(PowerOf, S) /\ Counting(Collateral, S)
           /\ Total(PowerOf, S) \in Nat /\ Total(Collateral, S) \in Nat
<1>1. IsFiniteSet(S)
  BY FS_Subset DEF PowersFit
<1>2. (\A i \in S : PowerOf[i] \in Nat) /\ (\A i \in S : Collateral[i] \in Nat)
  BY EdgePowers
<1>3. Total(PowerOf, S) \in Nat /\ Total(Collateral, S) \in Nat
  BY <1>1, <1>2, TotalIsNat
<1> QED
  BY <1>1, <1>2, <1>3 DEF Counting

\* No set of edges reaches the widths: not the sum of its powers, and not the
\* sum of its squares, which is below the square of that sum.
LEMMA TotalsFit ==
    ASSUME PowersFit, TypeOK, NEW S \in SUBSET Nodes
    PROVE  /\ U64(Total(PowerOf, S)) = Total(PowerOf, S)
           /\ U128(Total(Collateral, S)) = Total(Collateral, S)
<1> DEFINE p == Total(PowerOf, S)
           c == Total(Collateral, S)
           m == MaxU64 + 1
<1>1. p \in Nat /\ c \in Nat /\ MaxU64 \in Nat
  BY EdgeTotals, TrustAssumption
<1>2. p <= MaxU64
  <2>1. Total(PowerOf, S) <= Total(PowerOf, Nodes)
    <3>1. IsFiniteSet(Nodes) /\ Counting(PowerOf, Nodes)
      BY EdgeTotals DEF PowersFit
    <3> QED
      BY <3>1, TotalOfPart
  <2>2. Total(PowerOf, Nodes) <= MaxU64 /\ Total(PowerOf, Nodes) \in Nat
    BY EdgePowers, EdgeTotals DEF PowersFit
  <2> QED
    BY <1>1, <2>1, <2>2
<1>3. c <= p * p
  <2>1. IsFiniteSet(S)
    BY EdgeTotals
  <2>2. (\A i \in S : PowerOf[i] \in Nat) /\ (\A i \in S : Collateral[i] = PowerOf[i] * PowerOf[i])
    BY EdgePowers
  <2> HIDE DEF p, c
  <2> QED
    BY <2>1, <2>2, SquaresBelow DEF p, c
<1> HIDE DEF p, c
<1>4. p * p < m * m /\ m * m \in Nat
  <2>1. PICK d \in Nat : m = p + 1 + d
    BY <1>1, <1>2
  <2>2. m * m = p * p + 2 * p + 2 * (p * d) + 1 + 2 * d + d * d
    BY <1>1, <2>1
  <2>3. p * d \in Nat /\ d * d \in Nat /\ p * p \in Nat
    BY <1>1, <2>1
  <2> QED
    BY <1>1, <2>1, <2>2, <2>3
<1>5. p % m = p
  BY <1>1, <1>2
<1>6. c % (m * m) = c
  <2> DEFINE w == m * m
             q == p * p
  <2>1. q \in Nat
    BY <1>1
  <2> HIDE DEF w, q
  <2>2. c \in Nat /\ w \in Nat /\ c < w
    BY <1>1, <1>3, <1>4, <2>1 DEF w, q
  <2>3. c % w = c
    BY <2>2
  <2> QED
    BY <2>3 DEF w
<1> QED
  BY <1>5, <1>6 DEF U64, U128, p, c

SumsFit ==
    /\ \A i \in Nodes : PowerOf[i] \in Nat /\ Collateral[i] \in Nat
    /\ \A S \in SUBSET Nodes : /\ U64(Total(PowerOf, S)) = Total(PowerOf, S)
                              /\ U128(Total(Collateral, S)) = Total(Collateral, S)

LEMMA SumsStayInRange == PowersFit /\ TypeOK => SumsFit
<1> SUFFICES ASSUME PowersFit, TypeOK PROVE SumsFit
  OBVIOUS
<1> QED
  BY EdgePowers, TotalsFit DEF SumsFit

\* The steps that leave the graph and the ledger alone.
LEMMA QuietLedger ==
    ASSUME by_invitee' = by_invitee, by_voucher' = by_voucher,
           UNCHANGED stakingVars, released' = released
    PROVE  /\ Edges' = Edges /\ PowerOf' = PowerOf /\ Collateral' = Collateral
           /\ \A v \in Nodes : /\ Own(v)' = Own(v) /\ Live(v)' = Live(v)
                               /\ Accounted(v)' = Accounted(v) /\ Backed(v)' = Backed(v)
<1>1. Edges' = Edges /\ PowerOf' = PowerOf
  BY DEF PowerOf
<1>2. Collateral' = Collateral
  BY <1>1 DEF Collateral
<1>3. \A v \in Nodes : Own(v)' = Own(v)
  BY DEF Own
<1>4. \A v \in Nodes : Live(v)' = Live(v)
  BY <1>3 DEF Live
<1> QED
  BY <1>1, <1>2, <1>3, <1>4 DEF Accounted, Backed, stakingVars

LEMMA QuietKeeps ==
    ASSUME CollateralInv, by_invitee' = by_invitee, by_voucher' = by_voucher,
           UNCHANGED stakingVars, released' = released,
           IsFiniteSet(consumed_consents'),
           Cardinality(consumed_consents) <= Cardinality(consumed_consents'),
           PowersFit, TypeOK
    PROVE  CollateralInv'
<1>1. \A v \in Nodes : (ToSet(by_voucher[v]) = Own(v) /\ Accounted(v) /\ Backed(v))'
  BY QuietLedger DEF CollateralInv
<1>2. \A i \in Edges' : by_invitee'[i].power_units # 0
  BY DEF CollateralInv
<1>3. Cardinality(Edges') <= Cardinality(consumed_consents')
  <2> DEFINE e == Cardinality(Edges)
             n == Cardinality(consumed_consents)
             o == Cardinality(consumed_consents')
  <2>1. e \in Nat /\ n \in Nat /\ o \in Nat
    BY EdgePowers, FS_CardinalityType DEF CollateralInv
  <2>2. e <= n /\ n <= o
    BY DEF CollateralInv
  <2>3. e <= o
    <3> HIDE DEF e, n, o
    <3> QED
      BY <2>1, <2>2
  <2> QED
    BY <2>3
<1> QED
  BY <1>1, <1>2, <1>3 DEF CollateralInv

\* A nonce that was not spent before is one more.
LEMMA ConsentSpent ==
    ASSUME CollateralInv, NEW c, c \notin consumed_consents,
           consumed_consents' = consumed_consents \cup {c}
    PROVE  /\ IsFiniteSet(consumed_consents')
           /\ Cardinality(consumed_consents) \in Nat
           /\ Cardinality(consumed_consents') = Cardinality(consumed_consents) + 1
BY FS_AddElement, FS_CardinalityType DEF CollateralInv

\* A new edge: the voucher's sums grow by the newcomer's power and its square,
\* and nothing wraps.
LEMMA EdgeAdded ==
    ASSUME PowersFit, TypeOK, TypeOK', Founded, CollateralInv, NEW c \in VoucherConsent,
           c.invitee \notin nodes, c.power_units # 0, AddEdge(c),
           UNCHANGED <<slashed, released>>
    PROVE  /\ Edges' = Edges \cup {c.invitee} /\ c.invitee \notin Edges
           /\ \A i \in Edges' : by_invitee'[i].power_units # 0
           /\ \A v \in Nodes : (ToSet(by_voucher[v]) = Own(v) /\ Accounted(v) /\ Backed(v))'
<1> DEFINE i == c.invitee
           u == c.voucher
           p == c.power_units
<1>1. i \in Nodes /\ u \in Nodes /\ p \in Nat /\ i \notin Edges
  BY PowersAreNat DEF VoucherConsent, Founded
<1>2. /\ Edges' = Edges \cup {i}
      /\ by_invitee'[i] = [voucher |-> u, invitee |-> i, power_units |-> p, slashed |-> FALSE]
      /\ \A j \in Edges : by_invitee'[j] = by_invitee[j]
  BY <1>1 DEF AddEdge
<1>3. /\ PowerOf'[i] = p /\ Collateral'[i] = QuadraticCost(p)
      /\ \A j \in Edges : PowerOf'[j] = PowerOf[j] /\ Collateral'[j] = Collateral[j]
  <2>1. Edges \subseteq Nodes
    BY DEF TypeOK
  <2>2. PowerOf'[i] = p
    BY <1>1, <1>2 DEF PowerOf
  <2>3. \A j \in Edges : PowerOf'[j] = PowerOf[j]
    BY <1>2, <2>1 DEF PowerOf
  <2> QED
    BY <1>1, <2>1, <2>2, <2>3 DEF Collateral
<1>4. /\ Own(u)' = Own(u) \cup {i} /\ Live(u)' = Live(u) \cup {i}
      /\ \A v \in Nodes \ {u} : Own(v)' = Own(v) /\ Live(v)' = Live(v)
  BY <1>1, <1>2 DEF Own, Live
<1>5. \A S \in SUBSET Edges : /\ Total(PowerOf', S) = Total(PowerOf, S)
                              /\ Total(Collateral', S) = Total(Collateral, S)
  <2> SUFFICES ASSUME NEW S \in SUBSET Edges
               PROVE  /\ Total(PowerOf', S) = Total(PowerOf, S)
                      /\ Total(Collateral', S) = Total(Collateral, S)
    OBVIOUS
  <2>1. IsFiniteSet(S)
    BY EdgePowers, FS_Subset
  <2> QED
    BY <1>3, <2>1, TotalsAgree
<1>6. /\ \A j \in Nodes : PowerOf'[j] \in Nat /\ Collateral'[j] \in Nat
      /\ QuadraticCost(p) \in Nat
  <2>1. (PowersFit /\ TypeOK => SumsFit)'
    BY SumsStayInRange, PTL
  <2> QED
    BY <1>1, <2>1, SquareIsNat DEF PowersFit, SumsFit
<1>7. ASSUME NEW S \in SUBSET Edges
      PROVE  /\ Total(PowerOf', S \cup {i}) = p + Total(PowerOf, S)
             /\ Total(Collateral', S \cup {i}) = QuadraticCost(p) + Total(Collateral, S)
  <2>1. IsFiniteSet(S) /\ i \notin S /\ S \subseteq Nodes
    BY <1>1, EdgePowers, FS_Subset DEF TypeOK
  <2>2. Counting(PowerOf', S) /\ Counting(Collateral', S)
    BY <1>6, <2>1 DEF Counting
  <2>3. PowerOf'[i] \in Nat /\ Collateral'[i] \in Nat
    BY <1>1, <1>6
  <2>4. /\ Total(PowerOf', S \cup {i}) = PowerOf'[i] + Total(PowerOf', S)
        /\ Total(Collateral', S \cup {i}) = Collateral'[i] + Total(Collateral', S)
    BY <2>1, <2>2, <2>3, TotalTakesIn
  <2> QED
    BY <1>3, <1>5, <2>4
<1>8. ASSUME NEW S \in SUBSET Edges
      PROVE  /\ U64(p + Total(PowerOf, S)) = p + Total(PowerOf, S)
             /\ U128(QuadraticCost(p) + Total(Collateral, S))
                    = QuadraticCost(p) + Total(Collateral, S)
  <2>1. S \cup {i} \in SUBSET Nodes
    BY <1>1 DEF TypeOK
  <2>2. (PowersFit /\ TypeOK => SumsFit)'
    BY SumsStayInRange, PTL
  <2>3. /\ U64(Total(PowerOf', S \cup {i})) = Total(PowerOf', S \cup {i})
        /\ U128(Total(Collateral', S \cup {i})) = Total(Collateral', S \cup {i})
    BY <2>1, <2>2 DEF PowersFit, SumsFit, U64, U128
  <2> QED
    BY <1>7, <2>3
<1>9. \A v \in Nodes : Own(v) \subseteq Edges /\ Live(v) \subseteq Own(v)
                       /\ Own(v) \ Live(v) \subseteq Edges
  BY DEF Own, Live
<1>10. /\ \A v \in Nodes \ {u} : /\ by_voucher'[v] = by_voucher[v]
                                 /\ locked'[v] = locked[v] /\ power'[v] = power[v]
       /\ by_voucher'[u] = Append(by_voucher[u], i)
       /\ locked'[u] = U128(locked[u] + QuadraticCost(p))
       /\ power'[u] = U64(power[u] + p)
       /\ slashed' = slashed /\ released' = released
  BY <1>1 DEF AddEdge, Lock, TypeOK
<1>11. ASSUME NEW v \in Nodes \ {u}
       PROVE  (ToSet(by_voucher[v]) = Own(v) /\ Accounted(v) /\ Backed(v))'
  <2>1. ToSet(by_voucher[v]) = Own(v) /\ Accounted(v) /\ Backed(v)
    BY DEF CollateralInv
  <2>2. /\ Total(Collateral', Own(v)) = Total(Collateral, Own(v))
        /\ Total(Collateral', Live(v)) = Total(Collateral, Live(v))
        /\ Total(PowerOf', Live(v)) = Total(PowerOf, Live(v))
        /\ Total(Collateral', Own(v) \ Live(v)) = Total(Collateral, Own(v) \ Live(v))
    BY <1>5, <1>9
  <2>3. Accounted(v)'
    BY <1>4, <1>10, <2>1, <2>2 DEF Accounted
  <2>4. Backed(v)'
    BY <1>4, <1>10, <2>1, <2>2 DEF Backed
  <2> QED
    BY <1>4, <1>10, <2>1, <2>3, <2>4
<1>12. ToSet(by_voucher'[u]) = Own(u)'
  <2>1. by_voucher[u] \in Seq(Nodes) /\ ToSet(by_voucher[u]) = Own(u)
    BY <1>1 DEF TypeOK, CollateralInv
  <2>2. ToSet(Append(by_voucher[u], i)) = ToSet(by_voucher[u]) \cup {i}
    BY <1>1, <2>1, RangeGrows
  <2> QED
    BY <1>4, <1>10, <2>1, <2>2
<1> DEFINE q == QuadraticCost(p)
           l == locked[u]
           s == slashed[u]
           r == released[u]
           t == Total(Collateral, Own(u))
<1>13. q \in Nat /\ l \in Nat /\ s \in Nat /\ r \in Nat /\ t \in Nat /\ l + s + r = t
  BY <1>1, <1>6, <1>9, EdgeTotals DEF TypeOK, CollateralInv, Accounted
<1>14. locked'[u] = l + q
  <2>1. U128(q + t) = q + t
    BY <1>1, <1>8, <1>9
  <2> HIDE DEF q, l, s, r, t
  <2>2. l + q \in Nat /\ q + t \in Nat /\ l + q <= q + t
    BY <1>13
  <2>3. U128(l + q) = l + q
    BY <2>1, <2>2, WrapsBelow
  <2> QED
    BY <1>10, <2>3 DEF l, q
<1>15. Accounted(u)'
  <2>1. Total(Collateral', Own(u)') = q + t
    BY <1>1, <1>4, <1>7, <1>9
  <2>2. slashed'[u] = s /\ released'[u] = r
    BY <1>10
  <2> HIDE DEF q, l, s, r, t
  <2>3. (l + q) + s + r = q + t
    BY <1>13
  <2> QED
    BY <1>14, <2>1, <2>2, <2>3 DEF Accounted
<1>16. Backed(u)'
  <2> SUFFICES ASSUME released'[u] = 0
               PROVE  /\ locked'[u] = Total(Collateral', Live(u)')
                      /\ power'[u] = Total(PowerOf', Live(u)')
                      /\ slashed'[u] = Total(Collateral', Own(u)' \ Live(u)')
    BY DEF Backed
  <2>1. /\ l = Total(Collateral, Live(u)) /\ power[u] = Total(PowerOf, Live(u))
        /\ s = Total(Collateral, Own(u) \ Live(u))
    BY <1>1, <1>10 DEF CollateralInv, Backed
  <2>2. Live(u) \in SUBSET Edges /\ Own(u) \ Live(u) \in SUBSET Edges
    BY <1>1, <1>9
  <2>3. /\ Total(Collateral', Live(u)') = q + l
        /\ Total(PowerOf', Live(u)') = p + power[u]
    BY <1>4, <1>7, <2>1, <2>2
  <2>4. Total(Collateral', Own(u)' \ Live(u)') = s
    <3>1. Own(u)' \ Live(u)' = Own(u) \ Live(u)
      BY <1>1, <1>4, <1>9
    <3> QED
      BY <1>5, <2>1, <2>2, <3>1
  <2>5. power'[u] = p + power[u]
    <3>1. U64(p + power[u]) = p + power[u]
      BY <1>8, <2>1, <2>2
    <3>2. p + power[u] = power[u] + p
      BY <1>1 DEF TypeOK
    <3> QED
      BY <1>10, <3>1, <3>2
  <2>6. l + q = q + l
    BY <1>13
  <2> QED
    BY <1>10, <1>14, <2>3, <2>4, <2>5, <2>6
<1>17. \A j \in Edges' : by_invitee'[j].power_units # 0
  BY <1>2 DEF CollateralInv
<1> QED
  BY <1>1, <1>2, <1>11, <1>12, <1>15, <1>16, <1>17

LEMMA OnboardKeeps ==
    ASSUME PowersFit, TypeOK, TypeOK', Founded, CollateralInv,
           NEW c \in VoucherConsent, Onboard(c)
    PROVE  CollateralInv'
<1>1. /\ IsFiniteSet(consumed_consents')
      /\ Cardinality(consumed_consents) \in Nat
      /\ Cardinality(consumed_consents') = Cardinality(consumed_consents) + 1
  BY ConsentSpent DEF Onboard, Acceptable
<1>2. CASE c.invitee \in nodes \/ c.power_units = 0
  <2>1. /\ by_invitee' = by_invitee /\ by_voucher' = by_voucher
        /\ UNCHANGED stakingVars /\ released' = released
    BY <1>2 DEF Onboard, stakingVars
  <2>2. Cardinality(consumed_consents) <= Cardinality(consumed_consents')
    BY <1>1
  <2> QED
    BY <1>1, <2>1, <2>2, QuietKeeps
<1>3. CASE ~(c.invitee \in nodes \/ c.power_units = 0)
  <2>1. AddEdge(c) /\ UNCHANGED <<slashed, released>>
    BY <1>3 DEF Onboard
  <2>2. /\ Edges' = Edges \cup {c.invitee} /\ c.invitee \notin Edges
        /\ \A i \in Edges' : by_invitee'[i].power_units # 0
        /\ \A v \in Nodes : (ToSet(by_voucher[v]) = Own(v) /\ Accounted(v) /\ Backed(v))'
    BY <1>3, <2>1, EdgeAdded
  <2>3. Cardinality(Edges) \in Nat /\ Cardinality(Edges') = Cardinality(Edges) + 1
    BY <2>2, EdgePowers, FS_AddElement, FS_CardinalityType
  <2>4. Cardinality(Edges') <= Cardinality(consumed_consents')
    <3> DEFINE e == Cardinality(Edges)
               n == Cardinality(consumed_consents)
    <3>1. e \in Nat /\ n \in Nat /\ e <= n
      BY <1>1, <2>3 DEF CollateralInv
    <3>2. e + 1 <= n + 1
      <4> HIDE DEF e, n
      <4> QED
        BY <3>1
    <3> QED
      BY <1>1, <2>3, <3>2
  <2> QED
    BY <1>1, <2>2, <2>4 DEF CollateralInv
<1> QED
  BY <1>2, <1>3

\* A slashed edge leaves the live ones with its power and its collateral, which
\* the ledger holds unless some was released.
LEMMA EdgeSlashed ==
    ASSUME PowersFit, TypeOK, CollateralInv, NEW i \in Edges, ~by_invitee[i].slashed,
           NEW u \in Nodes, NEW p \in Powers,
           by_invitee[i].voucher = u, by_invitee[i].power_units = p,
           by_invitee' = [by_invitee EXCEPT ![i] = [@ EXCEPT !.slashed = TRUE]],
           by_voucher' = by_voucher, released' = released,
           Slash(u, p)
    PROVE  /\ Edges' = Edges
           /\ \A j \in Edges' : by_invitee'[j].power_units # 0
           /\ \A v \in Nodes : (ToSet(by_voucher[v]) = Own(v) /\ Accounted(v) /\ Backed(v))'
<1> DEFINE q == QuadraticCost(p)
<1>1. /\ i \in Nodes /\ Edges \subseteq Nodes /\ by_invitee[i] \in VoucherEdge
      /\ p \in Nat /\ p # 0
  BY PowersAreNat DEF TypeOK, VoucherEdge, CollateralInv
<1>2. q \in Nat /\ p > 0 /\ q > 0
  BY <1>1 DEF QuadraticCost
<1>3. /\ Edges' = Edges
      /\ by_invitee'[i].voucher = u /\ by_invitee'[i].power_units = p /\ by_invitee'[i].slashed
      /\ \A j \in Edges \ {i} : by_invitee'[j] = by_invitee[j]
  BY <1>1 DEF TypeOK, VoucherEdge
<1>4. PowerOf' = PowerOf /\ Collateral' = Collateral
  <2>1. \A j \in Nodes : PowerOf'[j] = PowerOf[j]
    BY <1>3 DEF PowerOf
  <2>2. PowerOf' = PowerOf
    BY <2>1 DEF PowerOf
  <2> QED
    BY <2>2 DEF Collateral
<1>5. \A v \in Nodes : Own(v)' = Own(v)
  BY <1>3 DEF Own
<1>6. /\ \A v \in Nodes \ {u} : Live(v)' = Live(v)
      /\ Live(u)' = Live(u) \ {i} /\ i \in Live(u)
      /\ Own(u)' \ Live(u)' = (Own(u) \ Live(u)) \cup {i}
  BY <1>1, <1>3, <1>5 DEF Own, Live
<1>7. \A v \in Nodes : ToSet(by_voucher[v]) = Own(v) /\ Accounted(v) /\ Backed(v)
  BY DEF CollateralInv
<1>8. /\ \A v \in Nodes \ {u} :
             locked'[v] = locked[v] /\ power'[v] = power[v] /\ slashed'[v] = slashed[v]
      /\ Withdrawable(u, p) =>
             /\ locked'[u] = locked[u] - q /\ slashed'[u] = slashed[u] + q
             /\ power'[u] = IF power[u] > p THEN power[u] - p ELSE 0
      /\ ~Withdrawable(u, p) => UNCHANGED stakingVars
  BY <1>1 DEF Slash, Withdraw, TypeOK, stakingVars
<1>9. ASSUME NEW v \in Nodes \ {u}
      PROVE  (ToSet(by_voucher[v]) = Own(v) /\ Accounted(v) /\ Backed(v))'
  BY <1>4, <1>5, <1>6, <1>7, <1>8 DEF Accounted, Backed
<1>10. locked[u] \in Nat /\ slashed[u] \in Nat /\ released[u] \in Nat /\ power[u] \in Nat
  BY <1>1, TrustAssumption DEF TypeOK
<1>11. Accounted(u)'
  <2>1. locked'[u] + slashed'[u] + released[u] = locked[u] + slashed[u] + released[u]
    <3> HIDE DEF q
    <3>1. CASE Withdrawable(u, p)
      BY <1>2, <1>8, <1>10, <3>1
    <3>2. CASE ~Withdrawable(u, p)
      BY <1>8, <3>2 DEF stakingVars
    <3> QED
      BY <3>1, <3>2
  <2> QED
    BY <1>1, <1>4, <1>5, <1>7, <2>1 DEF Accounted
<1>12. Backed(u)'
  <2> SUFFICES ASSUME released[u] = 0
               PROVE  /\ locked'[u] = Total(Collateral, Live(u) \ {i})
                      /\ power'[u] = Total(PowerOf, Live(u) \ {i})
                      /\ slashed'[u] = Total(Collateral, (Own(u) \ Live(u)) \cup {i})
    BY <1>4, <1>6 DEF Backed
  <2>1. /\ locked[u] = Total(Collateral, Live(u)) /\ power[u] = Total(PowerOf, Live(u))
        /\ slashed[u] = Total(Collateral, Own(u) \ Live(u))
    BY <1>1, <1>7 DEF Backed
  <2>2. Collateral[i] = q /\ PowerOf[i] = p
    BY <1>1 DEF Collateral, PowerOf
  <2> DEFINE live == Live(u)
             gone == Own(u) \ Live(u)
             c == Total(Collateral, live \ {i})
             w == Total(PowerOf, live \ {i})
  <2>3. /\ live \in SUBSET Nodes /\ live \ {i} \in SUBSET Nodes /\ gone \in SUBSET Nodes
        /\ i \in live /\ i \notin gone
    BY <1>1, <1>6 DEF Own, Live
  <2>4. /\ IsFiniteSet(live) /\ Counting(Collateral, live) /\ Counting(PowerOf, live)
        /\ IsFiniteSet(gone) /\ Counting(Collateral, gone)
        /\ c \in Nat /\ w \in Nat
    BY <2>3, EdgeTotals
  <2>5. /\ Total(Collateral, live) = q + c /\ Total(PowerOf, live) = p + w
    <3> HIDE DEF live, gone, q
    <3> QED
      BY <2>2, <2>3, <2>4, TotalTakesOut
  <2>6. Total(Collateral, gone \cup {i}) = q + slashed[u]
    <3>1. Total(Collateral, gone \cup {i}) = Collateral[i] + Total(Collateral, gone)
      <4> HIDE DEF live, gone, q
      <4> QED
        BY <1>2, <2>2, <2>3, <2>4, TotalTakesIn
    <3> QED
      BY <2>1, <2>2, <3>1
  <2>7. locked[u] = q + c /\ power[u] = p + w
    BY <2>1, <2>5
  <2>8. Withdrawable(u, p)
    <3> HIDE DEF c, w
    <3>1. locked[u] > 0 /\ locked[u] >= q
      <4> HIDE DEF q
      <4> QED
        BY <1>2, <2>4, <2>7
    <3> QED
      BY <1>2, <3>1 DEF Withdrawable
  <2>9. locked'[u] = c /\ power'[u] = w /\ slashed'[u] = q + slashed[u]
    <3> HIDE DEF c, w, q
    <3>1. power[u] > p \/ w = 0
      BY <1>1, <2>4, <2>7
    <3> QED
      BY <1>1, <1>2, <1>8, <1>10, <2>4, <2>7, <2>8, <3>1
  <2> QED
    BY <2>6, <2>9
<1>13. (ToSet(by_voucher[u]) = Own(u))'
  BY <1>1, <1>5, <1>7
<1>14. \A j \in Edges' : by_invitee'[j].power_units # 0
  BY <1>1, <1>3 DEF CollateralInv
<1> QED
  BY <1>3, <1>9, <1>11, <1>12, <1>13, <1>14

LEMMA MarkKeeps ==
    ASSUME PowersFit, TypeOK, CollateralInv, NEW i \in Nodes, MarkMaliciousAndSlash(i)
    PROVE  CollateralInv'
<1>1. CASE i \in Edges /\ ~by_invitee[i].slashed
  <2>1. /\ by_invitee' = [by_invitee EXCEPT ![i] = [@ EXCEPT !.slashed = TRUE]]
        /\ by_voucher' = by_voucher /\ released' = released
        /\ consumed_consents' = consumed_consents
        /\ Slash(by_invitee[i].voucher, by_invitee[i].power_units)
    BY <1>1 DEF MarkMaliciousAndSlash
  <2>a. PICK u \in Nodes, p \in Powers :
            by_invitee[i].voucher = u /\ by_invitee[i].power_units = p
    BY <1>1 DEF TypeOK, VoucherEdge
  <2>2. /\ Edges' = Edges
        /\ \A j \in Edges' : by_invitee'[j].power_units # 0
        /\ \A v \in Nodes : (ToSet(by_voucher[v]) = Own(v) /\ Accounted(v) /\ Backed(v))'
    BY <1>1, <2>1, <2>a, EdgeSlashed
  <2> QED
    BY <2>1, <2>2 DEF CollateralInv
<1>2. CASE ~(i \in Edges /\ ~by_invitee[i].slashed)
  <2>1. /\ by_invitee' = by_invitee /\ by_voucher' = by_voucher /\ released' = released
        /\ UNCHANGED stakingVars /\ consumed_consents' = consumed_consents
    BY <1>2 DEF MarkMaliciousAndSlash
  <2>2. Cardinality(consumed_consents) <= Cardinality(consumed_consents)
    BY FS_CardinalityType DEF CollateralInv
  <2> QED
    BY <2>1, <2>2, QuietKeeps DEF CollateralInv
<1> QED
  BY <1>1, <1>2

\* What is unlocked moves from one sum to another, and the voucher is no longer
\* one of whom nothing was released.
LEMMA UnlockKeeps ==
    ASSUME PowersFit, TypeOK, CollateralInv, NEW u \in Nodes, NEW p \in Powers, Unlock(u, p)
    PROVE  CollateralInv'
<1> DEFINE q == QuadraticCost(p)
<1>1. p \in Nat /\ p > 0 /\ locked[u] >= q
  BY PowersAreNat DEF Unlock, Withdrawable
<1>2. q \in Nat /\ q > 0
  BY <1>1 DEF QuadraticCost
<1>3. locked[u] \in Nat /\ slashed[u] \in Nat /\ released[u] \in Nat
  BY DEF TypeOK
<1>4. /\ by_invitee' = by_invitee /\ by_voucher' = by_voucher /\ slashed' = slashed
      /\ consumed_consents' = consumed_consents
      /\ locked'[u] = locked[u] - q /\ released'[u] = released[u] + q
      /\ \A v \in Nodes \ {u} : /\ locked'[v] = locked[v] /\ released'[v] = released[v]
                                /\ power'[v] = power[v]
  BY DEF Unlock, Withdraw, graphVars, TypeOK
<1>5. Edges' = Edges /\ PowerOf' = PowerOf
  BY <1>4 DEF PowerOf
<1>6. Collateral' = Collateral /\ \A v \in Nodes : Own(v)' = Own(v)
  BY <1>4, <1>5 DEF Collateral, Own
<1>7. \A v \in Nodes : Live(v)' = Live(v)
  BY <1>4, <1>6 DEF Live
<1>8. ASSUME NEW v \in Nodes \ {u} PROVE Accounted(v)' /\ Backed(v)'
  BY <1>4, <1>5, <1>6, <1>7 DEF CollateralInv, Accounted, Backed
<1>9. Accounted(u)' /\ Backed(u)'
  <2>1. locked'[u] + slashed[u] + released'[u] = locked[u] + slashed[u] + released[u]
    <3> HIDE DEF q
    <3> QED
      BY <1>1, <1>2, <1>3, <1>4
  <2>2. released'[u] # 0
    <3> HIDE DEF q
    <3> QED
      BY <1>2, <1>3, <1>4
  <2> QED
    BY <1>4, <1>6, <2>1, <2>2 DEF CollateralInv, Accounted, Backed
<1> QED
  BY <1>4, <1>5, <1>6, <1>8, <1>9 DEF CollateralInv

LEMMA NextCollateral ==
    PowersFit /\ TypeOK /\ TypeOK' /\ RootedInv /\ CollateralInv /\ [Next]_vars => CollateralInv'
<1> SUFFICES ASSUME PowersFit, TypeOK, TypeOK', RootedInv, CollateralInv, [Next]_vars
             PROVE  CollateralInv'
  OBVIOUS
<1>0. /\ Founded /\ IsFiniteSet(consumed_consents)
      /\ Cardinality(consumed_consents) <= Cardinality(consumed_consents)
  BY FS_CardinalityType DEF RootedInv, CollateralInv
<1>1. ASSUME NEW n \in Nodes, AddGenesis(n) PROVE CollateralInv'
  BY <1>0, <1>1, QuietKeeps DEF AddGenesis
<1>2. ASSUME NEW n \in Nodes, NEW k \in Keys, RegisterVoucherKey(n, k) PROVE CollateralInv'
  BY <1>0, <1>2, QuietKeeps DEF RegisterVoucherKey
<1>3. ASSUME NEW c \in VoucherConsent, Onboard(c) PROVE CollateralInv'
  BY <1>0, <1>3, OnboardKeeps
<1>4. ASSUME NEW i \in Nodes, MarkMaliciousAndSlash(i) PROVE CollateralInv'
  BY <1>4, MarkKeeps
<1>5. ASSUME NEW v \in Nodes, NEW p \in Powers, Unlock(v, p) PROVE CollateralInv'
  BY <1>5, UnlockKeeps
<1>6. CASE UNCHANGED vars
  BY <1>0, <1>6, QuietKeeps DEF vars, graphVars
<1> QED
  BY <1>1, <1>2, <1>3, <1>4, <1>5, <1>6 DEF Next

LEMMA InitCollateral == Init => CollateralInv
<1> SUFFICES ASSUME Init PROVE CollateralInv
  OBVIOUS
<1>1. Edges = {} /\ consumed_consents = {}
  BY DEF Init
<1>2. ASSUME NEW v \in Nodes
      PROVE  ToSet(by_voucher[v]) = Own(v) /\ Accounted(v) /\ Backed(v)
  <2>1. Own(v) = {} /\ Live(v) = {} /\ ToSet(by_voucher[v]) = {}
    BY <1>1 DEF Own, Live, Init, ToSet
  <2>2. Total(Collateral, {}) = 0 /\ Total(PowerOf, {}) = 0
    BY FS_EmptySet, TotalOfZeros
  <2>3. locked[v] = 0 /\ slashed[v] = 0 /\ released[v] = 0 /\ power[v] = 0
    BY DEF Init
  <2>4. Own(v) \ Live(v) = {}
    BY <2>1
  <2> QED
    BY <2>1, <2>2, <2>3, <2>4 DEF Accounted, Backed
<1>3. Cardinality(Edges) <= Cardinality(consumed_consents) /\ IsFiniteSet(consumed_consents)
  BY <1>1, FS_EmptySet
<1> QED
  BY <1>1, <1>2, <1>3 DEF CollateralInv

\* The sums the property is stated with are these totals.
LEMMA EdgeSums ==
    ASSUME PowersFit, TypeOK, NEW S \in SUBSET Edges
    PROVE  /\ CostOf(S) = Total(Collateral, S)
           /\ MapThenSumSet(LAMBDA i : by_invitee[i].power_units, S) = Total(PowerOf, S)
<1>1. IsFiniteSet(S)
  BY EdgePowers, FS_Subset
<1>2. \A i \in S : /\ PowerOf[i] = by_invitee[i].power_units
                   /\ Collateral[i] = QuadraticCost(by_invitee[i].power_units)
  BY DEF PowerOf, Collateral, TypeOK
<1>3. CostOf(S) = Total(Collateral, S)
  <2> DEFINE Rec(f) == [s \in SUBSET S |->
                  IF s = {} THEN 0
                  ELSE QuadraticCost(by_invitee[Picked(s)].power_units) + f[s \ {Picked(s)}]]
             iter == CHOOSE f : f = Rec(f)
  <2>1. CostOf(S) = iter[S]
    BY DEF CostOf, MapThenSumSet, MapThenFoldSet, Picked
  <2>2. \A s \in SUBSET S : s # {} =>
            Collateral[Picked(s)] = QuadraticCost(by_invitee[Picked(s)].power_units)
    BY <1>2, PickedIsIn
  <2>3. \A f : Summing(f, Collateral, S) <=> f = Rec(f)
    BY <2>2 DEF Summing
  <2>4. \E f : f = Rec(f)
    BY <1>1, <2>3, SummingExists
  <2>5. Summing(iter, Collateral, S)
    BY <2>3, <2>4
  <2> HIDE DEF iter
  <2> QED
    BY <1>1, <2>1, <2>5, SumIsTotal
<1>4. MapThenSumSet(LAMBDA i : by_invitee[i].power_units, S) = Total(PowerOf, S)
  <2> DEFINE Rec(f) == [s \in SUBSET S |->
                  IF s = {} THEN 0
                  ELSE by_invitee[Picked(s)].power_units + f[s \ {Picked(s)}]]
             iter == CHOOSE f : f = Rec(f)
  <2>1. MapThenSumSet(LAMBDA i : by_invitee[i].power_units, S) = iter[S]
    BY DEF MapThenSumSet, MapThenFoldSet, Picked
  <2>2. \A s \in SUBSET S : s # {} => PowerOf[Picked(s)] = by_invitee[Picked(s)].power_units
    BY <1>2, PickedIsIn
  <2>3. \A f : Summing(f, PowerOf, S) <=> f = Rec(f)
    BY <2>2 DEF Summing
  <2>4. \E f : f = Rec(f)
    BY <1>1, <2>3, SummingExists
  <2>5. Summing(iter, PowerOf, S)
    BY <2>3, <2>4
  <2> HIDE DEF iter
  <2> QED
    BY <1>1, <2>1, <2>5, SumIsTotal
<1> QED
  BY <1>3, <1>4

LEMMA CollateralFollows == PowersFit /\ TypeOK /\ CollateralInv => CollateralIsBacked
<1> SUFFICES ASSUME PowersFit, TypeOK, CollateralInv PROVE CollateralIsBacked
  OBVIOUS
<1>1. ASSUME NEW v \in Nodes
      PROVE  /\ ToSet(by_voucher[v]) = Own(v) /\ Accounted(v) /\ Backed(v)
             /\ Own(v) \in SUBSET Edges /\ Live(v) \in SUBSET Edges
             /\ Own(v) \ Live(v) \in SUBSET Edges
             /\ Live(v) = {i \in Own(v) : ~by_invitee[i].slashed}
  BY DEF CollateralInv, Own, Live
<1>2. CollateralAccounted
  BY <1>1, EdgeSums DEF CollateralAccounted, Accounted
<1>3. EdgesAreBacked
  <2> SUFFICES ASSUME NEW v \in Nodes, released[v] = 0
               PROVE  /\ locked[v] = CostOf(Live(v))
                      /\ power[v] = MapThenSumSet(LAMBDA i : by_invitee[i].power_units, Live(v))
                      /\ slashed[v] = CostOf(Own(v) \ Live(v))
    BY <1>1 DEF EdgesAreBacked
  <2>1. /\ CostOf(Live(v)) = Total(Collateral, Live(v))
        /\ CostOf(Own(v) \ Live(v)) = Total(Collateral, Own(v) \ Live(v))
    BY <1>1, EdgeSums
  <2>2. MapThenSumSet(LAMBDA i : by_invitee[i].power_units, Live(v)) = Total(PowerOf, Live(v))
    BY <1>1, EdgeSums
  <2> QED
    BY <1>1, <2>1, <2>2 DEF Backed
<1> QED
  BY <1>2, <1>3 DEF CollateralIsBacked, ConsentsAreSpent, CollateralInv

\* As long as the powers of all nodes fit their width, collateral is accounted
\* for, edge by edge, and every edge has a consent of its own (wot.rs, staking.rs).
THEOREM CollateralBacksTheEdges ==
    ASSUME PowersFit
    PROVE  Spec => []CollateralIsBacked
<1>1. Spec => [](TypeOK /\ RootedInv)
  <2>1. Init => RootedInv
    BY DEF Init, RootedInv, Founded, TrustIsRooted
  <2> QED
    BY <2>1, NextRooted, TrustIsWellFormed, PTL DEF Spec
<1>2. TypeOK /\ RootedInv /\ TypeOK' /\ CollateralInv /\ [Next]_vars => CollateralInv'
  BY NextCollateral
<1>3. TypeOK /\ CollateralInv => CollateralIsBacked
  BY CollateralFollows
<1> QED
  BY <1>1, <1>2, <1>3, InitCollateral, PTL DEF Spec

-----------------------------------------------------------------------------
(* The multi-signature *)

Proposal == [description : Descriptions, executed : BOOLEAN]

\* What the records of the multi-signature look like.
MultisigTypeOK ==
    /\ admin_keys \in [Admins -> AdminKeys]
    /\ proposals \in Seq(Proposal)
    /\ signatures \in Seq(SUBSET Admins)
    /\ executed_on \in Seq(Int)
    /\ Len(signatures) = Len(proposals)
    /\ Len(executed_on) = Len(proposals)

\* Who is recorded for a proposal has signed its words with the registered key.
SignersApproved ==
    \A id \in Ids, a \in Admins : a \in signatures[id] => Approval(a, id) \in approvals

ExecutedInTime ==
    \A id \in Ids : proposals[id].executed =>
        /\ executed_on[id] < GenesisDay + DecayDays
        /\ Cardinality(signatures[id]) >= Threshold

MultisigInv == MultisigTypeOK /\ SignersApproved /\ ExecutedInTime

LEMMA SeqUpdated ==
    ASSUME NEW S, NEW s \in Seq(S), NEW i \in 1 .. Len(s), NEW x \in S
    PROVE  s[i] \in S /\ [s EXCEPT ![i] = x] \in Seq(S) /\ Len([s EXCEPT ![i] = x]) = Len(s)
OBVIOUS

LEMMA ProposalExecuted ==
    ASSUME NEW p \in Proposal
    PROVE  /\ [p EXCEPT !.executed = TRUE] \in Proposal
           /\ [p EXCEPT !.executed = TRUE].description = p.description
BY DEF Proposal

LEMMA AuthorityEnds ==
    ASSUME NEW day \in 0 .. MaxDay, AuthorityWeight(day) # 0
    PROVE  day < GenesisDay + DecayDays
BY DecayAssumption DEF AuthorityWeight

LEMMA MultisigStarts == MultisigInit => MultisigInv
<1> SUFFICES ASSUME MultisigInit PROVE MultisigInv
  OBVIOUS
<1> USE DEF MultisigInit
<1>1. Ids = {}
  BY DEF Ids
<1>2. MultisigTypeOK
  BY DEF MultisigTypeOK
<1>3. SignersApproved /\ ExecutedInTime
  BY <1>1 DEF SignersApproved, ExecutedInTime
<1> QED
  BY <1>2, <1>3 DEF MultisigInv

LEMMA ProposeKeeps ==
    ASSUME MultisigInv, NEW d \in Descriptions, Propose(d)
    PROVE  MultisigInv'
<1> USE DEF MultisigInv
<1> DEFINE n == Len(proposals) + 1
           p == [description |-> d, executed |-> FALSE]
<1>1. /\ proposals' = Append(proposals, p)
      /\ signatures' = Append(signatures, {})
      /\ executed_on' = Append(executed_on, -1)
      /\ admin_keys' = admin_keys /\ approvals' = approvals
  BY DEF Propose
<1>2. p \in Proposal
  BY DEF Proposal
<1> HIDE DEF p
<1>3. MultisigTypeOK'
  BY <1>1, <1>2 DEF MultisigTypeOK
<1>4. Ids' = Ids \cup {n} /\ n \notin Ids
  BY <1>1, <1>2 DEF MultisigTypeOK, Ids
<1>5. \A id \in Ids : /\ proposals'[id] = proposals[id]
                      /\ signatures'[id] = signatures[id]
                      /\ executed_on'[id] = executed_on[id]
  BY <1>1, <1>2 DEF MultisigTypeOK, Ids
<1>6. signatures'[n] = {} /\ proposals'[n] = p
  BY <1>1, <1>2 DEF MultisigTypeOK
<1>7. SignersApproved'
  BY <1>1, <1>4, <1>5, <1>6 DEF SignersApproved, Approval
<1>8. ExecutedInTime'
  <2>1. ~p.executed
    BY DEF p
  <2> QED
    BY <1>4, <1>5, <1>6, <2>1 DEF ExecutedInTime
<1> QED
  BY <1>3, <1>7, <1>8

LEMMA SignKeeps ==
    ASSUME MultisigInv, NEW sig \in Signature, Sign(sig)
    PROVE  MultisigInv'
<1> USE DEF MultisigInv
<1> DEFINE i == sig.proposal_id
           s == sig.signer
<1>1. /\ s \in Admins /\ i \in Ids /\ ~proposals[i].executed
      /\ sig.key = admin_keys[s] /\ sig.description = proposals[i].description
      /\ signatures' = [signatures EXCEPT ![i] = @ \cup {s}]
      /\ approvals' = approvals \cup {sig}
      /\ admin_keys' = admin_keys /\ proposals' = proposals /\ executed_on' = executed_on
      /\ sig = Approval(s, i)
  <2>1. sig = [signer |-> sig.signer, proposal_id |-> sig.proposal_id,
               description |-> sig.description, key |-> sig.key]
    BY DEF Signature
  <2> QED
    BY <2>1 DEF Sign, VerifyAgainst, Approval
<1> HIDE DEF i, s
<1>2. MultisigTypeOK'
  BY <1>1 DEF MultisigTypeOK, Ids
<1>3. Ids' = Ids
  BY <1>1 DEF Ids
<1>4. /\ signatures'[i] = signatures[i] \cup {s}
      /\ \A id \in Ids : id # i => signatures'[id] = signatures[id]
  BY <1>1 DEF MultisigTypeOK, Ids
<1>5. SignersApproved'
  <2> SUFFICES ASSUME NEW id \in Ids, NEW a \in Admins, a \in signatures'[id]
               PROVE  Approval(a, id) \in approvals'
    BY <1>1, <1>3 DEF SignersApproved, Approval
  <2>1. CASE id = i /\ a = s
    BY <2>1, <1>1
  <2>2. CASE ~(id = i /\ a = s)
    <3>1. a \in signatures[id]
      BY <2>2, <1>4
    <3> QED
      BY <3>1, <1>1 DEF SignersApproved
  <2> QED
    BY <2>1, <2>2
<1>6. ExecutedInTime'
  BY <1>1, <1>3, <1>4 DEF ExecutedInTime
<1> QED
  BY <1>2, <1>5, <1>6

LEMMA ExecuteKeeps ==
    ASSUME MultisigInv, NEW id \in 1 .. MaxProposals, NEW day \in 0 .. MaxDay, Execute(id, day)
    PROVE  MultisigInv'
<1> USE DEF MultisigInv
<1>1. /\ id \in Ids /\ Cardinality(signatures[id]) >= Threshold
      /\ proposals' = [proposals EXCEPT ![id].executed = TRUE]
      /\ executed_on' = [executed_on EXCEPT ![id] = day]
      /\ admin_keys' = admin_keys /\ signatures' = signatures /\ approvals' = approvals
      /\ day < GenesisDay + DecayDays
  BY AuthorityEnds DEF Execute, ThresholdMet
<1>2. day \in Int
  BY DecayAssumption
<1>3. ASSUME NEW k \in Ids PROVE proposals[k] \in Proposal
  BY SeqUpdated DEF MultisigTypeOK, Ids
<1>4. /\ Ids' = Ids
      /\ \A k \in Ids : proposals'[k].description = proposals[k].description
      /\ \A k \in Ids \ {id} : /\ proposals'[k] = proposals[k]
                               /\ executed_on'[k] = executed_on[k]
      /\ executed_on'[id] = day
  BY <1>1, <1>3, ProposalExecuted DEF MultisigTypeOK, Ids
<1>5. MultisigTypeOK'
  <2>1. [proposals[id] EXCEPT !.executed = TRUE] \in Proposal
    BY <1>1, <1>3, ProposalExecuted
  <2>2. proposals' \in Seq(Proposal) /\ Len(proposals') = Len(proposals)
    BY <1>1, <2>1, SeqUpdated DEF MultisigTypeOK, Ids
  <2>3. executed_on' \in Seq(Int) /\ Len(executed_on') = Len(executed_on)
    BY <1>1, <1>2, SeqUpdated DEF MultisigTypeOK, Ids
  <2> QED
    BY <1>1, <2>2, <2>3 DEF MultisigTypeOK
<1>6. SignersApproved'
  BY <1>1, <1>4 DEF SignersApproved, Approval
<1>7. ExecutedInTime'
  BY <1>1, <1>4 DEF ExecutedInTime
<1> QED
  BY <1>5, <1>6, <1>7

LEMMA MultisigInvariant == MultisigSpec => []MultisigInv
<1>1. ASSUME MultisigInv, [MultisigNext]_multisigVars PROVE MultisigInv'
  <2>1. ASSUME NEW d \in Descriptions, Propose(d) PROVE MultisigInv'
    BY <2>1, <1>1, ProposeKeeps
  <2>2. ASSUME NEW sig \in Signature, Sign(sig) PROVE MultisigInv'
    BY <2>2, <1>1, SignKeeps
  <2>3. ASSUME NEW id \in 1 .. MaxProposals, NEW day \in 0 .. MaxDay, Execute(id, day)
        PROVE  MultisigInv'
    BY <2>3, <1>1, ExecuteKeeps
  <2>4. CASE UNCHANGED multisigVars
    BY <2>4, <1>1 DEF multisigVars, MultisigInv, MultisigTypeOK, SignersApproved,
                      Approval, ExecutedInTime, Ids
  <2> QED
    BY <1>1, <2>1, <2>2, <2>3, <2>4 DEF MultisigNext
<1> QED
  BY <1>1, MultisigStarts, PTL DEF MultisigSpec

\* Administrators who are left out take at most one key each with them.
LEMMA FewKeysAreMissing ==
    ASSUME NEW A, A \subseteq Admins
    PROVE  /\ IsFiniteSet(A)
           /\ Cardinality(KeysOf(Admins)) - Cardinality(KeysOf(A))
                <= Cardinality(Admins) - Cardinality(A)
           /\ Cardinality(KeysOf(A)) \in Nat /\ Cardinality(A) \in Nat
<1> DEFINE B == Admins \ A
<1>1. /\ IsFiniteSet(Admins) /\ IsFiniteSet(A) /\ IsFiniteSet(B)
      /\ Cardinality(A) \in Nat /\ Cardinality(Admins) \in Nat
      /\ Cardinality(B) = Cardinality(Admins) - Cardinality(A)
  <2>1. IsFiniteSet(Admins)
    BY SignersAssumption
  <2>2. Admins \cap A = A
    OBVIOUS
  <2>3. IsFiniteSet(A) /\ Cardinality(A) \in Nat /\ Cardinality(Admins) \in Nat
    BY <2>1, FS_Subset, FS_CardinalityType
  <2>4. IsFiniteSet(B) /\ Cardinality(B) = Cardinality(Admins) - Cardinality(Admins \cap A)
    BY <2>1, FS_Difference
  <2> QED
    BY <2>1, <2>2, <2>3, <2>4
<1>2. ASSUME NEW C, C \subseteq Admins, IsFiniteSet(C)
      PROVE  /\ IsFiniteSet(KeysOf(C)) /\ Cardinality(KeysOf(C)) \in Nat
             /\ Cardinality(KeysOf(C)) <= Cardinality(C)
  <2> DEFINE f == [a \in C |-> admin_keys[a]]
             K == KeysOf(C)
  <2>1. f \in [C -> K] /\ \A k \in K : \E a \in C : f[a] = k
    BY DEF KeysOf
  <2> HIDE DEF f, K
  <2>2. f \in Surjection(C, K)
    BY <2>1 DEF Surjection
  <2>3. IsFiniteSet(K) /\ Cardinality(K) <= Cardinality(C)
    BY <1>2, <2>2, FS_Surjection
  <2> QED
    BY <2>3, FS_CardinalityType DEF K
<1>3. KeysOf(Admins) = KeysOf(A) \cup KeysOf(B)
  BY DEF KeysOf
<1>4. /\ IsFiniteSet(KeysOf(A)) /\ Cardinality(KeysOf(A)) \in Nat
      /\ IsFiniteSet(KeysOf(B)) /\ Cardinality(KeysOf(B)) \in Nat
      /\ Cardinality(KeysOf(B)) <= Cardinality(B)
  <2>1. B \subseteq Admins
    OBVIOUS
  <2> QED
    BY <1>1, <1>2, <2>1
<1> HIDE DEF B
<1> DEFINE both == KeysOf(A) \cap KeysOf(B)
<1>5. Cardinality(both) \in Nat
  BY <1>4, FS_Intersection, FS_CardinalityType
<1>6. Cardinality(KeysOf(Admins))
        = Cardinality(KeysOf(A)) + Cardinality(KeysOf(B)) - Cardinality(both)
  BY <1>3, <1>4, FS_Union
<1> HIDE DEF both
<1> QED
  BY <1>1, <1>4, <1>5, <1>6

\* ExecutedByQuorum of the administrators' multi-signature: what was executed
\* was approved word for word in the names of a quorum while their authority
\* lasted, and by a quorum of keys less those that several names share.
THEOREM QuorumsExecute == MultisigSpec => []ExecutedByQuorum
<1>1. ASSUME MultisigInv, NEW id \in Ids, proposals[id].executed
      PROVE  /\ executed_on[id] < GenesisDay + DecayDays
             /\ Cardinality(Approvers(id)) >= Threshold
             /\ Cardinality(KeysOf(Approvers(id)))
                  >= Threshold - (Cardinality(Admins) - Cardinality(KeysOf(Admins)))
  <2> DEFINE S == signatures[id]
             A == Approvers(id)
  <2>1. Cardinality(S) >= Threshold /\ executed_on[id] < GenesisDay + DecayDays
    BY <1>1 DEF MultisigInv, ExecutedInTime
  <2>2. S \subseteq A /\ A \subseteq Admins
    <3>1. S \in SUBSET Admins
      BY <1>1 DEF MultisigInv, MultisigTypeOK, Ids
    <3> QED
      BY <1>1, <3>1 DEF MultisigInv, SignersApproved, Approvers
  <2> HIDE DEF S, A
  <2>3. /\ IsFiniteSet(A) /\ Cardinality(A) \in Nat /\ Cardinality(KeysOf(A)) \in Nat
        /\ Cardinality(KeysOf(Admins)) - Cardinality(KeysOf(A))
             <= Cardinality(Admins) - Cardinality(A)
    BY <2>2, FewKeysAreMissing
  <2>4. Cardinality(S) <= Cardinality(A) /\ Cardinality(S) \in Nat
    BY <2>2, <2>3, FS_Subset, FS_CardinalityType
  <2>5. /\ Cardinality(KeysOf(Admins)) \in Nat /\ Cardinality(Admins) \in Nat
        /\ Threshold \in Nat
    BY FewKeysAreMissing, SignersAssumption
  <2>6. /\ Cardinality(A) >= Threshold
        /\ Cardinality(KeysOf(A))
             >= Threshold - (Cardinality(Admins) - Cardinality(KeysOf(Admins)))
    BY <2>1, <2>3, <2>4, <2>5
  <2> QED
    BY <2>1, <2>6 DEF A
<1>2. MultisigInv => ExecutedByQuorum
  BY <1>1 DEF ExecutedByQuorum
<1> QED
  BY <1>2, MultisigInvariant, PTL
-----------------------------------------------------------------------------
(***************************************************************************)
(* The votes.  A key that was revealed was committed to with a strong      *)
(* secret, and its proposal is closed unless it was opened once more.      *)
(***************************************************************************)

\* What a revealed key says, checked against what was committed.
Counted(k) == \E s \in StrongSecrets : commits[k] = <<k[1], k[2], reveals[k], s>>

VotingInv ==
    /\ DOMAIN commits \subseteq Ballots \X Voters
    /\ \A k \in DOMAIN commits : k[1] \in DOMAIN open
    /\ \A p \in DOMAIN open : open[p] \in BOOLEAN
    /\ DOMAIN reveals \subseteq DOMAIN commits
    /\ IsFiniteSet(DOMAIN reveals)
    /\ \A k \in DOMAIN reveals : Counted(k)
    /\ \A k \in DOMAIN reveals : k[1] \in reopened \/ ~open[k[1]]

\* The steps of an election, as what they do to its books.
Eligibility == UNCHANGED <<open, commits, reveals, reopened>>

Opening(p) ==
    /\ open' = With(open, p, TRUE)
    /\ reopened' = IF p \in DOMAIN open /\ ~open[p] THEN reopened \cup {p} ELSE reopened
    /\ UNCHANGED <<commits, reveals>>

Closing(p) == open' = With(open, p, FALSE) /\ UNCHANGED <<commits, reveals, reopened>>

Committing(k, c) ==
    /\ IsOpen(k[1]) /\ k \notin DOMAIN commits
    /\ commits' = With(commits, k, c)
    /\ UNCHANGED <<open, reveals, reopened>>

Revealing(k, c) ==
    /\ ~IsOpen(k[1]) /\ k \in DOMAIN commits /\ k \notin DOMAIN reveals
    /\ \E s \in StrongSecrets : commits[k] = <<k[1], k[2], c, s>>
    /\ reveals' = With(reveals, k, c)
    /\ UNCHANGED <<open, commits, reopened>>

LEMMA VotingSteps ==
    ASSUME [VotingNext]_voteVars
    PROVE  \/ Eligibility
           \/ \E p \in Ballots : Opening(p) \/ Closing(p)
           \/ \E k \in Ballots \X Voters : \E c : Committing(k, c) \/ Revealing(k, c)
<1>1. CASE UNCHANGED voteVars
  BY <1>1 DEF voteVars, Eligibility
<1>2. CASE \E v \in Voters, may \in BOOLEAN : SetEligible(v, may)
  BY <1>2 DEF SetEligible, Eligibility
<1>3. CASE \E p \in Ballots : OpenProposal(p) \/ CloseProposal(p)
  BY <1>3 DEF OpenProposal, CloseProposal, Opening, Closing
<1>4. ASSUME NEW p \in Ballots, NEW v \in Voters, NEW w \in Voters, NEW u \in Voters,
             NEW c \in BallotChoice, NEW s \in Secrets,
             Commit(BlindedBallot(p, v, MakeCommitment(p, w, c, s), u))
      PROVE  Committing(<<p, v>>, MakeCommitment(p, w, c, s)) /\ <<p, v>> \in Ballots \X Voters
  <2> DEFINE m == MakeCommitment(p, w, c, s)
  <2> HIDE DEF m
  <2> QED
    BY <1>4 DEF Commit, BlindedBallot, Committing, m
<1>5. ASSUME NEW p \in Ballots, NEW v \in Voters, NEW c \in BallotChoice, NEW s \in Secrets,
             Reveal(p, v, c, s)
      PROVE  Revealing(<<p, v>>, c) /\ <<p, v>> \in Ballots \X Voters
  BY <1>5 DEF Reveal, Revealing, MakeCommitment
<1> QED
  BY <1>1, <1>2, <1>3, <1>4, <1>5 DEF VotingNext

LEMMA VotingStarts == VotingInit => VotingInv
BY FS_EmptySet DEF VotingInit, VotingInv

LEMMA VotingKeeps == VotingInv /\ [VotingNext]_voteVars => VotingInv'
<1> SUFFICES ASSUME VotingInv, [VotingNext]_voteVars PROVE VotingInv'
  OBVIOUS
<1>1. CASE Eligibility
  BY <1>1 DEF Eligibility, VotingInv, Counted
<1>2. ASSUME NEW p \in Ballots, NEW b \in BOOLEAN,
             open' = With(open, p, b), UNCHANGED <<commits, reveals>>
      PROVE  /\ \A k \in DOMAIN commits : k[1] \in DOMAIN open'
             /\ \A q \in DOMAIN open' : open'[q] \in BOOLEAN
             /\ \A k \in DOMAIN reveals : Counted(k)'
  BY <1>2 DEF With, VotingInv, Counted
<1>3. ASSUME NEW p \in Ballots, Opening(p) PROVE VotingInv'
  <2>1. \A k \in DOMAIN reveals : k[1] \in reopened' \/ ~open'[k[1]]
    <3> SUFFICES ASSUME NEW k \in DOMAIN reveals, k[1] \notin reopened' PROVE ~open'[k[1]]
      OBVIOUS
    <3>1. k[1] \in DOMAIN open /\ ~open[k[1]] /\ k[1] # p
      BY <1>3 DEF VotingInv, Opening
    <3> QED
      BY <1>3, <3>1 DEF With, Opening
  <2> QED
    BY <1>2, <1>3, <2>1 DEF VotingInv, Opening
<1>4. ASSUME NEW p \in Ballots, Closing(p) PROVE VotingInv'
  <2>1. \A k \in DOMAIN reveals : k[1] \in reopened' \/ ~open'[k[1]]
    BY <1>4 DEF With, VotingInv, Closing
  <2> QED
    BY <1>2, <1>4, <2>1 DEF VotingInv, Closing
<1>5. ASSUME NEW k \in Ballots \X Voters, NEW c, Committing(k, c) PROVE VotingInv'
  <2>1. /\ DOMAIN commits' = DOMAIN commits \cup {k}
        /\ \A j \in DOMAIN commits : commits'[j] = commits[j]
    BY <1>5 DEF With, Committing
  <2>2. \A j \in DOMAIN reveals : Counted(j)'
    BY <1>5, <2>1 DEF Committing, VotingInv, Counted
  <2> QED
    BY <1>5, <2>1, <2>2 DEF Committing, VotingInv, IsOpen
<1>6. ASSUME NEW k \in Ballots \X Voters, NEW c, Revealing(k, c) PROVE VotingInv'
  <2>1. /\ DOMAIN reveals' = DOMAIN reveals \cup {k}
        /\ reveals'[k] = c
        /\ \A j \in DOMAIN reveals : reveals'[j] = reveals[j]
    BY <1>6 DEF With, Revealing
  <2>2. IsFiniteSet(DOMAIN reveals')
    BY <2>1, FS_AddElement DEF VotingInv
  <2>3. \A j \in DOMAIN reveals' : Counted(j)'
    BY <1>6, <2>1 DEF Revealing, VotingInv, Counted
  <2>4. ~open[k[1]]
    BY <1>6 DEF Revealing, VotingInv, IsOpen
  <2> QED
    BY <1>6, <2>1, <2>2, <2>3, <2>4 DEF Revealing, VotingInv
<1> QED
  BY <1>1, <1>3, <1>4, <1>5, <1>6, VotingSteps

LEMMA VotingInvariant == VotingSpec => []VotingInv
BY VotingStarts, VotingKeeps, PTL DEF VotingSpec

\* A majority of yes is somebody's yes.
MajorityHasAVote ==
    \A p \in Ballots : MajorityYes(p) =>
        \E v \in Voters : <<p, v>> \in DOMAIN commits /\ commits[<<p, v>>][3] = "Yes"

LEMMA MajoritiesAreVotes == VotingInv => MajorityHasAVote
<1> SUFFICES ASSUME VotingInv, NEW p \in Ballots, MajorityYes(p)
             PROVE  \E v \in Voters : <<p, v>> \in DOMAIN commits /\ commits[<<p, v>>][3] = "Yes"
  BY DEF MajorityHasAVote
<1> DEFINE yes == {k \in DOMAIN reveals : k[1] = p /\ reveals[k] = "Yes"}
           no  == {k \in DOMAIN reveals : k[1] = p /\ reveals[k] = "No"}
<1>1. Cardinality(yes) > Cardinality(no)
  BY DEF MajorityYes, Tally
<1>2. Cardinality(no) \in Nat
  <2>1. IsFiniteSet(DOMAIN reveals) /\ no \subseteq DOMAIN reveals
    BY DEF VotingInv
  <2> HIDE DEF no
  <2> QED
    BY <2>1, FS_Subset, FS_CardinalityType
<1>3. yes # {}
  <2> HIDE DEF yes, no
  <2> QED
    BY <1>1, <1>2, FS_EmptySet
<1>4. PICK k \in DOMAIN reveals : k[1] = p /\ reveals[k] = "Yes"
  BY <1>3
<1>5. k \in DOMAIN commits /\ k \in Ballots \X Voters /\ Counted(k)
  BY DEF VotingInv
<1>6. k = <<p, k[2]>> /\ k[2] \in Voters
  BY <1>4, <1>5
<1>7. commits[k][3] = "Yes"
  BY <1>4, <1>5 DEF Counted
<1> QED
  BY <1>5, <1>6, <1>7

\* A vote is secret until no new vote may come, unless a caller opens the
\* proposal once more, and it counts once, as it was committed: for any number
\* of voters and proposals, ballots copied, repeated and put together by hand.
THEOREM VotesCountAsCast == VotingSpec => VotesAreFair
<1> DEFINE A == \A p \in Ballots \ reopened' :
                   (\E v \in Voters : <<p, v>> \in DOMAIN reveals) =>
                       \A v \in Voters : <<p, v>> \in DOMAIN commits' => <<p, v>> \in DOMAIN commits
           B1 == \A k \in DOMAIN commits : k \in DOMAIN commits' /\ commits'[k] = commits[k]
           B2 == \A k \in DOMAIN reveals : k \in DOMAIN reveals' /\ reveals'[k] = reveals[k]
           B3 == \A k \in DOMAIN reveals' :
                     /\ k \in DOMAIN commits'
                     /\ \E s \in StrongSecrets : commits'[k] = <<k[1], k[2], reveals'[k], s>>
           B4 == \A p \in Ballots : MajorityYes(p)' =>
                     \E v \in Voters : <<p, v>> \in DOMAIN commits' /\ commits'[<<p, v>>][3] = "Yes"
<1>1. VotingInv /\ [VotingNext]_voteVars => A
  <2> SUFFICES ASSUME VotingInv, [VotingNext]_voteVars,
                      NEW p \in Ballots \ reopened',
                      NEW v \in Voters, <<p, v>> \in DOMAIN reveals,
                      NEW w \in Voters, <<p, w>> \in DOMAIN commits', <<p, w>> \notin DOMAIN commits
               PROVE  FALSE
    OBVIOUS
  <2>1. PICK k \in Ballots \X Voters : \E c : Committing(k, c)
    <3>1. commits' # commits
      OBVIOUS
    <3> QED
      BY <3>1, VotingSteps DEF Eligibility, Opening, Closing, Revealing
  <2>2. /\ DOMAIN commits' = DOMAIN commits \cup {k} /\ reopened' = reopened
        /\ k[1] \in DOMAIN open /\ open[k[1]]
    BY <2>1 DEF With, Committing, IsOpen
  <2>3. k[1] = p
    BY <2>2
  <2>4. ~open[p]
    <3>1. \A j \in DOMAIN reveals : j[1] \in reopened \/ ~open[j[1]]
      BY DEF VotingInv
    <3>2. <<p, v>>[1] = p
      OBVIOUS
    <3> QED
      BY <2>2, <3>1, <3>2
  <2> QED
    BY <2>2, <2>3, <2>4
<1>2. VotingInv /\ [VotingNext]_voteVars => B1 /\ B2
  <2> SUFFICES ASSUME VotingInv, [VotingNext]_voteVars PROVE B1 /\ B2
    OBVIOUS
  <2>1. CASE UNCHANGED <<commits, reveals>>
    BY <2>1
  <2>2. ASSUME NEW k \in Ballots \X Voters, NEW c, Committing(k, c) PROVE B1 /\ B2
    BY <2>2 DEF With, Committing
  <2>3. ASSUME NEW k \in Ballots \X Voters, NEW c, Revealing(k, c) PROVE B1 /\ B2
    BY <2>3 DEF With, Revealing
  <2> QED
    BY <2>1, <2>2, <2>3, VotingSteps DEF Eligibility, Opening, Closing
<1>3. VotingInv' => B3
  BY DEF VotingInv, Counted
<1>4. VotingInv' => B4
  <2>1. VotingInv' => MajorityHasAVote'
    BY MajoritiesAreVotes, PTL
  <2> QED
    BY <2>1 DEF MajorityHasAVote
<1>5. VotingInv /\ VotingInv' /\ [VotingNext]_voteVars
          => [A]_voteVars /\ [B1 /\ B2 /\ B3 /\ B4]_voteVars
  <2> HIDE DEF A, B1, B2, B3, B4
  <2> QED
    BY <1>1, <1>2, <1>3, <1>4
<1> QED
  BY <1>5, VotingInvariant, PTL DEF VotingSpec, VotesAreFair, NoVoteAfterAReveal, VotesAreKept
=============================================================================
