----------------------------- MODULE WebOfTrust -----------------------------
(***************************************************************************)
(* Onboarding by vouchers (governance/src/wot.rs) over the quadratic       *)
(* staking ledger it owns (governance/src/staking.rs): a member who signs  *)
(* a consent for a newcomer locks the square of the power it vouches with, *)
(* and loses it when the newcomer turns out to be malicious.               *)
(*                                                                         *)
(* A signature is the key that made it: a consent verifies exactly under   *)
(* that key, and consents of any content signed with any key may arrive,   *)
(* in any order and any number of times.  Sums wrap at their width, as     *)
(* they do in a release build.  A failed call may have changed the graph:  *)
(* such calls are steps here, the others are not.                          *)
(***************************************************************************)
EXTENDS Integers, FiniteSetsExt, SequencesExt

CONSTANTS
    Nodes,      \* node ids
    Keys,       \* signing keys
    Nonces,     \* consent nonces
    Powers,     \* power units that a consent may name
    MaxU64      \* the largest power sum (2^64 - 1 in the code)

ASSUME TrustAssumption ==
    /\ MaxU64 \in Nat
    /\ Powers \subseteq 0 .. MaxU64

VARIABLES
    nodes,               \* onboarded nodes
    malicious,           \* nodes marked malicious
    by_invitee,          \* the edge of each node that was vouched for
    by_voucher,          \* the invitees of each node, in order
    voucher_keys,        \* the verifying key of each node that registered one
    consumed_consents,   \* nonces spent
    locked,              \* staking: collateral locked, 0 without an entry
    power,               \* staking: power units locked
    slashed,             \* staking: collateral slashed so far
    genesis,             \* history: nodes seeded without a voucher
    released             \* history: collateral unlocked so far

stakingVars == <<locked, power, slashed>>
graphVars == <<nodes, malicious, by_invitee, by_voucher, voucher_keys, consumed_consents>>
vars == <<graphVars, stakingVars, genesis, released>>

VoucherConsent == [voucher : Nodes, invitee : Nodes, power_units : Powers,
                   nonce : Nonces, signed_with : Keys]

VoucherEdge == [voucher : Nodes, invitee : Nodes, power_units : Powers, slashed : BOOLEAN]

\* The widths of a sum of power and of a sum of collateral.
U64(x) == x % (MaxU64 + 1)
U128(x) == x % ((MaxU64 + 1) * (MaxU64 + 1))

QuadraticCost(p) == p * p

Init ==
    /\ nodes = {} /\ malicious = {}
    /\ by_invitee = [i \in {} |-> {}]
    /\ by_voucher = [v \in Nodes |-> <<>>]
    /\ voucher_keys = [v \in {} |-> {}]
    /\ consumed_consents = {}
    /\ locked = [v \in Nodes |-> 0]
    /\ power = [v \in Nodes |-> 0]
    /\ slashed = [v \in Nodes |-> 0]
    /\ genesis = {}
    /\ released = [v \in Nodes |-> 0]

-----------------------------------------------------------------------------
\* QuadraticStaking

\* lock: nothing bounds what a node may lock.
Lock(v, p) ==
    /\ locked' = [locked EXCEPT ![v] = U128(@ + QuadraticCost(p))]
    /\ power' = [power EXCEPT ![v] = U64(@ + p)]

\* Both ways out of the ledger, slash and unlock, share the refusal and the
\* removal.
Withdrawable(v, p) == p > 0 /\ locked[v] > 0 /\ locked[v] >= QuadraticCost(p)

Withdraw(v, p) ==
    /\ locked' = [locked EXCEPT ![v] = @ - QuadraticCost(p)]
    /\ power' = [power EXCEPT ![v] = IF @ > p THEN @ - p ELSE 0]

Slash_Linear_Bug(v, p) ==  \* the power is recorded instead of its square
    IF Withdrawable(v, p)
    THEN /\ Withdraw(v, p)
         /\ slashed' = [slashed EXCEPT ![v] = @ + p]
    ELSE UNCHANGED stakingVars

\* slash
Slash(v, p) ==
    IF Withdrawable(v, p)
    THEN /\ Withdraw(v, p)
         /\ slashed' = [slashed EXCEPT ![v] = @ + QuadraticCost(p)]
    ELSE UNCHANGED stakingVars

\* unlock, "e.g. invitee graduated cleanly": the ledger is a public field, and
\* whoever holds the graph may unlock collateral without telling the graph. The
\* graph never does; lock and slash are called by nobody but the graph (onboard
\* and mark_malicious_and_slash), though the public field would let one.
Unlock(v, p) ==
    /\ Withdrawable(v, p)
    /\ Withdraw(v, p)
    /\ released' = [released EXCEPT ![v] = @ + QuadraticCost(p)]
    /\ UNCHANGED <<graphVars, slashed, genesis>>

-----------------------------------------------------------------------------
\* WotGraph

AddGenesis(n) ==
    /\ nodes' = nodes \cup {n}
    /\ genesis' = genesis \cup {n}
    /\ UNCHANGED <<malicious, by_invitee, by_voucher, voucher_keys, consumed_consents,
                   stakingVars, released>>

RegisterVoucherKey(n, k) ==
    /\ voucher_keys' = [v \in DOMAIN voucher_keys \cup {n} |->
                           IF v = n THEN k ELSE voucher_keys[v]]
    /\ UNCHANGED <<nodes, malicious, by_invitee, by_voucher, consumed_consents,
                   stakingVars, genesis, released>>

Verifies(c) ==
    /\ c.voucher \in DOMAIN voucher_keys
    /\ voucher_keys[c.voucher] = c.signed_with

\* The checks of onboard up to the one that spends the nonce.
Acceptable(c) ==
    /\ c.voucher # c.invitee
    /\ c.voucher \in nodes \ malicious
    /\ Verifies(c)
    /\ c.nonce \notin consumed_consents

AddEdge(c) ==
    /\ Lock(c.voucher, c.power_units)
    /\ by_invitee' = [i \in DOMAIN by_invitee \cup {c.invitee} |->
                         IF i = c.invitee
                         THEN [voucher |-> c.voucher, invitee |-> i,
                               power_units |-> c.power_units, slashed |-> FALSE]
                         ELSE by_invitee[i]]
    /\ by_voucher' = [by_voucher EXCEPT ![c.voucher] = Append(@, c.invitee)]
    /\ nodes' = nodes \cup {c.invitee}

Onboard_Bug(c) ==  \* the invitee may be a member already
    /\ Acceptable(c)
    /\ consumed_consents' = consumed_consents \cup {c.nonce}
    /\ IF c.power_units = 0
       THEN UNCHANGED <<nodes, by_invitee, by_voucher, locked, power>>
       ELSE AddEdge(c)
    /\ UNCHANGED <<malicious, voucher_keys, slashed, genesis, released>>

\* onboard: the nonce is spent even if the invitee is a member already or the
\* power is zero.
Onboard(c) ==
    /\ Acceptable(c)
    /\ consumed_consents' = consumed_consents \cup {c.nonce}
    /\ IF c.invitee \in nodes \/ c.power_units = 0
       THEN UNCHANGED <<nodes, by_invitee, by_voucher, locked, power>>
       ELSE AddEdge(c)
    /\ UNCHANGED <<malicious, voucher_keys, slashed, genesis, released>>

MarkMaliciousAndSlash_Bug(i) ==  \* an edge may be slashed again
    /\ i \in nodes
    /\ malicious' = malicious \cup {i}
    /\ IF i \in DOMAIN by_invitee
       THEN /\ by_invitee' = [by_invitee EXCEPT ![i] = [@ EXCEPT !.slashed = TRUE]]
            /\ Slash(by_invitee[i].voucher, by_invitee[i].power_units)
       ELSE UNCHANGED <<by_invitee, stakingVars>>
    /\ UNCHANGED <<nodes, by_voucher, voucher_keys, consumed_consents, genesis, released>>

\* mark_malicious_and_slash: the node is marked before its edge is looked up,
\* and the edge before the ledger is asked; a node without an edge, or whose
\* edge was slashed, and a ledger that refuses, leave the marks behind.
MarkMaliciousAndSlash(i) ==
    /\ i \in nodes
    /\ malicious' = malicious \cup {i}
    /\ IF i \in DOMAIN by_invitee /\ ~by_invitee[i].slashed
       THEN /\ by_invitee' = [by_invitee EXCEPT ![i] = [@ EXCEPT !.slashed = TRUE]]
            /\ Slash(by_invitee[i].voucher, by_invitee[i].power_units)
       ELSE UNCHANGED <<by_invitee, stakingVars>>
    /\ UNCHANGED <<nodes, by_voucher, voucher_keys, consumed_consents, genesis, released>>

Next ==
    \/ \E n \in Nodes : AddGenesis(n)
    \/ \E n \in Nodes, k \in Keys : RegisterVoucherKey(n, k)
    \/ \E c \in VoucherConsent : Onboard(c)
    \/ \E i \in Nodes : MarkMaliciousAndSlash(i)
    \/ \E v \in Nodes, p \in Powers : Unlock(v, p)

Spec == Init /\ [][Next]_vars

-----------------------------------------------------------------------------
Edges == DOMAIN by_invitee

TypeOK ==
    /\ nodes \subseteq Nodes
    /\ malicious \subseteq Nodes
    /\ Edges \subseteq Nodes
    /\ by_invitee \in [Edges -> VoucherEdge]
    /\ by_voucher \in [Nodes -> Seq(Nodes)]
    /\ DOMAIN voucher_keys \subseteq Nodes
    /\ voucher_keys \in [DOMAIN voucher_keys -> Keys]
    /\ consumed_consents \subseteq Nonces
    /\ locked \in [Nodes -> Nat]
    /\ power \in [Nodes -> 0 .. MaxU64]
    /\ slashed \in [Nodes -> Nat]
    /\ genesis \subseteq Nodes
    /\ released \in [Nodes -> Nat]

\* "New nodes require a voucher", all the way up: in every group of members
\* without a genesis node, somebody was vouched for from outside the group, so
\* nobody is a member by a circle of vouchers that vouch for each other.
TrustIsRooted ==
    \A S \in (SUBSET nodes) \ {{}} :
        S \cap genesis = {} =>
            \E i \in S : i \in Edges /\ by_invitee[i].voucher \notin S

\* Whatever is unlocked behind the graph's back, collateral is only ever
\* locked, slashed or released: the edges of a voucher account for all of it.
CostOf(S) == MapThenSumSet(LAMBDA i : QuadraticCost(by_invitee[i].power_units), S)

CollateralAccounted ==
    \A v \in Nodes :
        locked[v] + slashed[v] + released[v] = CostOf(ToSet(by_voucher[v]))

\* "If an invitee is marked malicious, the voucher is financially slashed": as
\* long as nothing was unlocked, every edge is backed by its own collateral and
\* power, and every slashed edge has cost its voucher exactly its square.
EdgesAreBacked ==
    \A v \in Nodes : released[v] = 0 =>
        LET own  == ToSet(by_voucher[v])
            live == {i \in own : ~by_invitee[i].slashed}
        IN  /\ locked[v] = CostOf(live)
            /\ power[v] = MapThenSumSet(LAMBDA i : by_invitee[i].power_units, live)
            /\ slashed[v] = CostOf(own \ live)

\* "A consent cannot be replayed": locks and consents are one to one, however
\* often and in whatever order consents arrive.
ConsentsAreSpent == Cardinality(Edges) <= Cardinality(consumed_consents)

\* Collateral is accounted for and backs the edges it was locked for, each with a
\* consent of its own (onboard, slash, unlock).
CollateralIsBacked == CollateralAccounted /\ EdgesAreBacked /\ ConsentsAreSpent

\* Only marking an invitee takes collateral for good, only from its voucher,
\* once per edge; and what the voucher signed for is never rewritten. A mark takes
\* the square it signed for unless less than that is locked: then the ledger
\* refuses, the edge counts as slashed all the same, and the slash is never made
\* good.
SlashStep ==
    /\ \A i \in Edges :
           /\ i \in DOMAIN by_invitee'
           /\ [by_invitee'[i] EXCEPT !.slashed = FALSE] = [by_invitee[i] EXCEPT !.slashed = FALSE]
           /\ by_invitee[i].slashed => by_invitee'[i].slashed
    /\ \A v \in Nodes : slashed'[v] # slashed[v] =>
           \E i \in Edges :
               /\ by_invitee[i].voucher = v
               /\ ~by_invitee[i].slashed /\ by_invitee'[i].slashed
               /\ i \in malicious'
               /\ slashed'[v] = slashed[v] + QuadraticCost(by_invitee[i].power_units)
    /\ \A i \in Edges : ~by_invitee[i].slashed /\ by_invitee'[i].slashed =>
           LET v    == by_invitee[i].voucher
               cost == QuadraticCost(by_invitee[i].power_units)
           IN  slashed'[v] = slashed[v] + (IF locked[v] >= cost THEN cost ELSE 0)

SlashedOncePerEdge == [][SlashStep]_vars
=============================================================================
