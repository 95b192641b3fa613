--------------------------- MODULE LiquidityMiner ---------------------------
(***************************************************************************)
(* Retroactive liquidity mining (interop/src/liquidity.rs): genesis nodes  *)
(* earn points for the hours they report to have spent offline, and turn   *)
(* them into tokens once the island is back on the internet.               *)
(*                                                                         *)
(* Reported epochs are bounded by the wall clock, which is the operating   *)
(* system's: it may jump, forward or backward.  A call that fails changes  *)
(* nothing.  The REST action "accrue" registers the node first and then    *)
(* accrues, under one lock: two actions here.                              *)
(*                                                                         *)
(* The code's saturating sums never saturate: the caps keep the points of  *)
(* a node below 2^20.                                                      *)
(***************************************************************************)
EXTENDS Integers, FiniteSetsExt

CONSTANTS
    Nodes,             \* node ids
    PointsPerEpoch,    \* POINTS_PER_OFFLINE_EPOCH
    TokensPerPoint,    \* TOKENS_PER_POINT
    MaxEpochsPerCall,  \* MAX_EPOCHS_PER_CALL
    MaxEpochsPerNode,  \* MAX_EPOCHS_PER_NODE
    GraceHours,        \* PRE_REGISTRATION_GRACE_HOURS
    HourSecs,          \* seconds in an hour
    MaxTime            \* bound of the model on the clock

ASSUME MinerAssumption ==
    /\ PointsPerEpoch \in Nat \ {0}
    /\ TokensPerPoint \in Nat \ {0}
    /\ MaxEpochsPerCall \in Nat
    /\ MaxEpochsPerNode \in Nat
    /\ GraceHours \in Nat
    /\ HourSecs \in Nat \ {0}
    /\ MaxTime \in Nat

VARIABLES
    accounts,               \* the accounts registered so far
    internet_reconnected,   \* the miner's own copy of the reconnect flag
    total_points_issued,
    total_tokens_airdropped,
    now,                    \* the wall clock
    latest                  \* history: the latest time the clock has shown

minerVars == <<accounts, internet_reconnected, total_points_issued,
               total_tokens_airdropped>>
vars == <<accounts, internet_reconnected, total_points_issued,
          total_tokens_airdropped, now, latest>>

Times == 0 .. MaxTime

MiningAccount == [is_genesis         : BOOLEAN,
                  points             : Nat,
                  offline_epochs     : 0 .. MaxEpochsPerNode,
                  claimed_tokens     : Nat,
                  registered_at_secs : Times]

Registered == DOMAIN accounts

NewAccount(genesis, t) ==
    [is_genesis |-> genesis, points |-> 0, offline_epochs |-> 0,
     claimed_tokens |-> 0, registered_at_secs |-> t]

Init ==
    /\ accounts = [n \in {} |-> NewAccount(TRUE, 0)]
    /\ internet_reconnected = FALSE
    /\ total_points_issued = 0
    /\ total_tokens_airdropped = 0
    /\ now \in Times
    /\ latest = now

\* The clock is set to t.
SetClock(t) ==
    /\ now' = t
    /\ latest' = IF t > latest THEN t ELSE latest
    /\ UNCHANGED minerVars

\* on_internet_reconnect and on_internet_disconnect
SetOnline(online) ==
    /\ internet_reconnected' = online
    /\ UNCHANGED <<accounts, total_points_issued, total_tokens_airdropped, now, latest>>

\* register_genesis, ensure_genesis, register_genesis_at, register_standard:
\* an account that exists is left as it is.
Register(n, genesis, t) ==
    /\ n \notin Registered
    /\ accounts' = [m \in Registered \cup {n} |->
                       IF m = n THEN NewAccount(genesis, t) ELSE accounts[m]]
    /\ UNCHANGED <<internet_reconnected, total_points_issued, total_tokens_airdropped,
                   now, latest>>

ElapsedHours(n, t) ==
    LET since == accounts[n].registered_at_secs IN
    (IF t >= since THEN t - since ELSE 0) \div HourSecs

\* The lifetime ceiling of a node at time t.
EpochCeiling(n, t) ==
    LET hours == ElapsedHours(n, t) + 1 + GraceHours IN
    IF hours < MaxEpochsPerNode THEN hours ELSE MaxEpochsPerNode

\* accrue_offline_epochs; while online it grants nothing.
AccrueOfflineEpochs(n, epochs) ==
    /\ n \in Registered
    /\ accounts[n].is_genesis
    /\ epochs <= MaxEpochsPerCall
    /\ ~internet_reconnected
    /\ accounts[n].offline_epochs + epochs <= EpochCeiling(n, now)
    /\ accounts' = [accounts EXCEPT
                       ![n].offline_epochs = @ + epochs,
                       ![n].points = @ + epochs * PointsPerEpoch]
    /\ total_points_issued' = total_points_issued + epochs * PointsPerEpoch
    /\ UNCHANGED <<internet_reconnected, total_tokens_airdropped, now, latest>>

UnclaimedPoints_Bug(n) == accounts[n].points  \* what was claimed is forgotten

\* unclaimed_points, without the saturation that ClaimsFollowPoints excludes.
UnclaimedPoints(n) == accounts[n].points - accounts[n].claimed_tokens \div TokensPerPoint

\* claim_airdrop
ClaimAirdrop(n) ==
    /\ internet_reconnected
    /\ n \in Registered
    /\ UnclaimedPoints(n) > 0
    /\ accounts' = [accounts EXCEPT
                       ![n].claimed_tokens = @ + UnclaimedPoints(n) * TokensPerPoint]
    /\ total_tokens_airdropped' = total_tokens_airdropped
                                    + UnclaimedPoints(n) * TokensPerPoint
    /\ UNCHANGED <<internet_reconnected, total_points_issued, now, latest>>

\* The calls that nodes make.
NodeNext ==
    \E n \in Nodes :
        \/ \E t \in Times : Register(n, TRUE, t)
        \/ Register(n, FALSE, now)
        \/ \E epochs \in 0 .. MaxEpochsPerCall : AccrueOfflineEpochs(n, epochs)
        \/ ClaimAirdrop(n)

Next ==
    \/ NodeNext
    \/ \E t \in Times : SetClock(t)
    \/ \E online \in BOOLEAN : SetOnline(online)

Spec == Init /\ [][Next]_vars

-----------------------------------------------------------------------------
TypeOK ==
    /\ Registered \subseteq Nodes
    /\ accounts \in [Registered -> MiningAccount]
    /\ internet_reconnected \in BOOLEAN
    /\ total_points_issued \in Nat
    /\ total_tokens_airdropped \in Nat
    /\ now \in Times
    /\ latest \in Times

\* L2, L4 and L5 of docs/math-htlc-twamm.md: points come from genesis epochs
\* only, tokens from points only, and no point is paid twice, through any
\* sequence of outages, claims and registrations.
ClaimsFollowPoints ==
    \A n \in Registered :
        LET acct == accounts[n] IN
        /\ acct.points = acct.offline_epochs * PointsPerEpoch
        /\ ~acct.is_genesis => acct.points = 0
        /\ acct.claimed_tokens % TokensPerPoint = 0
        /\ acct.claimed_tokens \div TokensPerPoint <= acct.points

\* Issue #184: the epochs granted never exceed the hours that have elapsed
\* since registration plus the grace, by the latest time the clock has shown,
\* nor the lifetime cap, however often the clock jumps.
EpochsHaveElapsed ==
    \A n \in Registered : accounts[n].offline_epochs <= EpochCeiling(n, latest)

=============================================================================
