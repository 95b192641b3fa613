---------------------------- MODULE InteropProofs ----------------------------
(***************************************************************************)
(* Theorems about the parts of the interop process: LiquidityMiner and the *)
(* signals above it, for every set of nodes, all rates, caps and clocks,   *)
(* and TwammBook, for every integer width, cap, amount and slice count.    *)
(*                                                                         *)
(* The miner's invariant is a statement about one account at a time; the   *)
(* network totals, which are sums over all accounts, are left to TLC.      *)
(* UpstreamSignal is shown to implement LiquidityMiner, so that they hold  *)
(* for the miner inside the process too.                                   *)
(*                                                                         *)
(* The book's invariant says of each order that it still lies between      *)
(* slices_remaining times the n-th part of the order, rounded down and     *)
(* rounded up; with at least one unit per slice at the start, every slice  *)
(* is funded to the end.                                                   *)
(***************************************************************************)
EXTENDS InteropProcess, TLAPS

USE DEF Registered

LEMMA Quotient ==
    ASSUME NEW n \in Nat, NEW d \in Nat \ {0}
    PROVE  /\ n \div d \in Nat
           /\ d * (n \div d) <= n
           /\ n < d * (n \div d) + d
OBVIOUS

\* Division is monotone.
LEMMA QuotientGrows ==
    ASSUME NEW m \in Nat, NEW n \in Nat, NEW d \in Nat \ {0}, m <= n
    PROVE  m \div d <= n \div d
<1> DEFINE p == m \div d
           q == n \div d
<1>1. /\ p \in Nat /\ d * p <= m
      /\ q \in Nat /\ n < d * q + d
  BY Quotient
<1> HIDE DEF p, q
<1>2. SUFFICES ASSUME q + 1 <= p PROVE FALSE
  BY <1>1 DEF p, q
<1>3. d * (q + 1) <= d * p
  BY <1>1, <1>2
<1>4. d * (q + 1) = d * q + d
  BY <1>1
<1> QED
  BY <1>1, <1>3, <1>4

\* A multiple divides evenly.
LEMMA Multiple ==
    ASSUME NEW k \in Nat, NEW d \in Nat \ {0}
    PROVE  (d * k) % d = 0 /\ (d * k) \div d = k
OBVIOUS

-----------------------------------------------------------------------------
\* Tokens claimed are the pay of some of the points.
Paid(acct) == \E k \in Nat : k <= acct.points /\ acct.claimed_tokens = TokensPerPoint * k

Ceiling(acct, t) ==
    LET since == acct.registered_at_secs
        hours == (IF t >= since THEN t - since ELSE 0) \div HourSecs + 1 + GraceHours
    IN  IF hours < MaxEpochsPerNode THEN hours ELSE MaxEpochsPerNode

Sound(acct, t) ==
    /\ acct \in MiningAccount
    /\ acct.points = acct.offline_epochs * PointsPerEpoch
    /\ ~acct.is_genesis => acct.points = 0
    /\ Paid(acct)
    /\ acct.offline_epochs <= Ceiling(acct, t)

IInv ==
    /\ TypeOK
    /\ now <= latest
    /\ \A n \in Registered : Sound(accounts[n], latest)

-----------------------------------------------------------------------------
LEMMA CeilingIsNat ==
    ASSUME NEW acct \in MiningAccount, NEW t \in Times
    PROVE  Ceiling(acct, t) \in Nat /\ Ceiling(acct, t) <= MaxEpochsPerNode
<1> DEFINE since == acct.registered_at_secs
           d == IF t >= since THEN t - since ELSE 0
<1>1. d \in Nat
  BY MinerAssumption DEF MiningAccount, Times
<1> HIDE DEF d
<1>2. d \div HourSecs \in Nat
  BY <1>1, Quotient, MinerAssumption
<1>3. Ceiling(acct, t) = IF d \div HourSecs + 1 + GraceHours < MaxEpochsPerNode
                         THEN d \div HourSecs + 1 + GraceHours ELSE MaxEpochsPerNode
  BY DEF Ceiling, d
<1> QED
  BY <1>2, <1>3, MinerAssumption

\* Time only raises the ceiling.
LEMMA CeilingGrows ==
    ASSUME NEW acct \in MiningAccount, NEW t \in Times, NEW u \in Times, t <= u
    PROVE  Ceiling(acct, t) <= Ceiling(acct, u)
<1> DEFINE since == acct.registered_at_secs
           d == IF t >= since THEN t - since ELSE 0
           e == IF u >= since THEN u - since ELSE 0
<1>1. d \in Nat /\ e \in Nat /\ d <= e
  BY MinerAssumption DEF MiningAccount, Times
<1> HIDE DEF d, e
<1>2. d \div HourSecs \in Nat /\ e \div HourSecs \in Nat /\ d \div HourSecs <= e \div HourSecs
  BY <1>1, Quotient, QuotientGrows, MinerAssumption
<1>3. Ceiling(acct, t) = IF d \div HourSecs + 1 + GraceHours < MaxEpochsPerNode
                         THEN d \div HourSecs + 1 + GraceHours ELSE MaxEpochsPerNode
  BY DEF Ceiling, d
<1>4. Ceiling(acct, u) = IF e \div HourSecs + 1 + GraceHours < MaxEpochsPerNode
                         THEN e \div HourSecs + 1 + GraceHours ELSE MaxEpochsPerNode
  BY DEF Ceiling, e
<1> QED
  BY <1>2, <1>3, <1>4, MinerAssumption

LEMMA SoundLater ==
    ASSUME NEW acct, NEW t \in Times, NEW u \in Times, t <= u, Sound(acct, t)
    PROVE  Sound(acct, u)
<1>1. acct \in MiningAccount /\ acct.offline_epochs <= Ceiling(acct, t)
  BY DEF Sound
<1>2. /\ Ceiling(acct, t) <= Ceiling(acct, u)
      /\ Ceiling(acct, t) \in Nat /\ Ceiling(acct, u) \in Nat
  BY <1>1, CeilingGrows, CeilingIsNat
<1>3. acct.offline_epochs <= Ceiling(acct, u)
  BY <1>1, <1>2, MinerAssumption DEF MiningAccount
<1> QED
  BY <1>3 DEF Sound

LEMMA NewIsSound ==
    ASSUME NEW genesis \in BOOLEAN, NEW t \in Times, NEW u \in Times
    PROVE  Sound(NewAccount(genesis, t), u)
<1> DEFINE acct == NewAccount(genesis, t)
<1>1. /\ acct \in MiningAccount /\ acct.points = 0 /\ acct.offline_epochs = 0
      /\ acct.claimed_tokens = 0
  BY MinerAssumption DEF NewAccount, MiningAccount
<1> HIDE DEF acct
<1>2. Paid(acct)
  <2>1. 0 <= acct.points /\ acct.claimed_tokens = TokensPerPoint * 0
    BY <1>1, MinerAssumption
  <2> QED
    BY <2>1 DEF Paid
<1>3. acct.offline_epochs <= Ceiling(acct, u)
  BY <1>1, CeilingIsNat
<1> QED
  BY <1>1, <1>2, <1>3, MinerAssumption DEF Sound, acct

LEMMA InitIInv == Init => IInv
<1> SUFFICES ASSUME Init PROVE IInv
  OBVIOUS
<1>1. DOMAIN accounts = {}
  BY DEF Init
<1>2. accounts \in [Registered -> MiningAccount]
  BY DEF Init
<1>3. now \in Times /\ latest = now /\ now \in Nat
  BY MinerAssumption DEF Init, Times
<1>4. /\ internet_reconnected = FALSE
      /\ total_points_issued = 0
      /\ total_tokens_airdropped = 0
  BY DEF Init
<1>5. TypeOK
  BY <1>1, <1>2, <1>3, <1>4 DEF TypeOK
<1>6. now <= latest
  BY <1>3
<1> QED
  BY <1>1, <1>5, <1>6 DEF IInv

-----------------------------------------------------------------------------
LEMMA RegisterStep ==
    ASSUME IInv, NEW n \in Nodes, NEW genesis \in BOOLEAN, NEW t \in Times,
           Register(n, genesis, t)
    PROVE  IInv'
<1> DEFINE acct == NewAccount(genesis, t)
<1>1. latest \in Times /\ latest' = latest /\ now' = now
  BY DEF Register, IInv, TypeOK
<1>2. Sound(acct, latest)
  BY <1>1, NewIsSound
<1>3. accounts' = [m \in Registered \cup {n} |-> IF m = n THEN acct ELSE accounts[m]]
  BY DEF Register
<1> HIDE DEF acct
<1>4. ASSUME NEW m \in Registered' PROVE Sound(accounts'[m], latest')
  BY <1>1, <1>2, <1>3 DEF IInv
<1>5. TypeOK'
  <2>1. acct \in MiningAccount
    BY <1>2 DEF Sound
  <2> QED
    BY <1>1, <1>3, <2>1 DEF IInv, TypeOK, Register
<1> QED
  BY <1>1, <1>4, <1>5 DEF IInv

\* One account replaced by a sound one.
LEMMA ReplaceStep ==
    ASSUME IInv, NEW n \in Registered, NEW acct, Sound(acct, latest),
           accounts' = [accounts EXCEPT ![n] = acct],
           total_points_issued' \in Nat, total_tokens_airdropped' \in Nat,
           UNCHANGED <<internet_reconnected, now, latest>>
    PROVE  IInv'
<1>1. acct \in MiningAccount
  BY DEF Sound
<1>2. TypeOK'
  BY <1>1 DEF IInv, TypeOK
<1>3. ASSUME NEW m \in Registered' PROVE Sound(accounts'[m], latest')
  BY DEF IInv, TypeOK
<1> QED
  BY <1>2, <1>3 DEF IInv

LEMMA AccrueStep ==
    ASSUME IInv, NEW n \in Nodes, NEW epochs \in 0 .. MaxEpochsPerCall,
           AccrueOfflineEpochs(n, epochs)
    PROVE  IInv'
<1> DEFINE old  == accounts[n]
           acct == [old EXCEPT !.offline_epochs = old.offline_epochs + epochs,
                               !.points = old.points + epochs * PointsPerEpoch]
<1>1. n \in Registered /\ Sound(old, latest) /\ old \in MiningAccount
  BY DEF AccrueOfflineEpochs, IInv, Sound
<1>2. now \in Times /\ latest \in Times /\ now <= latest
  BY DEF IInv, TypeOK
<1>3. old.offline_epochs + epochs <= Ceiling(old, now)
  BY DEF AccrueOfflineEpochs, EpochCeiling, ElapsedHours, Ceiling
<1>4. /\ Ceiling(old, now) <= Ceiling(old, latest)
      /\ Ceiling(old, latest) <= MaxEpochsPerNode
      /\ Ceiling(old, now) \in Nat /\ Ceiling(old, latest) \in Nat
  BY <1>1, <1>2, CeilingGrows, CeilingIsNat
<1>5. /\ old.offline_epochs \in Nat /\ old.points \in Nat /\ epochs \in Nat
      /\ PointsPerEpoch \in Nat
  BY <1>1, MinerAssumption DEF MiningAccount
<1>6. epochs * PointsPerEpoch \in Nat
  BY <1>5
<1>7. /\ acct \in MiningAccount
      /\ acct.offline_epochs = old.offline_epochs + epochs
      /\ acct.points = old.points + epochs * PointsPerEpoch
      /\ acct.is_genesis = old.is_genesis
      /\ acct.claimed_tokens = old.claimed_tokens
      /\ acct.registered_at_secs = old.registered_at_secs
  <2>1. old.offline_epochs + epochs \in 0 .. MaxEpochsPerNode
    BY <1>3, <1>4, <1>5, MinerAssumption
  <2>2. old.points + epochs * PointsPerEpoch \in Nat
    BY <1>5, <1>6
  <2> QED
    BY <1>1, <2>1, <2>2 DEF MiningAccount
<1>8. /\ accounts' = [accounts EXCEPT ![n] = acct]
      /\ UNCHANGED <<internet_reconnected, total_tokens_airdropped, now, latest>>
      /\ total_points_issued' = total_points_issued + epochs * PointsPerEpoch
      /\ old.is_genesis
  BY DEF AccrueOfflineEpochs
<1> HIDE DEF acct, old
<1>9. Sound(acct, latest)
  <2>1. acct.points = acct.offline_epochs * PointsPerEpoch
    BY <1>1, <1>5, <1>7 DEF Sound
  <2>2. Paid(acct)
    <3>1. PICK k \in Nat : k <= old.points /\ old.claimed_tokens = TokensPerPoint * k
      BY <1>1 DEF Sound, Paid
    <3>2. k <= acct.points /\ acct.claimed_tokens = TokensPerPoint * k
      BY <1>5, <1>6, <1>7, <3>1
    <3> QED
      BY <3>2 DEF Paid
  <2>3. acct.offline_epochs <= Ceiling(acct, latest)
    <3>1. Ceiling(acct, latest) = Ceiling(old, latest)
      BY <1>7 DEF Ceiling
    <3> QED
      BY <1>3, <1>4, <1>5, <1>7, <3>1
  <2>4. ~acct.is_genesis => acct.points = 0
    BY <1>7, <1>8
  <2> QED
    BY <1>7, <2>1, <2>2, <2>3, <2>4 DEF Sound
<1>10. total_points_issued' \in Nat /\ total_tokens_airdropped' \in Nat
  BY <1>6, <1>8 DEF IInv, TypeOK
<1> QED
  BY <1>1, <1>8, <1>9, <1>10, ReplaceStep

\* What is unclaimed of a sound account.
LEMMA Unclaimed ==
    ASSUME NEW n \in Registered, Sound(accounts[n], latest)
    PROVE  \E k \in Nat : /\ k <= accounts[n].points
                          /\ accounts[n].claimed_tokens = TokensPerPoint * k
                          /\ UnclaimedPoints(n) = accounts[n].points - k
<1>1. PICK k \in Nat : k <= accounts[n].points /\ accounts[n].claimed_tokens = TokensPerPoint * k
  BY DEF Sound, Paid
<1>2. accounts[n].claimed_tokens \div TokensPerPoint = k
  BY <1>1, Multiple, MinerAssumption
<1> QED
  BY <1>1, <1>2 DEF UnclaimedPoints

LEMMA ClaimStep ==
    ASSUME IInv, NEW n \in Nodes, ClaimAirdrop(n)
    PROVE  IInv'
<1> DEFINE old  == accounts[n]
           pay  == UnclaimedPoints(n) * TokensPerPoint
           acct == [old EXCEPT !.claimed_tokens = old.claimed_tokens + pay]
<1>1. n \in Registered /\ Sound(old, latest) /\ old \in MiningAccount /\ old.points \in Nat
  BY DEF ClaimAirdrop, IInv, Sound, MiningAccount
<1>2. PICK k \in Nat : /\ k <= old.points
                       /\ old.claimed_tokens = TokensPerPoint * k
                       /\ UnclaimedPoints(n) = old.points - k
  BY <1>1, Unclaimed
<1>3. pay \in Nat /\ old.claimed_tokens + pay = TokensPerPoint * old.points
  BY <1>1, <1>2, MinerAssumption
<1>4. /\ accounts' = [accounts EXCEPT ![n] = acct]
      /\ UNCHANGED <<internet_reconnected, total_points_issued, now, latest>>
      /\ total_tokens_airdropped' = total_tokens_airdropped + pay
  BY DEF ClaimAirdrop
<1>5. old.claimed_tokens + pay \in Nat
  BY <1>1, <1>3, MinerAssumption
<1>6. /\ acct \in MiningAccount
      /\ acct.claimed_tokens = TokensPerPoint * old.points
      /\ acct.offline_epochs = old.offline_epochs
      /\ acct.points = old.points
      /\ acct.is_genesis = old.is_genesis
      /\ acct.registered_at_secs = old.registered_at_secs
  BY <1>1, <1>3, <1>5 DEF MiningAccount
<1> HIDE DEF old, pay, acct
<1>7. Sound(acct, latest)
  <2>1. Paid(acct)
    BY <1>1, <1>6 DEF Paid
  <2>2. Ceiling(acct, latest) = Ceiling(old, latest)
    BY <1>6 DEF Ceiling
  <2>3. ~acct.is_genesis => acct.points = 0
    BY <1>1, <1>6 DEF Sound
  <2> QED
    BY <1>1, <1>6, <2>1, <2>2, <2>3 DEF Sound
<1>8. total_points_issued' \in Nat /\ total_tokens_airdropped' \in Nat
  BY <1>3, <1>4 DEF IInv, TypeOK
<1> QED
  BY <1>1, <1>4, <1>7, <1>8, ReplaceStep

LEMMA ClockStep ==
    ASSUME IInv, NEW t \in Times, SetClock(t)
    PROVE  IInv'
<1>1. latest \in Times /\ latest' \in Times /\ latest <= latest' /\ now' <= latest' /\ now' = t
  BY MinerAssumption DEF SetClock, IInv, TypeOK, Times
<1>2. accounts' = accounts
  BY DEF SetClock, minerVars
<1>3. ASSUME NEW m \in Registered' PROVE Sound(accounts'[m], latest')
  BY <1>1, <1>2, SoundLater DEF IInv
<1>4. TypeOK'
  BY <1>1, <1>2 DEF IInv, TypeOK, SetClock, minerVars
<1> QED
  BY <1>1, <1>3, <1>4 DEF IInv

LEMMA NextIInv == IInv /\ [Next]_vars => IInv'
<1> SUFFICES ASSUME IInv, [Next]_vars PROVE IInv'
  OBVIOUS
<1>1. CASE UNCHANGED vars
  BY <1>1 DEF vars, IInv, TypeOK
<1>2. ASSUME NEW n \in Nodes, NEW t \in Times, Register(n, TRUE, t) PROVE IInv'
  BY <1>2, RegisterStep
<1>3. ASSUME NEW n \in Nodes, Register(n, FALSE, now) PROVE IInv'
  BY <1>3, RegisterStep DEF IInv, TypeOK
<1>4. ASSUME NEW n \in Nodes, NEW epochs \in 0 .. MaxEpochsPerCall,
             AccrueOfflineEpochs(n, epochs)
      PROVE  IInv'
  BY <1>4, AccrueStep
<1>5. ASSUME NEW n \in Nodes, ClaimAirdrop(n) PROVE IInv'
  BY <1>5, ClaimStep
<1>6. ASSUME NEW t \in Times, SetClock(t) PROVE IInv'
  BY <1>6, ClockStep
<1>7. ASSUME NEW online \in BOOLEAN, SetOnline(online) PROVE IInv'
  BY <1>7 DEF SetOnline, IInv, TypeOK
<1> QED
  BY <1>1, <1>2, <1>3, <1>4, <1>5, <1>6, <1>7 DEF Next, NodeNext

LEMMA Invariance == Spec => []IInv
BY InitIInv, NextIInv, PTL DEF Spec

-----------------------------------------------------------------------------
\* Every variable keeps its type; no account outgrows its lifetime cap.
THEOREM MinerIsWellFormed == Spec => []TypeOK
<1>1. IInv => TypeOK
  BY DEF IInv
<1> QED
  BY <1>1, Invariance, PTL

\* Points come from genesis epochs, tokens from points, and none is paid twice.
THEOREM TokensComeFromPoints == Spec => []ClaimsFollowPoints
<1>1. ASSUME IInv, NEW n \in Registered
      PROVE  LET acct == accounts[n] IN
             /\ acct.points = acct.offline_epochs * PointsPerEpoch
             /\ ~acct.is_genesis => acct.points = 0
             /\ acct.claimed_tokens % TokensPerPoint = 0
             /\ acct.claimed_tokens \div TokensPerPoint <= acct.points
  <2>1. Sound(accounts[n], latest)
    BY <1>1 DEF IInv
  <2>2. PICK k \in Nat : /\ k <= accounts[n].points
                         /\ accounts[n].claimed_tokens = TokensPerPoint * k
    BY <2>1 DEF Sound, Paid
  <2>3. /\ accounts[n].claimed_tokens % TokensPerPoint = 0
        /\ accounts[n].claimed_tokens \div TokensPerPoint = k
    BY <2>2, Multiple, MinerAssumption
  <2> QED
    BY <2>1, <2>2, <2>3 DEF Sound
<1>2. IInv => ClaimsFollowPoints
  BY <1>1 DEF ClaimsFollowPoints
<1> QED
  BY <1>2, Invariance, PTL

\* Nobody is granted hours that have not elapsed.
THEOREM GrantedEpochsElapsed == Spec => []EpochsHaveElapsed
<1>1. IInv => EpochsHaveElapsed
  BY DEF IInv, Sound, EpochsHaveElapsed, EpochCeiling, ElapsedHours, Ceiling
<1> QED
  BY <1>1, Invariance, PTL

-----------------------------------------------------------------------------
\* The process implements the miner: to the accounts, a signal is the same as
\* a change of the flag at one moment, so what holds of Spec holds of the
\* process, whatever the number of threads.
THEOREM ProcessImplementsMiner == SignalSpec => Spec
<1>1. SignalInit => Init
  BY DEF SignalInit
<1>2. [SignalNext]_allVars => [Next]_vars
  <2> SUFFICES ASSUME [SignalNext]_allVars PROVE [Next]_vars
    OBVIOUS
  <2>1. ASSUME NEW t \in Threads, NEW kind, FlagGateway(t, kind) PROVE UNCHANGED vars
    BY <2>1 DEF FlagGateway
  <2>2. ASSUME NEW t \in Threads, FlagMiner(t) PROVE Next
    <3>1. (signal[t] = "reconnect") \in BOOLEAN
      OBVIOUS
    <3> QED
      BY <2>2, <3>1 DEF FlagMiner, Next
  <2>3. ASSUME NodeNext \/ \E time \in Times : SetClock(time) PROVE Next
    BY <2>3 DEF Next
  <2>4. CASE UNCHANGED allVars
    BY <2>4 DEF allVars
  <2> QED
    BY <2>1, <2>2, <2>3, <2>4 DEF SignalNext
<1> QED
  BY <1>1, <1>2, PTL DEF SignalSpec, Spec

\* A signal that no opposite one overlapped when it began leaves the flags
\* equal, whatever the number of threads.  Inductively: while that is the last
\* signal, every half-way signal agrees with the gateway's flag, and some thread
\* is about to bring that flag to the miner if the miner has the other.
GatewayHasTheSignal ==
    \A t \in Threads : signal[t] # "idle" => gateway_reconnected = (signal[t] = "reconnect")

SignalIInv ==
    /\ gateway_reconnected \in BOOLEAN /\ internet_reconnected \in BOOLEAN
    /\ crossed \in BOOLEAN /\ signal \in [Threads -> Signals]
    /\ ~crossed => GatewayHasTheSignal /\ SomeoneBringsTheFlag

\* The half that moves the gateway: an uncrossed signal finds no other on the
\* way but its like, so all of them agree with the flag it sets.
LEMMA FlagGatewayStep ==
    ASSUME SignalIInv, NEW only \in Threads,
           NEW kind \in {"reconnect", "disconnect"}, FlagGateway(only, kind)
    PROVE  SignalIInv'
<1>1. /\ signal' = [signal EXCEPT ![only] = kind]
      /\ signal' \in [Threads -> Signals] /\ signal'[only] = kind
      /\ \A t \in Threads \ {only} : signal'[t] = signal[t]
      /\ internet_reconnected' = internet_reconnected
      /\ gateway_reconnected' = (kind = "reconnect")
      /\ gateway_reconnected' \in BOOLEAN
  BY DEF SignalIInv, FlagGateway, vars, Signals
<1>2. crossed' \in BOOLEAN
  BY DEF FlagGateway
<1>3. ASSUME ~crossed' PROVE GatewayHasTheSignal' /\ SomeoneBringsTheFlag'
  <2>1. \A t \in Threads : signal'[t] \in {"idle", kind}
    BY <1>1, <1>3 DEF FlagGateway
  <2>2. GatewayHasTheSignal'
    BY <1>1, <2>1 DEF GatewayHasTheSignal
  <2>3. SomeoneBringsTheFlag'
    BY <1>1 DEF SomeoneBringsTheFlag
  <2> QED
    BY <2>2, <2>3
<1> QED
  BY <1>1, <1>2, <1>3 DEF SignalIInv

\* The half that moves the miner.
LEMMA FlagMinerStep ==
    ASSUME SignalIInv, NEW only \in Threads, FlagMiner(only)
    PROVE  SignalIInv'
<1>1. /\ internet_reconnected' = (signal[only] = "reconnect")
      /\ internet_reconnected' \in BOOLEAN
      /\ gateway_reconnected' = gateway_reconnected
      /\ crossed' = crossed
      /\ signal' \in [Threads -> Signals]
      /\ \A t \in Threads : signal'[t] \in {"idle", signal[t]}
  BY DEF FlagMiner, SetOnline, SignalIInv, Signals
<1>2. ASSUME ~crossed PROVE GatewayHasTheSignal' /\ SomeoneBringsTheFlag'
  <2>1. gateway_reconnected = (signal[only] = "reconnect")
    BY <1>2 DEF FlagMiner, SignalIInv, GatewayHasTheSignal
  <2>2. internet_reconnected' = gateway_reconnected'
    BY <1>1, <2>1
  <2>3. GatewayHasTheSignal'
    BY <1>1, <1>2 DEF SignalIInv, GatewayHasTheSignal
  <2> QED
    BY <2>2, <2>3 DEF SomeoneBringsTheFlag
<1> QED
  BY <1>1, <1>2 DEF SignalIInv

LEMMA OtherStep ==
    ASSUME SignalIInv, UNCHANGED <<signalVars, internet_reconnected>>
    PROVE  SignalIInv'
BY DEF SignalIInv, signalVars, GatewayHasTheSignal, SomeoneBringsTheFlag

LEMMA SignalNextStep == SignalIInv /\ [SignalNext]_allVars => SignalIInv'
<1> SUFFICES ASSUME SignalIInv, [SignalNext]_allVars PROVE SignalIInv'
  OBVIOUS
<1>1. ASSUME NEW t \in Threads, NEW kind \in {"reconnect", "disconnect"},
             FlagGateway(t, kind)
      PROVE  SignalIInv'
  BY <1>1, FlagGatewayStep
<1>2. ASSUME NEW t \in Threads, FlagMiner(t) PROVE SignalIInv'
  BY <1>2, FlagMinerStep
<1>3. ASSUME NodeNext, UNCHANGED signalVars PROVE SignalIInv'
  <2>1. UNCHANGED internet_reconnected
    BY <1>3 DEF NodeNext, Register, AccrueOfflineEpochs, ClaimAirdrop
  <2> QED
    BY <1>3, <2>1, OtherStep
<1>4. ASSUME NEW time \in Times, SetClock(time), UNCHANGED signalVars PROVE SignalIInv'
  BY <1>4, OtherStep DEF SetClock, minerVars
<1>5. CASE UNCHANGED allVars
  BY <1>5, OtherStep DEF allVars, vars
<1> QED
  BY <1>1, <1>2, <1>3, <1>4, <1>5 DEF SignalNext

\* However many threads signal: when none is half-way, the miner's flag mirrors
\* the gateway's unless the last signal began inside an opposite one.  That
\* exception is the code's: the second lock is taken in either order.
THEOREM UncrossedSignalsMirror == SignalSpec => []MinerMirrorsGateway
<1>1. SignalInit => SignalIInv
  BY DEF SignalInit, Init, SignalIInv, GatewayHasTheSignal, SomeoneBringsTheFlag, Signals
<1>2. SignalIInv => MinerMirrorsGateway
  BY DEF SignalIInv, SomeoneBringsTheFlag, MinerMirrorsGateway
<1> QED
  BY <1>1, <1>2, SignalNextStep, PTL DEF SignalSpec

-----------------------------------------------------------------------------
\* The book.


\* A product grows with its factor.
LEMMA Product ==
    ASSUME NEW a \in Nat, NEW b \in Nat, NEW c \in Nat, a <= b
    PROVE  c * a <= c * b
OBVIOUS

-----------------------------------------------------------------------------
\* r units in s slices lie within s parts of the order.
Even(r, s, part) == s * part <= r /\ r <= s * (part + 1)

\* The size of the next slice, for numbers.
Slice(r, s) == IF s = 1 THEN r ELSE r \div s

LEMMA EvenSlice ==
    ASSUME NEW r \in Nat, NEW s \in Nat \ {0}, NEW part \in Nat, Even(r, s, part)
    PROVE  /\ Slice(r, s) \in {part, part + 1}
           /\ Slice(r, s) <= r
           /\ Even(r - Slice(r, s), s - 1, part)
<1>1. CASE s = 1
  BY <1>1 DEF Even, Slice
<1>2. CASE s # 1
  <2> DEFINE q == r \div s
  <2>1. q \in Nat /\ s * q <= r /\ r < s * q + s
    BY Quotient
  <2>2. Slice(r, s) = q
    BY <1>2 DEF Slice
  <2>3. part <= q
    <3>1. SUFFICES ASSUME q + 1 <= part PROVE FALSE
      BY <2>1
    <3>2. s * (q + 1) <= s * part
      BY <3>1, <2>1, Product
    <3>3. s * (q + 1) = s * q + s
      BY <2>1
    <3> QED
      BY <3>2, <3>3, <2>1 DEF Even
  <2>4. q <= part + 1
    <3>1. SUFFICES ASSUME part + 2 <= q PROVE FALSE
      BY <2>1
    <3>2. s * (part + 2) <= s * q
      BY <3>1, <2>1, Product
    <3>3. s * (part + 2) = s * (part + 1) + s
      OBVIOUS
    <3> QED
      BY <3>2, <3>3, <2>1 DEF Even
  <2>5. q <= r
    <3>1. 1 * q <= s * q
      BY <2>1, Product
    <3> QED
      BY <3>1, <2>1
  <2>6. (s - 1) * part = s * part - part /\ (s - 1) * (part + 1) = s * part + s - part - 1
    OBVIOUS
  <2>7. CASE q = part
    BY <2>1, <2>2, <2>5, <2>6, <2>7 DEF Even
  <2>8. CASE q = part + 1
    <3>1. s * q = s * part + s
      BY <2>8
    <3>2. s * (part + 1) = s * part + s
      OBVIOUS
    <3> QED
      BY <2>1, <2>2, <2>5, <2>6, <2>8, <3>1, <3>2 DEF Even
  <2> QED
    BY <2>1, <2>3, <2>4, <2>7, <2>8
<1> QED
  BY <1>1, <1>2

-----------------------------------------------------------------------------
\* What holds of an order o placed as p.
OnTrack(o, p) ==
    /\ o \in Order
    /\ p \in Placed
    /\ p.slices <= p.amount
    /\ p.filled + o.remaining_in = p.amount
    /\ Even(o.remaining_in, o.slices_remaining, p.amount \div p.slices)

\* The part of an order is a whole unit at least.
LEMMA PartIsPositive ==
    ASSUME NEW p \in Placed, p.slices <= p.amount
    PROVE  p.amount \div p.slices \in Nat \ {0}
<1>1. p.amount \in Nat /\ p.slices \in Nat \ {0}
  BY TwammAssumption DEF Placed
<1> QED
  BY <1>1, Quotient

\* An order on track is funded.
LEMMA OnTrackIsFunded ==
    ASSUME NEW o, NEW p, OnTrack(o, p)
    PROVE  /\ o.slices_remaining <= o.remaining_in
           /\ o.slices_remaining = 0 => o.remaining_in = 0
<1> DEFINE part == p.amount \div p.slices
           r == o.remaining_in
           s == o.slices_remaining
<1>1. r \in Nat /\ s \in Nat
  BY TwammAssumption DEF OnTrack, Order
<1>2. part \in Nat \ {0}
  BY PartIsPositive DEF OnTrack
<1>3. Even(r, s, part)
  BY DEF OnTrack
<1> HIDE DEF part, r, s
<1>4. s * 1 <= s * part
  BY <1>1, <1>2, Product
<1>5. s <= r /\ (s = 0 => r = 0)
  BY <1>1, <1>2, <1>3, <1>4 DEF Even
<1> QED
  BY <1>5 DEF r, s

\* A slice keeps an order on track, and is the n-th part, rounded.
LEMMA SliceKeepsTrack ==
    ASSUME NEW o, NEW p, OnTrack(o, p), ~Exhausted(o)
    PROVE  LET n == SliceAmount(o) IN
           /\ n \in {p.amount \div p.slices, (p.amount \div p.slices) + 1}
           /\ n \in Nat \ {0}
           /\ AfterSlice(o) = [o EXCEPT !.remaining_in = o.remaining_in - n,
                                        !.slices_remaining = o.slices_remaining - 1]
           /\ OnTrack(AfterSlice(o), [p EXCEPT !.filled = p.filled + n])
<1> DEFINE part == p.amount \div p.slices
           r == o.remaining_in
           s == o.slices_remaining
           n == SliceAmount(o)
           o2 == [o EXCEPT !.remaining_in = r - n, !.slices_remaining = s - 1]
           p2 == [p EXCEPT !.filled = p.filled + n]
<1>1. /\ r \in Nat /\ s \in Nat \ {0}
      /\ r <= MaxU64 /\ s <= MaxSlices
      /\ MaxU64 \in Nat /\ MaxSlices \in Nat
  BY TwammAssumption DEF OnTrack, Order, Exhausted
<1>2. part \in Nat \ {0}
  BY PartIsPositive DEF OnTrack
<1>3. Even(r, s, part)
  BY DEF OnTrack
<1>4. n = Slice(r, s)
  BY DEF SliceAmount, Slice
<1> HIDE DEF part, r, s, n
<1>5. n \in {part, part + 1} /\ n <= r /\ Even(r - n, s - 1, part)
  BY <1>1, <1>2, <1>3, <1>4, EvenSlice
<1>6. n \in Nat \ {0}
  BY <1>2, <1>5
<1>7. AfterSlice(o) = o2
  BY <1>1, <1>5, <1>6 DEF AfterSlice, n, r, s
<1>8. /\ o2 \in Order
      /\ o2.remaining_in = r - n
      /\ o2.slices_remaining = s - 1
  <2>1. o \in Order
    BY DEF OnTrack
  <2>2. r - n \in 0 .. MaxU64 /\ s - 1 \in 0 .. MaxSlices
    BY <1>1, <1>5, <1>6
  <2> QED
    BY <2>1, <2>2 DEF Order
<1>9. /\ p2 \in Placed
      /\ p2.filled = p.filled + n
      /\ p2.amount = p.amount
      /\ p2.slices = p.slices
  <2>1. p \in Placed /\ p.filled + r = p.amount
    BY DEF OnTrack, r
  <2>2. p.filled + n \in 0 .. MaxU64
    BY <2>1, <1>1, <1>5, <1>6 DEF Placed
  <2> QED
    BY <2>1, <2>2 DEF Placed
<1>10. OnTrack(o2, p2)
  <2>1. p.slices <= p.amount /\ p.filled + r = p.amount /\ p.filled \in Nat
    BY TwammAssumption DEF OnTrack, Placed, r
  <2>2. p2.filled + o2.remaining_in = p2.amount
    BY <2>1, <1>1, <1>5, <1>6, <1>8, <1>9
  <2>3. Even(o2.remaining_in, o2.slices_remaining, p2.amount \div p2.slices)
    BY <1>5, <1>8, <1>9 DEF part
  <2> QED
    BY <2>1, <2>2, <2>3, <1>8, <1>9 DEF OnTrack
<1> QED
  BY <1>5, <1>6, <1>7, <1>10 DEF part, n, r, s

-----------------------------------------------------------------------------
BookInv ==
    /\ BookTypeOK
    /\ \A i \in DOMAIN book : OnTrack(book[i], placed[i])

LEMMA NewOrderOnTrack ==
    ASSUME NEW side \in Side, NEW n \in 0 .. MaxU64, NEW k \in 1 .. MaxSlices,
           NEW ref \in 0 .. MaxU64, Submittable(n, k, ref)
    PROVE  OnTrack(NewOrder(side, n, k, ref), [amount |-> n, slices |-> k, filled |-> 0])
<1> DEFINE part == n \div k
<1>1. n \in Nat \ {0} /\ k \in Nat \ {0} /\ k <= n /\ ref \in 1 .. MaxU64
  BY TwammAssumption DEF Submittable
<1>2. part \in Nat /\ k * part <= n /\ n < k * part + k
  BY <1>1, Quotient
<1>3. Even(n, k, part)
  <2>1. k * (part + 1) = k * part + k
    BY <1>1, <1>2
  <2> QED
    BY <1>1, <1>2, <2>1 DEF Even
<1> QED
  BY <1>1, <1>3, TwammAssumption DEF OnTrack, NewOrder, Order, Placed, Submittable

LEMMA InitBookInv == BookInit => BookInv
BY DEF BookInit, BookInv, BookTypeOK

\* An order on track put behind the others.
LEMMA AppendOrderStep ==
    ASSUME BookInv, NEW o, NEW p, OnTrack(o, p),
           book' = Append(book, o), placed' = Append(placed, p)
    PROVE  BookInv'
<1>1. o \in Order /\ p \in Placed
  BY DEF OnTrack
<1>2. BookTypeOK'
  BY <1>1 DEF BookInv, BookTypeOK
<1>3. ASSUME NEW i \in DOMAIN book'
      PROVE  OnTrack(book'[i], placed'[i])
  <2>1. CASE i \in DOMAIN book
    <3>1. book'[i] = book[i] /\ placed'[i] = placed[i]
      BY <2>1 DEF BookInv, BookTypeOK
    <3> QED
      BY <2>1, <3>1 DEF BookInv
  <2>2. CASE i = Len(book) + 1
    <3>1. book'[i] = o /\ placed'[i] = p
      BY <2>2 DEF BookInv, BookTypeOK
    <3> QED
      BY <3>1
  <2> QED
    BY <2>1, <2>2 DEF BookInv, BookTypeOK
<1> QED
  BY <1>2, <1>3 DEF BookInv

LEMMA SubmitStep ==
    ASSUME BookInv,
           NEW side \in Side, NEW n \in Amounts, NEW slices \in 0 .. MaxSlices,
           NEW ref \in Prices, SubmitOrder(side, n, slices, ref)
    PROVE  BookInv'
<1> DEFINE k == IF slices = 0 THEN 1 ELSE slices
           o == NewOrder(side, n, k, ref)
           p == [amount |-> n, slices |-> k, filled |-> 0]
<1>1. n \in 0 .. MaxU64 /\ ref \in 0 .. MaxU64 /\ k \in 1 .. MaxSlices
  BY TwammAssumption
<1>2. Submittable(n, k, ref) /\ book' = Append(book, o) /\ placed' = Append(placed, p)
  BY DEF SubmitOrder
<1>3. OnTrack(o, p)
  BY <1>1, <1>2, NewOrderOnTrack
<1> HIDE DEF k, o, p
<1> QED
  BY <1>2, <1>3, AppendOrderStep

\* The REST handler: the order as submitted, or with its first slice filled.
LEMMA HandleTwammStep ==
    ASSUME BookInv,
           NEW side \in Side, NEW n \in Amounts, NEW slices \in 0 .. MaxSlices,
           NEW ref \in Prices, NEW exec \in Prices, HandleTwamm(side, n, slices, ref, exec)
    PROVE  BookInv'
<1> DEFINE k  == IF slices = 0 THEN 1 ELSE slices
           o  == NewOrder(side, n, k, ref)
           p  == [amount |-> n, slices |-> k, filled |-> 0]
           f  == SliceAmount(o)
           p2 == [amount |-> n, slices |-> k, filled |-> f]
<1>1. n \in 0 .. MaxU64 /\ ref \in 0 .. MaxU64 /\ k \in 1 .. MaxSlices
  BY TwammAssumption
<1>2. /\ Submittable(n, k, ref)
      /\ CanStream(o, exec) =>
             book' = Append(book, AfterSlice(o)) /\ placed' = Append(placed, p2)
      /\ ~CanStream(o, exec) => book' = Append(book, o) /\ placed' = Append(placed, p)
  BY DEF HandleTwamm
<1>3. OnTrack(o, p)
  BY <1>1, <1>2, NewOrderOnTrack
<1>4. CASE CanStream(o, exec)
  <2>1. ~Exhausted(o)
    BY <1>4 DEF CanStream
  <2>2. f \in Nat /\ OnTrack(AfterSlice(o), [p EXCEPT !.filled = p.filled + f])
    <3> HIDE DEF o, p
    <3> QED
      BY <1>3, <2>1, SliceKeepsTrack
  <2>3. [p EXCEPT !.filled = p.filled + f] = p2
    <3> HIDE DEF o, f, k
    <3> QED
      BY <2>2
  <2> HIDE DEF k, o, p, p2
  <2> QED
    BY <1>2, <1>4, <2>2, <2>3, AppendOrderStep
<1>5. CASE ~CanStream(o, exec)
  <2> HIDE DEF k, o, p
  <2> QED
    BY <1>2, <1>3, <1>5, AppendOrderStep
<1> QED
  BY <1>4, <1>5

\* One order and its history replaced by others on track.
LEMMA ReplaceOrderStep ==
    ASSUME BookInv, NEW i \in DOMAIN book, NEW o, NEW p, OnTrack(o, p),
           book' = [book EXCEPT ![i] = o], placed' = [placed EXCEPT ![i] = p]
    PROVE  BookInv'
<1>1. /\ book \in Seq(Order) /\ placed \in Seq(Placed)
      /\ Len(placed) = Len(book) /\ i \in DOMAIN placed
      /\ o \in Order /\ p \in Placed
  BY DEF BookInv, BookTypeOK, OnTrack
<1>2. BookTypeOK'
  BY <1>1 DEF BookTypeOK
<1>3. ASSUME NEW j \in DOMAIN book'
      PROVE  OnTrack(book'[j], placed'[j])
  BY <1>1 DEF BookInv
<1> QED
  BY <1>2, <1>3 DEF BookInv

LEMMA StreamStep ==
    ASSUME BookInv, NEW i \in DOMAIN book, NEW exec \in Prices, StreamSlice(i, exec)
    PROVE  BookInv'
<1> DEFINE n == SliceAmount(book[i])
<1>1. OnTrack(book[i], placed[i]) /\ ~Exhausted(book[i])
  BY DEF BookInv, StreamSlice, CanStream
<1>2. OnTrack(AfterSlice(book[i]), [placed[i] EXCEPT !.filled = placed[i].filled + n])
  BY <1>1, SliceKeepsTrack
<1>3. /\ book' = [book EXCEPT ![i] = AfterSlice(book[i])]
      /\ placed' = [placed EXCEPT ![i] = [placed[i] EXCEPT !.filled = placed[i].filled + n]]
  BY DEF StreamSlice
<1> HIDE DEF n
<1> QED
  BY <1>2, <1>3, ReplaceOrderStep

LEMMA RefreshStep ==
    ASSUME BookInv, NEW i \in DOMAIN book, NEW ref \in Prices, RefreshReferencePrice(i, ref)
    PROVE  BookInv'
<1> DEFINE o == [book[i] EXCEPT !.reference_price = ref]
<1>1. OnTrack(book[i], placed[i])
  BY DEF BookInv
<1>2. ref \in 1 .. MaxU64
  BY TwammAssumption DEF RefreshReferencePrice
<1>3. OnTrack(o, placed[i])
  BY <1>1, <1>2 DEF OnTrack, Order
<1>4. /\ book' = [book EXCEPT ![i] = o]
      /\ placed' = [placed EXCEPT ![i] = placed[i]]
  BY DEF RefreshReferencePrice, BookInv, BookTypeOK
<1> HIDE DEF o
<1> QED
  BY <1>3, <1>4, ReplaceOrderStep

LEMMA BookStepInv == BookInv /\ BookStep => BookInv'
<1> SUFFICES ASSUME BookInv, BookStep PROVE BookInv'
  OBVIOUS
<1>1. ASSUME NEW side \in Side, NEW n \in Amounts, NEW slices \in 0 .. MaxSlices,
             NEW ref \in Prices, SubmitOrder(side, n, slices, ref)
      PROVE  BookInv'
  BY <1>1, SubmitStep
<1>2. ASSUME NEW i \in DOMAIN book, NEW exec \in Prices, StreamSlice(i, exec)
      PROVE  BookInv'
  BY <1>2, StreamStep
<1>3. ASSUME NEW i \in DOMAIN book, NEW ref \in Prices, RefreshReferencePrice(i, ref)
      PROVE  BookInv'
  BY <1>3, RefreshStep
<1>4. ASSUME NEW side \in Side, NEW n \in Amounts, NEW slices \in 0 .. MaxSlices,
             NEW ref \in Prices, NEW exec \in Prices, HandleTwamm(side, n, slices, ref, exec)
      PROVE  BookInv'
  BY <1>4, HandleTwammStep
<1> QED
  BY <1>1, <1>2, <1>3, <1>4 DEF BookStep, BookNext

LEMMA NextBookInv == BookInv /\ [ProcessNext]_processVars => BookInv'
<1> SUFFICES ASSUME BookInv, [ProcessNext]_processVars PROVE BookInv'
  OBVIOUS
<1>1. CASE UNCHANGED bookVars
  BY <1>1 DEF bookVars, BookInv, BookTypeOK
<1>2. CASE BookStep
  BY <1>2, BookStepInv
<1> QED
  BY <1>1, <1>2 DEF ProcessNext, processVars

LEMMA BookInvariance == ProcessSpec => []BookInv
<1>1. ProcessInit => BookInv
  BY InitBookInv DEF ProcessInit
<1> QED
  BY <1>1, NextBookInv, PTL DEF ProcessSpec

-----------------------------------------------------------------------------
\* The book and its history are well formed at all times.
THEOREM BookIsWellFormed == ProcessSpec => []BookTypeOK
<1>1. BookInv => BookTypeOK
  BY DEF BookInv
<1> QED
  BY <1>1, BookInvariance, PTL

\* No order is ever stuck with slices it has no units for.
THEOREM SlicesStayFunded == ProcessSpec => []EverySliceIsFunded
<1>1. BookInv => EverySliceIsFunded
  BY OnTrackIsFunded DEF BookInv, EverySliceIsFunded
<1> QED
  BY <1>1, BookInvariance, PTL

\* Fills and remainder add up to the order.
THEOREM OrdersFillExactly == ProcessSpec => []FillsAddUp
<1>1. BookInv => FillsAddUp
  BY DEF BookInv, FillsAddUp, OnTrack
<1> QED
  BY <1>1, BookInvariance, PTL

\* All slices of an order are its n-th part, rounded down or up.
THEOREM OrdersSplitEvenly == ProcessSpec => []SlicesAreEqual
<1>1. BookInv => SlicesAreEqual
  BY SliceKeepsTrack DEF BookInv, SlicesAreEqual
<1> QED
  BY <1>1, BookInvariance, PTL

-----------------------------------------------------------------------------
\* The rounded-down spread bounds the real one, unless the product saturated
\* and the reference is so large that the saturated product passes too.
LEMMA CapBoundsDistance ==
    ASSUME NEW exec \in 0 .. MaxU64, NEW ref \in 1 .. MaxU64, WithinCap(exec, ref)
    PROVE  WithinSpread(exec, ref) \/ Saturates(exec, ref)
<1> DEFINE d == AbsDiff(exec, ref)
           m == SatMul(d, BpsDenom)
<1>1. /\ exec \in Nat /\ ref \in Nat \ {0} /\ BpsDenom \in Nat \ {0}
      /\ MaxU64 \in Nat /\ MaxSpreadBps \in Nat
  BY TwammAssumption
<1>2. d \in Nat /\ d * BpsDenom \in Nat
  BY <1>1 DEF AbsDiff
<1>3. m \in Nat /\ m \div ref <= MaxSpreadBps
  BY <1>1, <1>2 DEF WithinCap, SpreadBps, SatMul
<1>4. m < (MaxSpreadBps + 1) * ref
  <2> HIDE DEF m
  <2>1. m \div ref \in Nat /\ m < ref * (m \div ref) + ref
    BY <1>1, <1>3, Quotient
  <2>2. ref * (m \div ref) <= ref * MaxSpreadBps
    BY <1>1, <1>3, <2>1, Product
  <2>3. ref * MaxSpreadBps + ref = (MaxSpreadBps + 1) * ref
    BY <1>1
  <2> QED
    BY <1>1, <1>3, <2>1, <2>2, <2>3
<1> HIDE DEF d
<1>5. CASE d * BpsDenom > MaxU64
  <2>1. m = MaxU64
    BY <1>5 DEF SatMul
  <2> QED
    BY <1>4, <1>5, <2>1 DEF Saturates, d
<1>6. CASE ~(d * BpsDenom > MaxU64)
  <2>1. m = d * BpsDenom
    BY <1>6 DEF SatMul
  <2> QED
    BY <1>4, <2>1 DEF WithinSpread, d
<1> QED
  BY <1>5, <1>6

\* The slice of an order that just came, or of one that was there.
LEMMA HandleTwammFill ==
    ASSUME BookInv,
           NEW side \in Side, NEW n \in Amounts, NEW slices \in 0 .. MaxSlices,
           NEW ref \in Prices, NEW exec \in Prices, HandleTwamm(side, n, slices, ref, exec),
           NEW i \in DOMAIN book', placed'[i].filled # FilledSoFar(i)
    PROVE  /\ last'.order = i /\ last'.execution_price = exec
           /\ exec \in 0 .. MaxU64 /\ book'[i].reference_price \in 1 .. MaxU64
           /\ WithinCap(exec, book'[i].reference_price)
<1> DEFINE k  == IF slices = 0 THEN 1 ELSE slices
           o  == NewOrder(side, n, k, ref)
           o2 == IF CanStream(o, exec) THEN AfterSlice(o) ELSE o
           p2 == [amount |-> n, slices |-> k,
                  filled |-> IF CanStream(o, exec) THEN SliceAmount(o) ELSE 0]
<1>1. /\ book' = Append(book, o2) /\ placed' = Append(placed, p2)
      /\ Submittable(n, k, ref)
  BY DEF HandleTwamm
<1>2. o.reference_price = ref /\ o2.reference_price = ref
  BY DEF NewOrder, AfterSlice
<1>3. exec \in 0 .. MaxU64 /\ ref \in 1 .. MaxU64
  BY <1>1, TwammAssumption DEF Submittable
<1>4. /\ book \in Seq(Order) /\ placed \in Seq(Placed) /\ Len(placed) = Len(book)
      /\ BookInv'
  BY HandleTwammStep DEF BookInv, BookTypeOK
<1>5. i = Len(book) + 1
  <2> HIDE DEF o2, p2
  <2>1. i \in 1 .. Len(book) + 1
    BY <1>1, <1>4 DEF BookInv, BookTypeOK
  <2>2. i \in DOMAIN book => placed'[i] = placed[i] /\ i \in DOMAIN placed
    BY <1>1, <1>4
  <2> QED
    BY <1>4, <2>1, <2>2 DEF FilledSoFar
<1>6. book'[i] = o2 /\ placed'[i] = p2 /\ i \notin DOMAIN placed
  <2> HIDE DEF o2, p2
  <2> QED
    BY <1>1, <1>4, <1>5 DEF BookInv, BookTypeOK
<1>7. CanStream(o, exec)
  BY <1>6 DEF FilledSoFar
<1>8. WithinCap(exec, ref)
  BY <1>2, <1>7 DEF CanStream
<1>9. last'.order = i /\ last'.execution_price = exec
  BY <1>5, <1>7 DEF HandleTwamm
<1> QED
  BY <1>2, <1>3, <1>6, <1>8, <1>9

LEMMA StreamFill ==
    ASSUME BookInv, NEW j \in DOMAIN book, NEW exec \in Prices, StreamSlice(j, exec),
           NEW i \in DOMAIN book', placed'[i].filled # FilledSoFar(i)
    PROVE  /\ last'.order = i /\ last'.execution_price = exec
           /\ exec \in 0 .. MaxU64 /\ book'[i].reference_price \in 1 .. MaxU64
           /\ WithinCap(exec, book'[i].reference_price)
<1>1. /\ book \in Seq(Order) /\ placed \in Seq(Placed) /\ Len(placed) = Len(book)
      /\ i \in DOMAIN book /\ i \in DOMAIN placed /\ book[i] \in Order
  BY DEF BookInv, BookTypeOK, StreamSlice
<1>2. i = j
  BY <1>1 DEF StreamSlice, FilledSoFar
<1>3. book'[i] = AfterSlice(book[i])
  BY <1>1, <1>2 DEF StreamSlice
<1>4. book'[i].reference_price = book[i].reference_price
  BY <1>1, <1>3 DEF AfterSlice, Order
<1>5. last'.order = i /\ last'.execution_price = exec
  BY <1>2 DEF StreamSlice, FillOf
<1> QED
  BY <1>1, <1>2, <1>4, <1>5, TwammAssumption DEF StreamSlice, CanStream, Order

\* Every fill of the process, by REST or by the engine, old order or new, is
\* within the cap of its order's reference, or beyond the width of the product.
THEOREM CapHolds == ProcessSpec => FillsWithinCap
<1>1. ASSUME BookInv, [ProcessNext]_processVars PROVE FillStep
  <2> SUFFICES ASSUME NEW i \in DOMAIN book', placed'[i].filled # FilledSoFar(i)
               PROVE  /\ last'.order = i
                      /\ \/ WithinSpread(last'.execution_price, book'[i].reference_price)
                         \/ Saturates(last'.execution_price, book'[i].reference_price)
    BY DEF FillStep
  <2> USE <1>1
  <2>1. ASSUME book' = book, placed' = placed PROVE FALSE
    BY <2>1 DEF FilledSoFar, BookInv, BookTypeOK
  <2>2. CASE UNCHANGED bookVars
    BY <2>1, <2>2 DEF bookVars
  <2>3. ASSUME NEW side \in Side, NEW n \in Amounts, NEW slices \in 0 .. MaxSlices,
               NEW ref \in Prices, SubmitOrder(side, n, slices, ref)
        PROVE  FALSE
    <3>1. \E p \in Placed : p.filled = 0 /\ placed' = Append(placed, p)
      <4>1. PICK k \in 1 .. MaxSlices :
                placed' = Append(placed, [amount |-> n, slices |-> k, filled |-> 0])
        BY <2>3, TwammAssumption DEF SubmitOrder
      <4> QED
        BY <2>3, <4>1, TwammAssumption DEF SubmitOrder, Submittable, Placed
    <3>2. Len(book') = Len(book) + 1 /\ i \in 1 .. Len(book) + 1
      BY <2>3 DEF SubmitOrder, BookInv, BookTypeOK
    <3> QED
      BY <3>1, <3>2 DEF FilledSoFar, BookInv, BookTypeOK
  <2>4. ASSUME NEW j \in DOMAIN book, NEW ref \in Prices, RefreshReferencePrice(j, ref)
        PROVE  FALSE
    BY <2>4 DEF RefreshReferencePrice, FilledSoFar, BookInv, BookTypeOK
  <2>5. ASSUME NEW j \in DOMAIN book, NEW exec \in Prices, StreamSlice(j, exec)
        PROVE  /\ last'.order = i
               /\ \/ WithinSpread(last'.execution_price, book'[i].reference_price)
                  \/ Saturates(last'.execution_price, book'[i].reference_price)
    BY <2>5, StreamFill, CapBoundsDistance
  <2>6. ASSUME NEW side \in Side, NEW n \in Amounts, NEW slices \in 0 .. MaxSlices,
               NEW ref \in Prices, NEW exec \in Prices, HandleTwamm(side, n, slices, ref, exec)
        PROVE  /\ last'.order = i
               /\ \/ WithinSpread(last'.execution_price, book'[i].reference_price)
                  \/ Saturates(last'.execution_price, book'[i].reference_price)
    BY <2>6, HandleTwammFill, CapBoundsDistance
  <2> QED
    BY <2>2, <2>3, <2>4, <2>5, <2>6 DEF ProcessNext, processVars, BookStep, BookNext
<1>2. BookInv /\ [ProcessNext]_processVars => [FillStep]_bookVars
  BY <1>1
<1> QED
  BY <1>2, BookInvariance, PTL DEF ProcessSpec, FillsWithinCap
=============================================================================
