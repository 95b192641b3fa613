----------------------------- MODULE MeshProofs -----------------------------
(***************************************************************************)
(* Theorems about the parts of the mesh transport that Mesh_radio and      *)
(* Ble_link check, for all sets of peers and jobs, all thresholds,         *)
(* durations and budgets.                                                  *)
(***************************************************************************)
EXTENDS LoraLink, PeerLinks, MeshIdentity, Quarantine, VrfAssigner, BlePeripheral, BleMesh,
        Island, Sums

-----------------------------------------------------------------------------
(***************************************************************************)
(* Traps.  A wrong result stays on record because its peer is banned and   *)
(* never submits again: the lies told so far can be read off the           *)
(* submissions, which is what detect_cartel looks at.                      *)
(***************************************************************************)

HoneypotInv ==
    /\ DOMAIN traps \subseteq TrapJobs /\ \A j \in DOMAIN traps : traps[j] = Expected[j]
    /\ DOMAIN submissions = TrapJobs
    /\ \A j \in TrapJobs : /\ IsFiniteSet(DOMAIN submissions[j])
                           /\ DOMAIN submissions[j] \subseteq TrapPeers
    /\ lies \subseteq TrapJobs \X TrapPeers \X ResultHashes
    /\ \A j \in TrapJobs, p \in TrapPeers, h \in ResultHashes :
          <<j, p, h>> \in lies <=> /\ p \in DOMAIN submissions[j]
                                   /\ submissions[j][p] = h /\ h # Expected[j]
    /\ EveryLiarIsSlashed

LEMMA TwoOrMore ==
    ASSUME NEW A, IsFiniteSet(A), NEW x \in A
    PROVE  Cardinality(A) >= 2 <=> \E y \in A : y # x
<1>1. Cardinality(A) \in Nat /\ Cardinality(A) # 0
  BY FS_CardinalityType, FS_EmptySet
<1>2. Cardinality(A) = 1 <=> \E y : A = {y}
  BY FS_Singleton
<1>3. (\E y : A = {y}) <=> A = {x}
  OBVIOUS
<1> QED
  BY <1>1, <1>2, <1>3

LEMMA HoneypotStarts == HoneypotInit => HoneypotInv
<1> SUFFICES ASSUME HoneypotInit PROVE HoneypotInv
  OBVIOUS
<1>1. EveryLiarIsSlashed
  BY DEF HoneypotInit, EveryLiarIsSlashed
<1> QED
  BY <1>1, FS_EmptySet DEF HoneypotInit, HoneypotInv

LEMMA CraftKeeps ==
    ASSUME HoneypotInv, NEW job \in TrapJobs, craft_trap(job)
    PROVE  HoneypotInv'
<1>1. EveryLiarIsSlashed'
  BY DEF HoneypotInv, craft_trap, EveryLiarIsSlashed
<1> QED
  BY <1>1 DEF HoneypotInv, craft_trap

LEMMA SubmitKeeps ==
    ASSUME HoneypotInv, NEW job \in TrapJobs, NEW peer \in TrapPeers, NEW hash \in ResultHashes,
           submit_result(job, peer, hash)
    PROVE  HoneypotInv'
<1> DEFINE subs == [submissions EXCEPT ![job] = [p \in DOMAIN @ \union {peer} |->
                                                  IF p = peer THEN hash ELSE @[p]]]
           A == Agreeing(subs, job, hash)
<1>1. /\ peer \notin banned /\ job \in DOMAIN traps /\ submissions' = subs /\ traps' = traps
      /\ traps[job] = Expected[job]
  BY DEF submit_result, HoneypotInv
<1>2. /\ DOMAIN subs = TrapJobs
      /\ \A j \in TrapJobs \ {job} : subs[j] = submissions[j]
      /\ DOMAIN subs[job] = DOMAIN submissions[job] \union {peer}
      /\ subs[job][peer] = hash
      /\ \A p \in DOMAIN submissions[job] \ {peer} : subs[job][p] = submissions[job][p]
  BY DEF HoneypotInv
<1>3. \A j \in TrapJobs : /\ IsFiniteSet(DOMAIN subs[j]) /\ DOMAIN subs[j] \subseteq TrapPeers
  BY <1>2, FS_AddElement DEF HoneypotInv
<1>4. \A j \in TrapJobs, h \in ResultHashes : <<j, peer, h>> \notin lies
  BY <1>1 DEF HoneypotInv, EveryLiarIsSlashed
<1>5. CASE hash = traps[job]
  <2>1. banned' = banned /\ slashes' = slashes /\ lies' = lies
    BY <1>5 DEF submit_result
  <2>2. EveryLiarIsSlashed'
    BY <2>1 DEF HoneypotInv, EveryLiarIsSlashed
  <2>3. \A j \in TrapJobs, p \in TrapPeers, h \in ResultHashes :
          <<j, p, h>> \in lies <=> p \in DOMAIN subs[j] /\ subs[j][p] = h /\ h # Expected[j]
    <3> HIDE DEF subs
    <3> TAKE j \in TrapJobs, p \in TrapPeers, h \in ResultHashes
    <3>1. CASE j = job /\ p = peer
      BY <3>1, <1>1, <1>2, <1>4, <1>5
    <3>2. CASE j # job \/ p # peer
      BY <3>2, <1>2 DEF HoneypotInv
    <3> QED
      BY <3>1, <3>2
  <2> HIDE DEF subs
  <2> QED
    BY <1>1, <1>2, <1>3, <2>1, <2>2, <2>3 DEF HoneypotInv
<1>6. CASE hash # traps[job]
  <2>1. lies' = lies \union {<<job, peer, hash>>}
    BY <1>6 DEF submit_result
  <2>2. \A j \in TrapJobs, p \in TrapPeers, h \in ResultHashes :
          <<j, p, h>> \in lies' <=> p \in DOMAIN subs[j] /\ subs[j][p] = h /\ h # Expected[j]
    <3> HIDE DEF subs
    <3> TAKE j \in TrapJobs, p \in TrapPeers, h \in ResultHashes
    <3>1. CASE j = job /\ p = peer
      BY <3>1, <1>1, <1>2, <1>4, <1>6, <2>1
    <3>2. CASE j # job \/ p # peer
      BY <3>2, <1>2, <2>1 DEF HoneypotInv
    <3> QED
      BY <3>1, <3>2
  <2>3. A = {p \in TrapPeers : <<job, p, hash>> \in lies'} /\ IsFiniteSet(A) /\ peer \in A
    <3> HIDE DEF subs
    <3>1. A \subseteq DOMAIN subs[job]
      BY DEF Agreeing
    <3>2. IsFiniteSet(A)
      BY <1>3, <3>1, FS_Subset
    <3>3. \A p \in TrapPeers : p \in A <=> <<job, p, hash>> \in lies'
      BY <2>2, <1>1, <1>6 DEF Agreeing
    <3> QED
      BY <3>1, <3>2, <3>3, <1>2, <1>3, <2>1 DEF Agreeing
  <2>4. detect_cartel(subs, job, hash) <=> \E q \in A : q # peer
    <3> HIDE DEF subs
    <3>1. detect_cartel(subs, job, hash) <=> Cardinality(A) >= 2
      BY <1>6 DEF detect_cartel
    <3>2. IsFiniteSet(A) /\ peer \in A
      BY <2>3
    <3> HIDE DEF A
    <3>3. Cardinality(A) >= 2 <=> \E y \in A : y # peer
      BY <3>2, TwoOrMore
    <3> QED
      BY <3>1, <3>3
  <2>5. PICK punished, kind :
          /\ kind = IF \E q \in A : q # peer THEN "cartel" ELSE "fake"
          /\ punished = IF \E q \in A : q # peer THEN A ELSE {peer}
          /\ slash(punished, kind, job)
    BY <2>4, <1>6 DEF submit_result
  <2> HIDE DEF subs, A
  <2>6. /\ banned' = banned \union punished
        /\ slashes' = slashes \union {[peer_id |-> p, reason |-> <<kind, job>>] : p \in punished}
        /\ peer \in punished /\ punished \subseteq A
    BY <2>5, <2>3 DEF slash
  <2>7. lies' \subseteq TrapJobs \X TrapPeers \X ResultHashes
    BY <2>1 DEF HoneypotInv
  <2>8. \A p \in A \ {peer} : p \in banned
    BY <2>1, <2>3 DEF HoneypotInv, EveryLiarIsSlashed
  <2>9. banned' = {l[2] : l \in lies'} /\ banned' = {s.peer_id : s \in slashes'}
    <3>1. banned' = banned \union {peer}
      BY <2>6, <2>8
    <3>2. {l[2] : l \in lies'} = {l[2] : l \in lies} \union {peer}
      <4>1. <<job, peer, hash>>[2] = peer
        OBVIOUS
      <4>2. \A x : x \in {l[2] : l \in lies'} <=> x \in {l[2] : l \in lies} \/ x = peer
        BY <2>1, <4>1
      <4> QED
        BY <4>2
    <3>3. {s.peer_id : s \in slashes'} = {s.peer_id : s \in slashes} \union punished
      <4> DEFINE new == {[peer_id |-> p, reason |-> <<kind, job>>] : p \in punished}
      <4>1. {s.peer_id : s \in new} = punished
        <5>1. ASSUME NEW p \in punished PROVE \E s \in new : s.peer_id = p
          <6>1. [peer_id |-> p, reason |-> <<kind, job>>] \in new
            OBVIOUS
          <6>2. [peer_id |-> p, reason |-> <<kind, job>>].peer_id = p
            OBVIOUS
          <6> HIDE DEF new
          <6> QED
            BY <6>1, <6>2
        <5>2. \A s \in new : s.peer_id \in punished
          OBVIOUS
        <5> HIDE DEF new
        <5> QED
          BY <5>1, <5>2
      <4>2. slashes' = slashes \union new
        BY <2>6
      <4> HIDE DEF new
      <4> QED
        BY <4>1, <4>2
    <3> QED
      BY <3>1, <3>2, <3>3, <2>6 DEF HoneypotInv, EveryLiarIsSlashed
  <2>10. ASSUME NEW p \in TrapPeers, NEW j \in TrapJobs
         PROVE  [peer_id |-> p, reason |-> <<"cartel", j>>] \in slashes'
                  <=> \E l, m \in lies' : l[1] = j /\ m[1] = j /\ l[3] = m[3]
                                          /\ l[2] = p /\ m[2] # p
    <3> DEFINE Old == [peer_id |-> p, reason |-> <<"cartel", j>>] \in slashes
               New == j = job /\ p \in A /\ \E q \in A : q # peer
    <3>1. [peer_id |-> p, reason |-> <<"cartel", j>>] \in slashes' <=> Old \/ New
      <4>1. [peer_id |-> p, reason |-> <<"cartel", j>>] \in
              {[peer_id |-> q, reason |-> <<kind, job>>] : q \in punished}
              <=> p \in punished /\ kind = "cartel" /\ j = job
        OBVIOUS
      <4> QED
        BY <4>1, <2>5, <2>6
    <3>2. Old <=> \E l, m \in lies : l[1] = j /\ m[1] = j /\ l[3] = m[3] /\ l[2] = p /\ m[2] # p
      BY DEF HoneypotInv, EveryLiarIsSlashed
    <3> HIDE DEF Old
    <3>3. ASSUME New
          PROVE  \E l, m \in lies' : l[1] = j /\ m[1] = j /\ l[3] = m[3] /\ l[2] = p /\ m[2] # p
      <4>1. PICK q \in A : q # p
        BY <3>3, <2>3
      <4>2. <<job, p, hash>> \in lies' /\ <<job, q, hash>> \in lies'
        BY <2>3, <3>3
      <4> QED
        BY <4>1, <4>2, <3>3
    <3>4. ASSUME NEW l \in lies', NEW m \in lies', l[1] = j, m[1] = j, l[3] = m[3],
                 l[2] = p, m[2] # p, ~New
          PROVE  l \in lies /\ m \in lies
      <4>1. l = <<j, p, l[3]>> /\ m = <<j, m[2], l[3]>> /\ m[2] \in TrapPeers
        BY <3>4, <2>7
      <4>2. CASE l = <<job, peer, hash>>
        <5>1. m[2] \in A /\ p = peer /\ j = job
          BY <4>1, <4>2, <2>3
        <5> QED
          BY <5>1, <3>4, <2>3
      <4>3. CASE m = <<job, peer, hash>>
        <5>1. p \in A /\ m[2] = peer /\ j = job
          BY <4>1, <4>3, <2>3
        <5> QED
          BY <5>1, <3>4, <2>3
      <4> QED
        BY <4>2, <4>3, <2>1
    <3> QED
      BY <3>1, <3>2, <3>3, <3>4, <2>1
  <2>11. EveryLiarIsSlashed'
    BY <2>9, <2>10 DEF EveryLiarIsSlashed
  <2> QED
    BY <1>1, <1>2, <1>3, <2>2, <2>7, <2>11 DEF HoneypotInv
<1> QED
  BY <1>5, <1>6

-----------------------------------------------------------------------------
(***************************************************************************)
(* What check_tensor_anomaly finds.  Dividing and rounding down, as the    *)
(* code does, finds what multiplying would; and where no number of a       *)
(* result is off a mean, the mean of the result is not off it either, so   *)
(* that the last check of the code adds nothing.                           *)
(***************************************************************************)

LEMMA MagnitudeIsNat == \A a \in Int : Magnitude(a) \in Nat /\ (Magnitude(a) = 0 <=> a = 0)
BY DEF Magnitude

\* Rounded down, a number between multiples stays between the factors.
LEMMA RoundedBetween ==
    ASSUME NEW n \in Nat, n >= 1, NEW x \in Int, NEW a \in Int, NEW b \in Int
    PROVE  /\ x \div n \in Int
           /\ n * a <= x => a <= x \div n
           /\ x <= n * b => x \div n <= b
           /\ x \div n >= a => n * a <= x
<1> DEFINE q == x \div n
           r == x % n
<1>1. q \in Int /\ r \in 0 .. n - 1 /\ x = n * q + r
  BY Division
<1> HIDE DEF q, r
<1>2. ASSUME n * a <= x PROVE a <= q
  <2> SUFFICES ASSUME a >= q + 1 PROVE FALSE
    BY <1>1
  <2>1. n * a >= n * (q + 1) /\ n * (q + 1) = n * q + n
    BY <1>1
  <2> QED
    BY <1>1, <1>2, <2>1
<1>3. ASSUME x <= n * b PROVE q <= b
  <2> SUFFICES ASSUME q >= b + 1 PROVE FALSE
    BY <1>1
  <2>1. n * q >= n * (b + 1) /\ n * (b + 1) = n * b + n
    BY <1>1
  <2> QED
    BY <1>1, <1>3, <2>1
<1>4. ASSUME q >= a PROVE n * a <= x
  <2>1. n * q >= n * a
    BY <1>1, <1>4
  <2> QED
    BY <1>1, <2>1
<1> QED
  BY <1>1, <1>2, <1>3, <1>4 DEF q

LEMMA AnomalousIsOff ==
    ASSUME NEW v \in Int, NEW m \in Int
    PROVE  is_statistical_anomaly(v, m) <=> OffTheMean(v, m)
<1>1. CASE m = 0
  BY <1>1 DEF is_statistical_anomaly, OffTheMean
<1>2. CASE m # 0
  <2> DEFINE d == Magnitude(m)
             x == Magnitude(v - m) * BpsScale
             c == ANOMALY_BPS_THRESHOLD + 1
  <2>1. d \in Nat /\ d >= 1 /\ x \in Int /\ c \in Int /\ ANOMALY_BPS_THRESHOLD \in Nat
    <3>1. v - m \in Int /\ BpsScale \in Nat /\ ANOMALY_BPS_THRESHOLD \in Nat
      BY QuarantineAssumption
    <3>2. Magnitude(v - m) \in Nat /\ d \in Nat /\ d # 0
      BY <1>2, <3>1, MagnitudeIsNat
    <3> QED
      BY <3>1, <3>2
  <2>2. is_statistical_anomaly(v, m) <=> x \div d > ANOMALY_BPS_THRESHOLD
    BY <1>2 DEF is_statistical_anomaly
  <2>3. OffTheMean(v, m) <=> x >= c * d
    BY <1>2 DEF OffTheMean
  <2> HIDE DEF d, x
  <2>4. x \div d \in Int /\ (d * c <= x => c <= x \div d) /\ (x \div d >= c => d * c <= x)
    BY <2>1, RoundedBetween
  <2>5. c * d = d * c
    BY <2>1
  <2> QED
    BY <2>1, <2>2, <2>3, <2>4, <2>5
<1> QED
  BY <1>1, <1>2

\* A number that lies no farther away is not off where the farther one is not.
LEMMA NearerIsNotOff ==
    ASSUME NEW v \in Int, NEW w \in Int, NEW m \in Int,
           Magnitude(v - m) <= Magnitude(w - m), ~OffTheMean(w, m)
    PROVE  ~OffTheMean(v, m)
<1> DEFINE a == Magnitude(v - m)
           b == Magnitude(w - m)
<1>1. a \in Nat /\ b \in Nat /\ a <= b /\ BpsScale \in Nat /\ v - m \in Int /\ w - m \in Int
  BY MagnitudeIsNat, QuarantineAssumption
<1>2. CASE m = 0
  <2>1. w = 0
    BY <1>2 DEF OffTheMean
  <2>2. b = 0 /\ a = 0
    BY <1>1, <1>2, <2>1, MagnitudeIsNat
  <2>3. v = 0
    BY <1>1, <1>2, <2>2, MagnitudeIsNat
  <2> QED
    BY <1>2, <2>3 DEF OffTheMean
<1>3. CASE m # 0
  <2> DEFINE c == (ANOMALY_BPS_THRESHOLD + 1) * Magnitude(m)
  <2>1. c \in Int
    BY MagnitudeIsNat, QuarantineAssumption
  <2>2. ~(b * BpsScale >= c) /\ (OffTheMean(v, m) <=> a * BpsScale >= c)
    BY <1>3 DEF OffTheMean
  <2> HIDE DEF a, b, c
  <2>3. a * BpsScale <= b * BpsScale
    BY <1>1
  <2>4. a * BpsScale \in Int /\ b * BpsScale \in Int
    BY <1>1
  <2> QED
    BY <2>1, <2>2, <2>3, <2>4
<1> QED
  BY <1>2, <1>3

\* A sum lies between as many times the least and the largest that is added.
LEMMA SumIsBetween ==
    ASSUME NEW s \in Seq(Int), NEW lo \in Int, NEW hi \in Int,
           \A i \in DOMAIN s : lo <= s[i] /\ s[i] <= hi
    PROVE  LET total == FoldLeft(+, 0, s)
           IN  total \in Int /\ Len(s) * lo <= total /\ total <= Len(s) * hi
<1> DEFINE n == Len(s)
           Rec(f) == [p \in SUBSET DOMAIN s |-> IF p = {} THEN 0 ELSE f[p \ {Max(p)}] + s[Max(p)]]
           iter == CHOOSE f : f = Rec(f)
           step == [w \in Int \X (1..n) |-> w[1] + s[w[2]]]
           G == {w \in Nat \X Int : w[1] * lo <= w[2] /\ w[2] <= w[1] * hi}
           g == [i \in 0..n |-> <<i, iter[1..i]>>]
<1>1. n \in Nat /\ DOMAIN s = 1..n /\ \A i \in 1..n : s[i] \in Int
  BY LenProperties, ElementOfSeq
<1>2. FoldLeft(+, 0, s) = iter[DOMAIN s]
  BY DEF FoldLeft, MapThenFoldSet
<1> HIDE DEF n
<1>3. step \in [Int \X (1..n) -> Int] /\ \A a \in Int, i \in 1..n : step[<<a, i>>] = a + s[i]
  BY <1>1
<1>4. \E f : f = Rec(f)
  <2> HIDE DEF step
  <2>1. PICK f : Folding(f, step, 0, n)
    BY <1>1, FoldingExists
  <2>2. ASSUME NEW p \in SUBSET (1..n), p # {}
        PROVE  f[p] = f[p \ {Max(p)}] + s[Max(p)]
    <3> DEFINE r == p \ {Max(p)}
    <3>1. n # 0
      <4>1. 1..0 = {}
        OBVIOUS
      <4> QED  BY <2>2, <4>1
    <3>2. r \in SUBSET (1..n) /\ Max(p) \in 1..n
      BY <1>1, <2>2, <3>1, WithoutTheLast
    <3> HIDE DEF r
    <3>3. f[r] \in Int
      <4> DEFINE X == Int
      <4>1. 0 \in X /\ step \in [X \X (1..n) -> X]
        BY <1>3
      <4> HIDE DEF X
      <4>2. f[r] \in X
        BY <1>1, <4>1, <2>1, <3>2, FoldingTyped
      <4> QED  BY <4>2 DEF X
    <3>4. f[p] = step[<<f[r], Max(p)>>]
      BY <2>1, <2>2 DEF Folding, r
    <3> QED  BY <1>3, <3>2, <3>3, <3>4 DEF r
  <2>3. f = Rec(f)
    <3>1. f = [p \in SUBSET (1..n) |-> IF p = {} THEN 0 ELSE step[<<f[p \ {Max(p)}], Max(p)>>]]
      BY <2>1 DEF Folding
    <3>2. f = [p \in SUBSET (1..n) |-> f[p]]
      BY <3>1
    <3>3. {} \in SUBSET (1..n) /\ f[{}] = 0
      BY <3>1
    <3> QED  BY <1>1, <2>2, <3>2, <3>3
  <2> QED  BY <2>3
<1>5. iter = [p \in SUBSET (1..n) |-> IF p = {} THEN 0 ELSE iter[p \ {Max(p)}] + s[Max(p)]]
  BY <1>1, <1>4
<1> HIDE DEF iter, step
<1>6. g[0] \in G
  <2>1. 1..0 = {} /\ {} \in SUBSET (1..n) /\ 0 \in 0..n
    BY <1>1
  <2>2. iter[1..0] = 0
    BY <1>5, <2>1
  <2> QED  BY <2>1, <2>2
<1>7. ASSUME NEW i \in 1..n, g[i - 1] \in G PROVE g[i] \in G
  <2>1. 1..i \in SUBSET (1..n) /\ 1..i # {} /\ i \in Nat /\ i # 0 /\ i \in 0..n /\ i - 1 \in 0..n
    <3>1. i \in Nat /\ i # 0 /\ i \in 1..i /\ i <= n /\ i - 1 \in Nat /\ i - 1 <= n
      BY <1>1
    <3> QED  BY <1>1, <3>1
  <2>2. Max(1..i) = i /\ (1..i) \ {i} = 1..(i - 1)
    BY <2>1, LastOfPlaces
  <2> DEFINE a == iter[1..(i - 1)]
             b == iter[1..i]
  <2>3. b = a + s[i]
    BY <1>5, <2>1, <2>2
  <2>4. g[i - 1] = <<i - 1, a>> /\ g[i] = <<i, b>>
    BY <2>1
  <2> HIDE DEF a, b, g
  <2>5. a \in Int /\ (i - 1) * lo <= a /\ a <= (i - 1) * hi
    BY <1>7, <2>4
  <2>6. s[i] \in Int /\ lo <= s[i] /\ s[i] <= hi
    BY <1>1
  <2>7. (i - 1) * lo = i * lo - lo /\ (i - 1) * hi = i * hi - hi
    BY <2>1
  <2>8. b \in Int /\ i * lo <= b /\ b <= i * hi
    BY <2>1, <2>3, <2>5, <2>6, <2>7
  <2> QED  BY <2>1, <2>4, <2>8
<1>8. n \in 0..n /\ g[n] = <<n, iter[1..n]>>
  BY <1>1
<1>9. g[n] \in G
  <2> HIDE DEF g, G
  <2> QED  BY <1>1, <1>6, <1>7, <1>8, StepByStep
<1> HIDE DEF g
<1>10. iter[1..n] \in Int /\ n * lo <= iter[1..n] /\ iter[1..n] <= n * hi
  BY <1>8, <1>9
<1> QED  BY <1>1, <1>2, <1>10 DEF n

\* So does the mean, rounded towards zero.
LEMMA MeanIsBetween ==
    ASSUME NEW s \in Seq(Int), s # << >>, NEW lo \in Int, NEW hi \in Int,
           \A i \in DOMAIN s : lo <= s[i] /\ s[i] <= hi
    PROVE  mean_i64(s) \in Int /\ lo <= mean_i64(s) /\ mean_i64(s) <= hi
<1> DEFINE n == Len(s)
           total == FoldLeft(+, 0, s)
           q == Magnitude(total) \div n
<1>1. n \in Nat /\ n >= 1
  BY LenProperties, EmptySeq
<1>2. total \in Int /\ n * lo <= total /\ total <= n * hi
  BY SumIsBetween
<1>3. mean_i64(s) = IF total < 0 THEN -q ELSE q
  BY DEF mean_i64
<1> HIDE DEF n, total
<1>4. CASE total < 0
  <2>1. Magnitude(total) = -total /\ -total \in Int
    BY <1>2, <1>4 DEF Magnitude
  <2>2. n * (-hi) <= -total /\ -total <= n * (-lo)
    <3>1. n * (-hi) = -(n * hi) /\ n * (-lo) = -(n * lo)
      BY <1>1
    <3>2. n * hi \in Int /\ n * lo \in Int
      BY <1>1
    <3> QED
      BY <1>2, <3>1, <3>2
  <2>3. -hi \in Int /\ -lo \in Int
    OBVIOUS
  <2>4. q \in Int /\ -hi <= q /\ q <= -lo
    BY <1>1, <2>1, <2>2, <2>3, RoundedBetween
  <2> HIDE DEF q
  <2> QED
    BY <1>3, <1>4, <2>4
<1>5. CASE ~(total < 0)
  <2>1. Magnitude(total) = total
    BY <1>2, <1>5 DEF Magnitude
  <2>2. q \in Int /\ lo <= q /\ q <= hi
    BY <1>1, <1>2, <2>1, RoundedBetween
  <2> HIDE DEF q
  <2> QED
    BY <1>3, <1>5, <2>2
<1> QED
  BY <1>4, <1>5

\* The number of a result that is farthest from a mean.
LEMMA FarthestExists ==
    ASSUME NEW s \in Seq(Int), s # << >>, NEW m \in Int
    PROVE  \E k \in DOMAIN s : \A i \in DOMAIN s : Magnitude(s[i] - m) <= Magnitude(s[k] - m)
<1> DEFINE n == Len(s)
           v == [i \in 1..n |-> Magnitude(s[i] - m)]
           S == {v[i] : i \in 1..n}
<1>1. n \in Nat /\ n >= 1 /\ DOMAIN s = 1..n /\ \A i \in 1..n : s[i] \in Int
  BY LenProperties, EmptySeq, ElementOfSeq
<1> HIDE DEF n
<1>2. \A i \in 1..n : v[i] \in Int
  <2> SUFFICES ASSUME NEW i \in 1..n PROVE v[i] \in Int
    OBVIOUS
  <2>1. s[i] - m \in Int
    BY <1>1
  <2>2. Magnitude(s[i] - m) \in Nat
    BY <2>1, MagnitudeIsNat
  <2>3. v[i] = Magnitude(s[i] - m)
    OBVIOUS
  <2> HIDE DEF v
  <2> QED
    BY <2>2, <2>3
<1>3. v \in [1..n -> Int]
  BY <1>2
<1> HIDE DEF v
<1>4. Max(S) \in S /\ \A x \in S : x <= Max(S)
  BY <1>1, <1>3, LargestOf
<1>5. PICK k \in 1..n : Max(S) = v[k]
  BY <1>4
<1>6. \A i \in 1..n : v[i] <= v[k]
  BY <1>4, <1>5
<1> QED
  BY <1>1, <1>6 DEF v

\* The mean of a reference is a number, also of one without numbers.
LEMMA MeanIsInt == ASSUME NEW s \in Seq(Int) PROVE mean_i64(s) \in Int
<1>1. CASE s = << >>
  <2> DEFINE total == FoldLeft(+, 0, s)
             q == Magnitude(total) \div Len(s)
  <2>1. mean_i64(s) = IF s = << >> THEN 0 ELSE IF total < 0 THEN -q ELSE q
    BY DEF mean_i64
  <2> HIDE DEF total, q
  <2> QED
    BY <1>1, <2>1
<1>2. CASE s # << >>
  <2>1. PICK k \in DOMAIN s : \A i \in DOMAIN s : Magnitude(s[i] - 0) <= Magnitude(s[k] - 0)
    BY <1>2, FarthestExists
  <2> DEFINE e == Magnitude(s[k] - 0)
  <2>2. \A i \in DOMAIN s : s[i] \in Int
    BY ElementOfSeq, LenProperties
  <2>3. e \in Int /\ -e \in Int /\ \A i \in DOMAIN s : -e <= s[i] /\ s[i] <= e
    BY <2>1, <2>2 DEF Magnitude
  <2> HIDE DEF e
  <2> QED
    BY <1>2, <2>3, MeanIsBetween
<1> QED
  BY <1>1, <1>2

\* The mean of a result is no farther from a mean than the farthest of its numbers.
LEMMA MeanIsNearer ==
    ASSUME NEW s \in Seq(Int), s # << >>, NEW m \in Int,
           \A k \in DOMAIN s : ~OffTheMean(s[k], m)
    PROVE  ~OffTheMean(mean_i64(s), m)
<1>1. PICK k \in DOMAIN s : \A i \in DOMAIN s : Magnitude(s[i] - m) <= Magnitude(s[k] - m)
  BY FarthestExists
<1>2. \A i \in DOMAIN s : s[i] \in Int
  BY ElementOfSeq, LenProperties
<1> DEFINE e == Magnitude(s[k] - m)
<1>3. e \in Nat
  <2>1. s[k] - m \in Int
    BY <1>2
  <2> QED
    BY <2>1, MagnitudeIsNat
<1>4. \A i \in DOMAIN s : m - e <= s[i] /\ s[i] <= m + e
  <2> SUFFICES ASSUME NEW i \in DOMAIN s PROVE m - e <= s[i] /\ s[i] <= m + e
    OBVIOUS
  <2>1. s[i] \in Int /\ Magnitude(s[i] - m) <= e
    BY <1>1, <1>2
  <2> HIDE DEF e
  <2> QED
    BY <1>3, <2>1 DEF Magnitude
<1> HIDE DEF e
<1>5. mean_i64(s) \in Int /\ m - e <= mean_i64(s) /\ mean_i64(s) <= m + e
  <2>1. m - e \in Int /\ m + e \in Int
    BY <1>3
  <2> QED
    BY <1>4, <2>1, MeanIsBetween
<1>6. Magnitude(mean_i64(s) - m) <= e
  BY <1>3, <1>5 DEF Magnitude
<1> QED
  BY <1>2, <1>5, <1>6, NearerIsNotOff DEF e

\* The check finds exactly the results of another shape and those with a number
\* off the mean of the reference.
LEMMA AnomaliesAreWrong ==
    ASSUME NEW t \in Tensors, NEW ref \in References
    PROVE  check_tensor_anomaly(t, ref) <=> Wrong(t, ref)
<1> DEFINE m == mean_i64(ref)
<1>1. t \in Seq(Int) /\ ref \in Seq(Int)
  BY QuarantineAssumption
<1>2. m \in Int /\ \A k \in DOMAIN t : t[k] \in Int
  BY <1>1, MeanIsInt, ElementOfSeq, LenProperties
<1> HIDE DEF m
<1>3. \A k \in DOMAIN t : is_statistical_anomaly(t[k], m) <=> OffTheMean(t[k], m)
  BY <1>2, AnomalousIsOff
<1>4. t # << >> => (is_statistical_anomaly(mean_i64(t), m) => \E k \in DOMAIN t : OffTheMean(t[k], m))
  <2>1. mean_i64(t) \in Int
    BY <1>1, MeanIsInt
  <2>2. is_statistical_anomaly(mean_i64(t), m) <=> OffTheMean(mean_i64(t), m)
    BY <1>2, <2>1, AnomalousIsOff
  <2> QED
    BY <1>1, <1>2, <2>2, MeanIsNearer
<1> QED
  BY <1>3, <1>4 DEF check_tensor_anomaly, Wrong, m

-----------------------------------------------------------------------------
(***************************************************************************)
(* Quarantine.  The wrong results of a node since it was last found        *)
(* healthy decide its record: how many strikes it has, and for a node in   *)
(* quarantine how much of the diagnostic is behind it.                     *)
(***************************************************************************)

Words == {"wrong", "tick", "time", "failed"}

\* The diagnostic of a node in quarantine: so many ticks, or a span of time.
OnDiagnostic(n) ==
    IF TestMode
      THEN /\ nodes[n].ticks \in 1 .. TEST_DIAGNOSTIC_TICKS /\ nodes[n].until = Absent
           /\ Times(n, "tick") = TEST_DIAGNOSTIC_TICKS - nodes[n].ticks
      ELSE /\ nodes[n].ticks = 0
           /\ nodes[n].until \in Nat /\ nodes[n].until <= clock + DiagnosticDuration
           /\ Times(n, "time") >= clock + DiagnosticDuration - nodes[n].until

RecordFollows(n) ==
    /\ reports[n] \in Seq(Words)
    /\ \/ /\ nodes[n].health \in {"Healthy", "Warned"}
          /\ nodes[n].strikes \in 0 .. STRIKE_THRESHOLD - 1
          /\ Times(n, "wrong") = nodes[n].strikes
          /\ Times(n, "tick") = 0 /\ Times(n, "time") = 0 /\ Times(n, "failed") = 0
       \/ /\ nodes[n].health = "Quarantined"
          /\ Times(n, "wrong") >= STRIKE_THRESHOLD /\ Times(n, "failed") = 0
          /\ OnDiagnostic(n)
       \/ /\ nodes[n].health = "Banned"
          /\ Times(n, "wrong") >= STRIKE_THRESHOLD

NodeRecord == [health : {"Healthy", "Warned", "Quarantined", "Banned"},
               strikes : Nat, until : Int, ticks : Nat]

QuarantineInv ==
    /\ nodes \in [Watched -> NodeRecord] /\ clock \in Nat /\ DOMAIN reports = Watched
    /\ \A n \in Watched : RecordFollows(n)

LEMMA DiagnosticLimits ==
    /\ STRIKE_THRESHOLD \in Nat \ {0} /\ TEST_DIAGNOSTIC_TICKS \in Nat \ {0}
    /\ DiagnosticDuration \in Nat \ {0} /\ TestMode \in BOOLEAN
BY QuarantineAssumption

\* How often a word is among the reports, for any list of them.
Occurs(s, w) == Cardinality({k \in DOMAIN s : s[k] = w})

LEMMA OccursAfter ==
    ASSUME NEW s \in Seq(Words), NEW x \in Words, NEW w
    PROVE  /\ Occurs(s, w) \in Nat
           /\ Append(s, x) \in Seq(Words)
           /\ Occurs(Append(s, x), w) = Occurs(s, w) + (IF x = w THEN 1 ELSE 0)
<1> DEFINE n == Len(s)
           t == Append(s, x)
           earlier == {k \in DOMAIN s : s[k] = w}
           later == {k \in DOMAIN t : t[k] = w}
<1>1. n \in Nat /\ DOMAIN s = 1 .. n
  BY LenProperties
<1>2. /\ t \in Seq(Words) /\ DOMAIN t = 1 .. n + 1
      /\ t[n + 1] = x /\ \A k \in 1 .. n : t[k] = s[k]
  BY AppendProperties, LenProperties
<1>3. earlier \subseteq 1 .. n /\ later = IF x = w THEN earlier \union {n + 1} ELSE earlier
  <2> HIDE DEF n, t
  <2>1. \A k \in 1 .. n + 1 : k \in 1 .. n \/ k = n + 1
    BY <1>1
  <2>2. n + 1 \notin 1 .. n /\ 1 .. n \subseteq 1 .. n + 1 /\ n + 1 \in 1 .. n + 1
    BY <1>1
  <2> QED
    BY <2>1, <2>2, <1>1, <1>2
<1> HIDE DEF n, t, earlier, later
<1>4. IsFiniteSet(earlier) /\ n + 1 \notin earlier
  <2>1. IsFiniteSet(1 .. n)
    BY <1>1, FS_Interval
  <2>2. IsFiniteSet(earlier)
    BY <2>1, <1>3, FS_Subset
  <2>3. n + 1 \notin earlier
    BY <1>1, <1>3
  <2> QED
    BY <2>2, <2>3
<1>5. Cardinality(earlier) \in Nat /\ Cardinality(earlier \union {n + 1}) = Cardinality(earlier) + 1
  BY <1>4, FS_CardinalityType, FS_AddElement
<1>6. Cardinality(later) = Cardinality(earlier) + (IF x = w THEN 1 ELSE 0)
  BY <1>3, <1>5
<1> QED
  BY <1>2, <1>5, <1>6 DEF Occurs, earlier, later, t

LEMMA OccursInNone == \A w : Occurs(<< >>, w) = 0
<1>1. \A w : {k \in DOMAIN << >> : << >>[k] = w} = {}
  OBVIOUS
<1> QED
  BY <1>1, FS_EmptySet DEF Occurs

LEMMA TimesOccur == \A n : \A w : Times(n, w) = Occurs(reports[n], w)
BY DEF Times, Occurs

LEMMA QuarantineStarts == QuarantineInit => QuarantineInv
<1> SUFFICES ASSUME QuarantineInit PROVE QuarantineInv
  OBVIOUS
<1>1. ASSUME NEW n \in Watched PROVE RecordFollows(n)
  <2>1. nodes[n] = Healthy /\ reports[n] = << >>
    BY DEF QuarantineInit
  <2>2. \A w : Times(n, w) = 0
    BY <2>1, TimesOccur, OccursInNone
  <2> QED
    BY <2>1, <2>2, DiagnosticLimits, EmptySeq DEF RecordFollows, Healthy
<1> QED
  BY <1>1 DEF QuarantineInit, QuarantineInv, Healthy, NodeRecord, Absent

\* What is not touched follows as before.
LEMMA OthersFollow ==
    ASSUME NEW n, RecordFollows(n), nodes'[n] = nodes[n], reports'[n] = reports[n], clock' = clock
    PROVE  RecordFollows(n)'
<1>1. \A w : Times(n, w)' = Times(n, w)
  BY DEF Times
<1> QED
  BY <1>1 DEF RecordFollows, OnDiagnostic

LEMMA StrikeFollows ==
    ASSUME QuarantineInv, NEW n \in Watched, record_strike(n),
           reports' = [reports EXCEPT ![n] = Append(@, "wrong")]
    PROVE  QuarantineInv'
<1> DEFINE strikes == nodes[n].strikes + 1
<1>1. /\ nodes \in [Watched -> NodeRecord] /\ clock' = clock /\ clock \in Nat
      /\ DOMAIN reports = Watched /\ RecordFollows(n)
      /\ nodes[n].health \in {"Healthy", "Warned"} /\ nodes[n].strikes \in 0 .. STRIKE_THRESHOLD - 1
  BY DEF QuarantineInv, RecordFollows, record_strike, is_eligible_for_work
<1>2. /\ reports' = [reports EXCEPT ![n] = Append(@, "wrong")]
      /\ nodes'[n] = IF strikes < STRIKE_THRESHOLD
                       THEN [nodes[n] EXCEPT !.health = "Warned", !.strikes = strikes]
                       ELSE [health |-> "Quarantined", strikes |-> strikes,
                             until |-> IF TestMode THEN Absent ELSE clock + DiagnosticDuration,
                             ticks |-> IF TestMode THEN TEST_DIAGNOSTIC_TICKS ELSE 0]
      /\ \A m \in Watched \ {n} : nodes'[m] = nodes[m] /\ reports'[m] = reports[m]
      /\ DOMAIN nodes' = Watched /\ DOMAIN reports' = Watched
      /\ nodes' = [m \in Watched |-> nodes'[m]]
  BY <1>1 DEF record_strike
<1>3. strikes \in Nat /\ nodes'[n] \in NodeRecord
  <2>1. strikes \in Nat /\ nodes[n] \in NodeRecord
    BY <1>1, DiagnosticLimits
  <2>2. [nodes[n] EXCEPT !.health = "Warned", !.strikes = strikes] \in NodeRecord
    BY <2>1 DEF NodeRecord
  <2>3. /\ (IF TestMode THEN Absent ELSE clock + DiagnosticDuration) \in Int
        /\ (IF TestMode THEN TEST_DIAGNOSTIC_TICKS ELSE 0) \in Nat
    BY <1>1, DiagnosticLimits DEF Absent
  <2> QED
    BY <1>2, <2>1, <2>2, <2>3 DEF NodeRecord
<1>4. nodes' \in [Watched -> NodeRecord]
  BY <1>1, <1>2, <1>3
<1>5. /\ reports'[n] \in Seq(Words)
      /\ Times(n, "wrong")' = nodes[n].strikes + 1
      /\ Times(n, "tick")' = 0 /\ Times(n, "time")' = 0 /\ Times(n, "failed")' = 0
  <2>1. /\ reports[n] \in Seq(Words) /\ Times(n, "wrong") = nodes[n].strikes
        /\ Times(n, "tick") = 0 /\ Times(n, "time") = 0 /\ Times(n, "failed") = 0
    BY <1>1 DEF RecordFollows
  <2>2. reports'[n] = Append(reports[n], "wrong")
    BY <1>1, <1>2
  <2>3. \A w : Times(n, w)' = Occurs(reports'[n], w)
    BY DEF Times, Occurs
  <2>4. "wrong" \in Words
    BY DEF Words
  <2>5. /\ Append(reports[n], "wrong") \in Seq(Words)
        /\ \A w : Occurs(Append(reports[n], "wrong"), w)
                    = Occurs(reports[n], w) + (IF "wrong" = w THEN 1 ELSE 0)
    BY <2>1, <2>4, OccursAfter
  <2> QED
    BY <2>1, <2>2, <2>3, <2>5, TimesOccur
<1>6. RecordFollows(n)'
  <2>1. CASE strikes < STRIKE_THRESHOLD
    <3>1. nodes'[n].health = "Warned" /\ nodes'[n].strikes = strikes
      BY <2>1, <1>1, <1>2 DEF NodeRecord
    <3> QED
      BY <2>1, <3>1, <1>1, <1>3, <1>5, DiagnosticLimits DEF RecordFollows
  <2>2. CASE ~(strikes < STRIKE_THRESHOLD)
    <3>1. OnDiagnostic(n)'
      BY <2>2, <1>1, <1>2, <1>5, DiagnosticLimits DEF OnDiagnostic
    <3> QED
      BY <2>2, <3>1, <1>1, <1>2, <1>3, <1>5, DiagnosticLimits DEF RecordFollows
  <2> QED
    BY <2>1, <2>2
<1>7. \A m \in Watched \ {n} : RecordFollows(m)'
  BY <1>1, <1>2, OthersFollow DEF QuarantineInv
<1> QED
  BY <1>1, <1>2, <1>4, <1>6, <1>7 DEF QuarantineInv

\* A node that is found healthy starts anew.
LEMMA HealthyFollows ==
    ASSUME QuarantineInv, NEW n \in Watched, clock' = clock,
           nodes' = [nodes EXCEPT ![n] = Healthy], reports' = [reports EXCEPT ![n] = << >>]
    PROVE  QuarantineInv'
<1>1. /\ nodes \in [Watched -> NodeRecord] /\ DOMAIN reports = Watched
      /\ nodes' \in [Watched -> NodeRecord] /\ DOMAIN reports' = Watched
      /\ nodes'[n] = Healthy /\ reports'[n] = << >>
      /\ \A m \in Watched \ {n} : nodes'[m] = nodes[m] /\ reports'[m] = reports[m]
  BY DEF QuarantineInv, Healthy, NodeRecord, Absent
<1>2. RecordFollows(n)'
  <2>1. \A w : Times(n, w)' = Occurs(reports'[n], w)
    BY DEF Times, Occurs
  <2>2. \A w : Times(n, w)' = 0
    BY <1>1, <2>1, OccursInNone
  <2> QED
    BY <1>1, <2>2, DiagnosticLimits, EmptySeq DEF RecordFollows, Healthy
<1> QED
  BY <1>1, <1>2, OthersFollow DEF QuarantineInv

LEMMA DiagnosticFollows ==
    ASSUME QuarantineInv, NEW n \in Watched, NEW passed \in BOOLEAN, tick_diagnostic(n, passed)
    PROVE  QuarantineInv'
<1>1. /\ nodes \in [Watched -> NodeRecord] /\ clock' = clock /\ clock \in Nat
      /\ DOMAIN reports = Watched /\ nodes[n].health = "Quarantined"
      /\ reports[n] \in Seq(Words)
      /\ Times(n, "wrong") >= STRIKE_THRESHOLD /\ Times(n, "failed") = 0 /\ OnDiagnostic(n)
  BY DEF QuarantineInv, RecordFollows, tick_diagnostic
<1>2. \A w : Times(n, w)' = Occurs(reports'[n], w)
  BY DEF Times, Occurs
<1>3. CASE nodes[n].ticks > 1
  <2>1. /\ nodes' = [nodes EXCEPT ![n].ticks = @ - 1]
        /\ reports' = [reports EXCEPT ![n] = Append(@, "tick")]
    BY <1>3 DEF tick_diagnostic
  <2>2. TestMode /\ nodes[n].ticks \in 1 .. TEST_DIAGNOSTIC_TICKS /\ nodes[n].until = Absent
        /\ Times(n, "tick") = TEST_DIAGNOSTIC_TICKS - nodes[n].ticks
    BY <1>1, <1>3 DEF OnDiagnostic
  <2>3. /\ nodes'[n] = [nodes[n] EXCEPT !.ticks = @ - 1] /\ nodes'[n] \in NodeRecord
        /\ nodes'[n].ticks = nodes[n].ticks - 1 /\ nodes'[n].until = Absent
        /\ nodes'[n].health = "Quarantined"
    <3>1. nodes[n] \in NodeRecord /\ nodes'[n] = [nodes[n] EXCEPT !.ticks = @ - 1]
      BY <1>1, <2>1
    <3>2. nodes[n].ticks - 1 \in Nat
      BY <2>2, DiagnosticLimits
    <3> QED
      BY <3>1, <3>2, <1>1, <2>2 DEF NodeRecord
  <2>4. /\ nodes' \in [Watched -> NodeRecord] /\ DOMAIN reports' = Watched
        /\ reports'[n] = Append(reports[n], "tick")
        /\ \A m \in Watched \ {n} : nodes'[m] = nodes[m] /\ reports'[m] = reports[m]
    BY <1>1, <2>1, <2>3
  <2>5. "tick" \in Words
    BY DEF Words
  <2>6. /\ reports'[n] \in Seq(Words)
        /\ \A w : Times(n, w)' = Times(n, w) + (IF "tick" = w THEN 1 ELSE 0)
    BY <1>1, <1>2, <2>4, <2>5, OccursAfter, TimesOccur
  <2>7. OnDiagnostic(n)'
    <3>1. Times(n, "tick")' = Times(n, "tick") + 1
      BY <2>6
    <3> QED
      BY <3>1, <2>2, <2>3, <1>3, DiagnosticLimits DEF OnDiagnostic
  <2>8. RecordFollows(n)'
    <3>1. Times(n, "wrong")' = Times(n, "wrong") + 0 /\ Times(n, "failed")' = Times(n, "failed") + 0
      BY <2>6
    <3>2. Times(n, "wrong") \in Nat
      BY <1>1, <2>5, OccursAfter, TimesOccur
    <3> QED
      BY <1>1, <2>3, <2>6, <2>7, <3>1, <3>2, DiagnosticLimits DEF RecordFollows
  <2> QED
    BY <1>1, <2>4, <2>8, OthersFollow DEF QuarantineInv
<1>4. CASE ~(nodes[n].ticks > 1) /\ passed
  BY <1>1, <1>4, HealthyFollows DEF tick_diagnostic, finish_diagnostic
<1>5. CASE ~(nodes[n].ticks > 1) /\ ~passed
  <2>1. /\ nodes' = [nodes EXCEPT ![n] = [@ EXCEPT !.health = "Banned", !.until = Absent, !.ticks = 0]]
        /\ reports' = [reports EXCEPT ![n] = Append(@, "failed")]
    BY <1>5 DEF tick_diagnostic, finish_diagnostic
  <2>2. /\ nodes'[n].health = "Banned" /\ nodes'[n] \in NodeRecord
    <3>1. nodes[n] \in NodeRecord
          /\ nodes'[n] = [nodes[n] EXCEPT !.health = "Banned", !.until = Absent, !.ticks = 0]
      BY <1>1, <2>1
    <3>2. Absent \in Int
      BY DEF Absent
    <3>3. nodes'[n] = [health |-> "Banned", strikes |-> nodes[n].strikes, until |-> Absent, ticks |-> 0]
      BY <3>1 DEF NodeRecord
    <3>4. nodes[n].strikes \in Nat
      BY <3>1 DEF NodeRecord
    <3> QED
      BY <3>2, <3>3, <3>4 DEF NodeRecord
  <2>3. /\ nodes' \in [Watched -> NodeRecord] /\ DOMAIN reports' = Watched
        /\ reports'[n] = Append(reports[n], "failed")
        /\ \A m \in Watched \ {n} : nodes'[m] = nodes[m] /\ reports'[m] = reports[m]
    BY <1>1, <2>1, <2>2
  <2>4. "failed" \in Words
    BY DEF Words
  <2>5. /\ reports'[n] \in Seq(Words)
        /\ \A w : Times(n, w)' = Times(n, w) + (IF "failed" = w THEN 1 ELSE 0)
        /\ Times(n, "wrong") \in Nat
    BY <1>1, <1>2, <2>3, <2>4, OccursAfter, TimesOccur
  <2>6. RecordFollows(n)'
    <3>1. Times(n, "wrong")' = Times(n, "wrong") + 0
      BY <2>5
    <3> QED
      BY <1>1, <2>2, <2>5, <3>1, DiagnosticLimits DEF RecordFollows
  <2> QED
    BY <1>1, <2>3, <2>6, OthersFollow DEF QuarantineInv
<1> QED
  BY <1>3, <1>4, <1>5

LEMMA ClockFollows == ASSUME QuarantineInv, ClockTicks PROVE QuarantineInv'
<1>1. /\ nodes' = nodes /\ clock \in Nat /\ clock' = clock + 1 /\ DOMAIN reports' = Watched
      /\ \A n \in Watched : reports'[n] = IF nodes[n].health = "Quarantined"
                                            THEN Append(reports[n], "time") ELSE reports[n]
  BY DEF QuarantineInv, ClockTicks
<1>2. ASSUME NEW n \in Watched PROVE RecordFollows(n)'
  <2>1. RecordFollows(n)
    BY DEF QuarantineInv
  <2>2. \A w : Times(n, w)' = Occurs(reports'[n], w)
    BY DEF Times, Occurs
  <2>3. CASE nodes[n].health # "Quarantined"
    <3>1. \A w : Times(n, w)' = Times(n, w)
      BY <2>2, <2>3, <1>1, TimesOccur
    <3> QED
      BY <2>1, <2>3, <3>1, <1>1 DEF RecordFollows
  <2>4. CASE nodes[n].health = "Quarantined"
    <3>1. "time" \in Words /\ reports[n] \in Seq(Words)
      BY <2>1 DEF Words, RecordFollows
    <3>2. /\ reports'[n] \in Seq(Words)
          /\ \A w : Times(n, w)' = Times(n, w) + (IF "time" = w THEN 1 ELSE 0) /\ Times(n, w) \in Nat
      <4>1. reports'[n] = Append(reports[n], "time")
        BY <1>1, <2>4
      <4>2. /\ Append(reports[n], "time") \in Seq(Words)
            /\ \A w : /\ Occurs(Append(reports[n], "time"), w)
                            = Occurs(reports[n], w) + (IF "time" = w THEN 1 ELSE 0)
                      /\ Occurs(reports[n], w) \in Nat
        BY <3>1, OccursAfter
      <4> QED
        BY <4>1, <4>2, <2>2, TimesOccur
    <3>3. /\ Times(n, "wrong")' = Times(n, "wrong") /\ Times(n, "failed")' = Times(n, "failed")
          /\ Times(n, "tick")' = Times(n, "tick") /\ Times(n, "time")' = Times(n, "time") + 1
          /\ Times(n, "time") \in Nat
      BY <3>2
    <3>4. OnDiagnostic(n)
      BY <2>1, <2>4 DEF RecordFollows
    <3>5. OnDiagnostic(n)'
      <4>1. nodes'[n] = nodes[n] /\ clock' = clock + 1 /\ clock \in Nat
        BY <1>1
      <4> QED
        BY <3>3, <3>4, <4>1, DiagnosticLimits DEF OnDiagnostic
    <3> QED
      BY <2>1, <2>4, <3>2, <3>3, <3>5, <1>1 DEF RecordFollows
  <2> QED
    BY <2>3, <2>4
<1> QED
  BY <1>1, <1>2 DEF QuarantineInv

LEMMA QuarantineKeeps == ASSUME QuarantineInv, QuarantineNext PROVE QuarantineInv'
<1>1. ASSUME NEW n \in Watched, NEW t \in Tensors, NEW ref \in References, Report(n, t, ref)
      PROVE  QuarantineInv'
  <2>1. check_tensor_anomaly(t, ref) <=> Wrong(t, ref)
    BY AnomaliesAreWrong
  <2>2. CASE Wrong(t, ref)
    BY <1>1, <2>1, <2>2, StrikeFollows DEF Report
  <2>3. CASE ~Wrong(t, ref)
    BY <1>1, <2>1, <2>3, HealthyFollows DEF Report, record_clean
  <2> QED
    BY <2>2, <2>3
<1> QED
  BY <1>1, DiagnosticFollows, ClockFollows DEF QuarantineNext

-----------------------------------------------------------------------------
\* Hundredths of a whole grow with the part.
LEMMA Hundredths ==
    ASSUME NEW d \in Nat \ {0}, NEW a \in 0 .. d, NEW b \in a .. d
    PROVE  /\ (a * 100) \div d \in 0 .. 100 /\ (b * 100) \div d \in (a * 100) \div d .. 100
           /\ a = d => (a * 100) \div d = 100
OBVIOUS

\* What a step may do to the record of a node.
Moves(n) ==
    \/ nodes'[n] = nodes[n] /\ clock' \in {clock, clock + 1}
    \/ is_eligible_for_work(n)
    \/ \E passed \in BOOLEAN : tick_diagnostic(n, passed)

LEMMA StepsMove ==
    ASSUME QuarantineInv, QuarantineNext \/ UNCHANGED quarantineVars, NEW n \in Watched
    PROVE  Moves(n)
<1>1. nodes \in [Watched -> NodeRecord]
  BY DEF QuarantineInv
<1>2. ASSUME NEW m \in Watched, NEW t \in Tensors, NEW ref \in References, Report(m, t, ref)
      PROVE  Moves(n)
  <2>1. is_eligible_for_work(m) /\ clock' = clock /\ \A p \in Watched \ {m} : nodes'[p] = nodes[p]
    BY <1>1, <1>2 DEF Report, record_strike, record_clean
  <2> QED
    BY <2>1 DEF Moves
<1>3. ASSUME NEW m \in Watched, NEW passed \in BOOLEAN, tick_diagnostic(m, passed) PROVE Moves(n)
  <2>1. clock' = clock /\ \A p \in Watched \ {m} : nodes'[p] = nodes[p]
    BY <1>1, <1>3 DEF tick_diagnostic, finish_diagnostic
  <2> QED
    BY <1>3, <2>1 DEF Moves
<1>4. CASE ClockTicks \/ UNCHANGED quarantineVars
  BY <1>4 DEF ClockTicks, quarantineVars, Moves
<1> QED
  BY <1>2, <1>3, <1>4 DEF QuarantineNext

LEMMA OutForCause ==
    ASSUME QuarantineInv, \A n \in Watched : Moves(n)
    PROVE  OutOfWorkForCause
<1> SUFFICES ASSUME NEW n \in Watched
             PROVE  /\ is_eligible_for_work(n) <=> Times(n, "wrong") < STRIKE_THRESHOLD
                    /\ is_eligible_for_work(n)' /\ ~is_eligible_for_work(n) =>
                          FullDiagnostic(n) /\ Times(n, "failed") = 0
  BY DEF OutOfWorkForCause
<1>1. RecordFollows(n) /\ Times(n, "wrong") \in Nat /\ clock \in Nat
  <2>1. "wrong" \in Words
    BY DEF Words
  <2>2. RecordFollows(n) /\ clock \in Nat
    BY DEF QuarantineInv
  <2>3. reports[n] \in Seq(Words)
    BY <2>2 DEF RecordFollows
  <2> QED
    BY <2>1, <2>2, <2>3, OccursAfter, TimesOccur
<1>2. is_eligible_for_work(n) <=> Times(n, "wrong") < STRIKE_THRESHOLD
  BY <1>1, DiagnosticLimits DEF RecordFollows, is_eligible_for_work
<1>3. ASSUME is_eligible_for_work(n)', ~is_eligible_for_work(n)
      PROVE  FullDiagnostic(n) /\ Times(n, "failed") = 0
  <2>1. PICK passed \in BOOLEAN : tick_diagnostic(n, passed)
    BY <1>3 DEF Moves, is_eligible_for_work
  <2>2. Times(n, "failed") = 0 /\ OnDiagnostic(n)
    BY <1>1, <2>1 DEF RecordFollows, tick_diagnostic
  <2>3. ~(nodes[n].ticks > 1)
    <3> SUFFICES ASSUME nodes[n].ticks > 1 PROVE FALSE
      OBVIOUS
    <3>1. nodes' = [nodes EXCEPT ![n].ticks = @ - 1] /\ nodes[n].health = "Quarantined"
      BY <2>1 DEF tick_diagnostic
    <3>2. nodes'[n].health = "Quarantined"
      BY <3>1 DEF QuarantineInv, NodeRecord
    <3> QED
      BY <1>3, <3>2 DEF is_eligible_for_work
  <2>4. nodes[n].ticks = 1 \/ (nodes[n].until # Absent /\ clock >= nodes[n].until)
    BY <2>1, <2>3 DEF tick_diagnostic
  <2>5. CASE TestMode
    BY <2>2, <2>4, <2>5, DiagnosticLimits DEF OnDiagnostic, FullDiagnostic
  <2>6. CASE ~TestMode
    <3>1. Times(n, "time") \in Nat
      <4>1. "time" \in Words /\ reports[n] \in Seq(Words)
        BY <1>1 DEF Words, RecordFollows
      <4> QED
        BY <4>1, OccursAfter, TimesOccur
    <3> QED
      BY <2>2, <2>4, <2>6, <3>1, <1>1, DiagnosticLimits DEF OnDiagnostic, FullDiagnostic
  <2> QED
    BY <2>2, <2>5, <2>6
<1> QED
  BY <1>2, <1>3

\* After the last tick a node is no longer in quarantine.
LEMMA LastTickEnds ==
    ASSUME nodes \in [Watched -> NodeRecord], NEW n \in Watched, NEW passed \in BOOLEAN,
           tick_diagnostic(n, passed), ~(nodes[n].ticks > 1)
    PROVE  nodes'[n].health # "Quarantined"
<1>1. CASE passed
  <2>1. nodes'[n] = Healthy
    BY <1>1 DEF tick_diagnostic, finish_diagnostic
  <2> QED
    BY <2>1 DEF Healthy
<1>2. CASE ~passed
  <2>1. nodes'[n] = [nodes[n] EXCEPT !.health = "Banned", !.until = Absent, !.ticks = 0]
    BY <1>2 DEF tick_diagnostic, finish_diagnostic
  <2>2. nodes[n] \in NodeRecord
    OBVIOUS
  <2>3. nodes'[n].health = "Banned"
    BY <2>1, <2>2 DEF NodeRecord
  <2> QED
    BY <2>3
<1> QED
  BY <1>1, <1>2

\* How much of the diagnostic is left.
Left(n) == IF nodes[n].until > clock THEN nodes[n].until - clock ELSE 0

LEMMA ProgressRuns ==
    ASSUME QuarantineInv, QuarantineInv', \A n \in Watched : Moves(n)
    PROVE  ProgressIsTrue
<1> SUFFICES ASSUME NEW n \in Watched, diagnostic_progress_pct(n) # Absent
             PROVE  /\ diagnostic_progress_pct(n)' \in {Absent} \union diagnostic_progress_pct(n)..100
                    /\ diagnostic_progress_pct(n)' = Absent /\ ~TestMode =>
                          diagnostic_progress_pct(n) = 100
  BY DEF ProgressIsTrue
<1>1. nodes[n].health = "Quarantined"
  BY DEF diagnostic_progress_pct
<1>2. OnDiagnostic(n) /\ clock \in Nat /\ nodes \in [Watched -> NodeRecord]
  BY <1>1 DEF QuarantineInv, RecordFollows
<1>3. nodes'[n].health = "Quarantined" => OnDiagnostic(n)'
  BY DEF QuarantineInv, RecordFollows
<1>4. nodes'[n].health # "Quarantined" => diagnostic_progress_pct(n)' = Absent
  BY DEF diagnostic_progress_pct
<1>5. \/ nodes'[n] = nodes[n] /\ clock' \in {clock, clock + 1}
      \/ \E passed \in BOOLEAN : tick_diagnostic(n, passed)
  BY <1>1 DEF Moves, is_eligible_for_work
<1>6. CASE TestMode
  <2> DEFINE d == TEST_DIAGNOSTIC_TICKS
             a == d - nodes[n].ticks
             b == d - nodes'[n].ticks
  <2>1. d \in Nat \ {0} /\ a \in 0 .. d /\ diagnostic_progress_pct(n) = (a * 100) \div d
    BY <1>1, <1>2, <1>6, DiagnosticLimits DEF OnDiagnostic, diagnostic_progress_pct
  <2>2. CASE nodes'[n].health = "Quarantined"
    <3>1. b \in 0 .. d /\ diagnostic_progress_pct(n)' = (b * 100) \div d
      BY <1>3, <1>6, <2>2, DiagnosticLimits DEF OnDiagnostic, diagnostic_progress_pct
    <3>2. b >= a
      <4>1. CASE nodes'[n] = nodes[n]
        BY <4>1, <2>1
      <4>2. ASSUME NEW passed \in BOOLEAN, tick_diagnostic(n, passed) PROVE b >= a
        <5>1. nodes[n].ticks \in Nat
          BY <1>2 DEF NodeRecord
        <5>2. nodes[n].ticks > 1
          BY <4>2, <2>2, <1>2, LastTickEnds
        <5>3. nodes' = [nodes EXCEPT ![n].ticks = @ - 1]
          BY <4>2, <5>2 DEF tick_diagnostic
        <5>4. nodes'[n].ticks = nodes[n].ticks - 1
          BY <5>3, <1>2 DEF NodeRecord
        <5> QED
          BY <5>1, <5>4, <2>1
      <4> QED
        BY <4>1, <4>2, <1>5
    <3> HIDE DEF d, a, b
    <3>3. b \in a .. d
      BY <3>1, <3>2, <2>1
    <3>4. (b * 100) \div d \in (a * 100) \div d .. 100
      BY <2>1, <3>3, Hundredths
    <3> QED
      BY <3>1, <3>4, <2>1, <1>6
  <2> QED
    BY <1>4, <1>6, <2>2
<1>7. CASE ~TestMode
  <2> DEFINE d == DiagnosticDuration
             a == d - Left(n)
             b == d - Left(n)'
  <2>1. d \in Nat \ {0} /\ a \in 0 .. d /\ diagnostic_progress_pct(n) = (a * 100) \div d
    BY <1>1, <1>2, <1>7, DiagnosticLimits DEF OnDiagnostic, diagnostic_progress_pct, Left
  <2>2. CASE nodes'[n].health = "Quarantined"
    <3>1. b \in 0 .. d /\ diagnostic_progress_pct(n)' = (b * 100) \div d
      <4>1. clock' \in Nat
        BY DEF QuarantineInv
      <4> QED
        BY <4>1, <1>3, <1>7, <2>2, DiagnosticLimits DEF OnDiagnostic, diagnostic_progress_pct, Left
    <3>2. nodes'[n] = nodes[n] /\ clock' \in {clock, clock + 1}
      <4> SUFFICES ASSUME NEW passed \in BOOLEAN, tick_diagnostic(n, passed) PROVE FALSE
        BY <1>5
      <4>1. ~(nodes[n].ticks > 1)
        BY <1>2, <1>7 DEF OnDiagnostic
      <4> QED
        BY <4>1, <2>2, <1>2, LastTickEnds
    <3>3. b >= a
      BY <3>2, <1>2, <1>7, DiagnosticLimits DEF Left, OnDiagnostic
    <3> HIDE DEF d, a, b
    <3>4. b \in a .. d
      BY <3>1, <3>3, <2>1
    <3>5. (b * 100) \div d \in (a * 100) \div d .. 100
      BY <2>1, <3>4, Hundredths
    <3>6. (b * 100) \div d # Absent
      BY <2>1, <3>5, Hundredths DEF Absent
    <3> QED
      BY <3>1, <3>5, <3>6, <2>1
  <2>3. CASE nodes'[n].health # "Quarantined"
    <3>1. PICK passed \in BOOLEAN : tick_diagnostic(n, passed)
      BY <1>1, <1>5, <2>3
    <3>2. clock >= nodes[n].until
      BY <3>1, <1>2, <1>7 DEF tick_diagnostic, OnDiagnostic
    <3>3. a = d
      BY <3>2, <1>2, <1>7, DiagnosticLimits DEF Left, OnDiagnostic
    <3> HIDE DEF d, a, b
    <3>4. (a * 100) \div d = 100
      BY <2>1, <3>3, Hundredths
    <3> QED
      BY <3>4, <2>1, <2>3, <1>4
  <2> QED
    BY <2>2, <2>3
<1> QED
  BY <1>6, <1>7

LEMMA WorkersInvariant == WorkersSpec => [](HoneypotInv /\ QuarantineInv)
<1>1. HoneypotInv /\ UNCHANGED honeypotVars => HoneypotInv'
  <2> SUFFICES ASSUME HoneypotInv, UNCHANGED honeypotVars PROVE HoneypotInv'
    OBVIOUS
  <2>1. EveryLiarIsSlashed'
    <3>1. EveryLiarIsSlashed
      BY DEF HoneypotInv
    <3>2. UNCHANGED <<banned, slashes, lies>>
      BY DEF honeypotVars
    <3> QED
      BY <3>1, <3>2 DEF EveryLiarIsSlashed
  <2> QED
    BY <2>1 DEF HoneypotInv, honeypotVars
<1>2. QuarantineInv /\ UNCHANGED quarantineVars => QuarantineInv'
  BY OthersFollow DEF QuarantineInv, quarantineVars
<1>3. HoneypotInv /\ HoneypotNext => HoneypotInv'
  BY CraftKeeps, SubmitKeeps DEF HoneypotNext
<1>4. HoneypotInv /\ QuarantineInv /\ [WorkersNext]_<<honeypotVars, quarantineVars>>
        => HoneypotInv' /\ QuarantineInv'
  BY <1>1, <1>2, <1>3, QuarantineKeeps DEF WorkersNext
<1> QED
  BY <1>4, HoneypotStarts, QuarantineStarts, PTL DEF WorkersSpec

\* Exactly those who lied to a trap are banned and slashed, and those who agreed
\* on a lie as a cartel; a node is out of work exactly for as many results as the
\* threshold that lie off the mean of their reference (check_tensor_anomaly), and
\* comes back by a diagnostic of full length whose progress never falls: for all
\* peers, results and references, thresholds and durations, timed or counted
\* (submit_result, record_strike).
THEOREM LiarsStayOut == WorkersSpec => LiarsAreOut
<1>1. HoneypotInv' => EveryLiarIsSlashed'
  BY DEF HoneypotInv
<1>2. /\ QuarantineInv /\ QuarantineInv' /\ [WorkersNext]_<<honeypotVars, quarantineVars>>
      => OutOfWorkForCause /\ ProgressIsTrue
  <2> SUFFICES ASSUME QuarantineInv, QuarantineInv',
                      [WorkersNext]_<<honeypotVars, quarantineVars>>
               PROVE  OutOfWorkForCause /\ ProgressIsTrue
    OBVIOUS
  <2>1. QuarantineNext \/ UNCHANGED quarantineVars
    BY DEF WorkersNext
  <2> QED
    BY <2>1, StepsMove, OutForCause, ProgressRuns
<1>3. /\ HoneypotInv' /\ QuarantineInv /\ QuarantineInv'
      /\ [WorkersNext]_<<honeypotVars, quarantineVars>>
      => [EveryLiarIsSlashed' /\ OutOfWorkForCause /\ ProgressIsTrue]_<<honeypotVars, quarantineVars>>
  BY <1>1, <1>2
<1> QED
  BY <1>3, WorkersInvariant, PTL DEF WorkersSpec, LiarsAreOut
-----------------------------------------------------------------------------
(***************************************************************************)
(* Group owners.  Nodes that know the same batteries order the candidates  *)
(* alike; an incumbent stays where it is weaker than the strongest by no   *)
(* more than the hysteresis, and nowhere else.                             *)
(***************************************************************************)

Orders(R, S) ==
    /\ \A x, y \in S : x # y => (<<x, y>> \in R \/ <<y, x>> \in R)
    /\ \A x, y, z \in S : <<x, y>> \in R /\ <<y, z>> \in R => <<x, z>> \in R

\* A finite set has a greatest element in a relation that orders it.
LEMMA GreatestExists ==
    ASSUME NEW S, IsFiniteSet(S), S # {}, NEW R, Orders(R, S)
    PROVE  \E x \in S : \A y \in S \ {x} : <<x, y>> \in R
<1> USE DEF Orders
<1> DEFINE Tops(A) == {x \in A : \A y \in A \ {x} : <<x, y>> \in R}
           Q == {A \in SUBSET S : A # {} /\ Tops(A) = {}}
<1>1. CASE Q = {}
  <2>1. Tops(S) # {}
    BY <1>1
  <2> QED BY <2>1
<1>2. CASE Q # {}
  <2>1. Q \subseteq SUBSET S
    OBVIOUS
  <2> HIDE DEF Q
  <2>2. PICK A \in Q : \A x \in A : A \ {x} \notin Q
    BY <1>2, <2>1, SmallestSet
  <2>3. A \subseteq S /\ A # {} /\ Tops(A) = {}
    BY <2>2 DEF Q
  <2>4. PICK x \in A : TRUE
    BY <2>3
  <2>5. CASE A \ {x} = {}
    <3>1. x \in Tops(A)
      BY <2>4, <2>5
    <3> QED BY <3>1, <2>3
  <2>6. CASE A \ {x} # {}
    <3>1. Tops(A \ {x}) # {}
      BY <2>2, <2>3, <2>4, <2>6 DEF Q
    <3>2. PICK y \in A \ {x} : \A z \in (A \ {x}) \ {y} : <<y, z>> \in R
      BY <3>1
    <3>3. CASE <<y, x>> \in R
      <4>1. y \in Tops(A)
        BY <3>2, <3>3
      <4> QED BY <4>1, <2>3
    <3>4. CASE <<x, y>> \in R
      <4>1. \A z \in A \ {x} : <<x, z>> \in R
        BY <2>3, <2>4, <3>2, <3>4
      <4>2. x \in Tops(A)
        BY <4>1, <2>4
      <4> QED BY <4>2, <2>3
    <3> QED BY <2>3, <2>4, <3>2, <3>3, <3>4
  <2> QED BY <2>5, <2>6
<1> QED BY <1>1, <1>2

Beats(p, q) == \/ battery_weight[p] > battery_weight[q]
               \/ battery_weight[p] = battery_weight[q] /\ p > q

Strongest(p) == p \in WifiNodes /\ \A q \in WifiNodes \ {p} : Beats(p, q)

WifiType == battery_weight \in [WifiNodes -> Weights]

LEMMA WifiLimits ==
    /\ IsFiniteSet(WifiNodes) /\ WifiNodes \subseteq Nat
    /\ GoHysteresis \in Nat
    /\ WifiType => \A p \in WifiNodes : battery_weight[p] \in Nat
BY WifiAssumption DEF WifiType

LEMMA OneIsStrongest ==
    ASSUME WifiType, WifiNodes # {}
    PROVE  \E p : Strongest(p) /\ \A q : Strongest(q) => q = p
<1> DEFINE R == {w \in WifiNodes \X WifiNodes : Beats(w[1], w[2])}
<1>1. \A p, q \in WifiNodes : <<p, q>> \in R <=> Beats(p, q)
  OBVIOUS
<1> HIDE DEF R
<1>2. \A x, y \in WifiNodes : x # y => (<<x, y>> \in R \/ <<y, x>> \in R)
  BY <1>1, WifiLimits DEF Beats
<1>3. \A x, y, z \in WifiNodes : <<x, y>> \in R /\ <<y, z>> \in R => <<x, z>> \in R
  BY <1>1, WifiLimits DEF Beats
<1>4. Orders(R, WifiNodes)
  BY <1>2, <1>3 DEF Orders
<1>5. PICK p \in WifiNodes : \A q \in WifiNodes \ {p} : <<p, q>> \in R
  <2>1. IsFiniteSet(WifiNodes)
    BY WifiLimits
  <2> QED BY <1>4, <2>1, GreatestExists, Zenon
<1>6. Strongest(p)
  BY <1>1, <1>5 DEF Strongest
<1>7. ASSUME NEW q, Strongest(q) PROVE q = p
  BY <1>6, <1>7, WifiLimits DEF Strongest, Beats
<1> QED BY <1>6, <1>7

\* Whoever is informed elects the strongest.
LEMMA InformedElect ==
    ASSUME WifiType, InformedOfAll, NEW p, Strongest(p), NEW n \in WifiNodes
    PROVE  elect_group_owner(n) = p
<1> DEFINE Elected(c) == \A q \in Candidates(n) \ {c} :
                \/ WeightOf(n, c) > WeightOf(n, q)
                \/ WeightOf(n, c) = WeightOf(n, q) /\ c > q
<1>1. Candidates(n) = WifiNodes /\ \A q \in WifiNodes : WeightOf(n, q) = battery_weight[q]
  BY DEF InformedOfAll
<1>2. \A c : c \in Candidates(n) /\ Elected(c) <=> Strongest(c)
  BY <1>1 DEF Strongest, Beats
<1> HIDE DEF Elected
<1>3. \A c : Strongest(c) => c = p
  BY OneIsStrongest DEF Strongest
<1>4. \A c \in Candidates(n) : Elected(c) <=> c = p
  BY <1>2, <1>3
<1>5. p \in Candidates(n) /\ Elected(p)
  BY <1>2
<1>6. (CHOOSE c \in Candidates(n) : Elected(c)) = p
  BY <1>4, <1>5
<1> QED BY <1>6 DEF elect_group_owner, Elected

\* Nodes that know each other's batteries go on with different owners exactly
\* when they follow different ones and the hysteresis keeps one of these: for any
\* number of nodes, all weights and every hysteresis (negotiate_group_owner,
\* challenger_wins).
THEOREM OwnersSplitByHysteresis == WifiSpec => []OnlyHysteresisSplits
<1>1. WifiInit => WifiType
  BY DEF WifiInit, WifiType
<1>2. WifiType /\ [WifiNext]_wifiVars => WifiType'
  <2> SUFFICES ASSUME WifiType, [WifiNext]_wifiVars PROVE WifiType'
    OBVIOUS
  <2>1. ASSUME NEW n \in WifiNodes, negotiate_group_owner(n) PROVE WifiType'
    BY <2>1 DEF negotiate_group_owner, WifiType
  <2>2. ASSUME NEW n \in WifiNodes, NEW p, add_peer(n, p) \/ remove_peer(n, p) PROVE WifiType'
    BY <2>2 DEF add_peer, remove_peer, WifiType
  <2>3. ASSUME NEW n \in WifiNodes, NEW w \in Weights, set_battery_weight(n, w) PROVE WifiType'
    BY <2>3 DEF set_battery_weight, WifiType
  <2>4. CASE UNCHANGED wifiVars
    BY <2>4 DEF wifiVars, WifiType
  <2> QED BY <2>1, <2>2, <2>3, <2>4 DEF WifiNext
<1>3. WifiType => OnlyHysteresisSplits
  <2> DEFINE best == Max({battery_weight[n] : n \in WifiNodes})
  <2> SUFFICES ASSUME WifiType, InformedOfAll, NEW m \in WifiNodes, NEW l \in WifiNodes
               PROVE  NextOwner(m) # NextOwner(l)
                        <=> /\ group_owner_id[m] # group_owner_id[l]
                            /\ Tolerated(group_owner_id[m]) \/ Tolerated(group_owner_id[l])
    BY DEF OnlyHysteresisSplits
  <2>1. PICK p : Strongest(p) /\ \A q : Strongest(q) => q = p
    BY OneIsStrongest
  <2>2. best = battery_weight[p]
    <3> DEFINE W == {battery_weight[n] : n \in WifiNodes}
    <3>1. battery_weight[p] \in W /\ \A w \in W : battery_weight[p] >= w
      BY <2>1, WifiLimits DEF Strongest, Beats
    <3>2. W \subseteq Nat
      BY WifiLimits
    <3> HIDE DEF W
    <3>3. ASSUME NEW x \in W, \A y \in W : x >= y PROVE x = battery_weight[p]
      <4>1. x >= battery_weight[p] /\ battery_weight[p] >= x
        BY <3>1, <3>3
      <4> DEFINE w == battery_weight[p]
      <4>2. x \in Nat /\ w \in Nat /\ x >= w /\ w >= x
        BY <3>1, <3>2, <4>1
      <4> HIDE DEF w
      <4>3. x = w
        BY <4>2
      <4> QED BY <4>3 DEF w
    <3>4. (CHOOSE x \in W : \A y \in W : x >= y) = battery_weight[p]
      BY <3>1, <3>3
    <3> QED BY <3>4 DEF Max, W
  <2>3. \A q : Tolerated(q) <=> /\ q \in WifiNodes /\ battery_weight[q] < battery_weight[p]
                              /\ battery_weight[q] + GoHysteresis >= battery_weight[p]
    BY <2>2 DEF Tolerated
  <2> HIDE DEF best
  <2>4. ASSUME NEW n \in WifiNodes
        PROVE  NextOwner(n) = IF Tolerated(group_owner_id[n]) THEN group_owner_id[n] ELSE p
    <3>1. elect_group_owner(n) = p
      BY <2>1, InformedElect
    <3>2. Candidates(n) = WifiNodes /\ \A q \in WifiNodes : WeightOf(n, q) = battery_weight[q]
      BY DEF InformedOfAll
    <3> DEFINE o == group_owner_id[n]
    <3>3. ASSUME o \in WifiNodes \ {p}
          PROVE  challenger_wins(p, battery_weight[p], o, battery_weight[o]) <=> ~Tolerated(o)
      <4>1. Beats(p, o) /\ p \in WifiNodes
        BY <2>1, <3>3 DEF Strongest
      <4> HIDE DEF o
      <4>2. battery_weight[o] \in Nat /\ battery_weight[p] \in Nat /\ GoHysteresis \in Nat
            /\ o \in Nat /\ p \in Nat
        BY <3>3, <4>1, WifiLimits
      <4>3. Tolerated(o) <=> /\ battery_weight[o] < battery_weight[p]
                             /\ battery_weight[o] + GoHysteresis >= battery_weight[p]
        BY <2>3, <3>3
      <4> QED BY <3>3, <4>1, <4>2, <4>3 DEF challenger_wins, Beats
    <3>4. p \in WifiNodes /\ battery_weight[p] \in Nat
      BY <2>1, WifiLimits DEF Strongest
    <3>5. ~Tolerated(p)
      BY <2>3, <3>4
    <3>6. Keeps(n) <=> o \in WifiNodes \ {p} /\ Tolerated(o)
      BY <3>1, <3>2, <3>3, <3>4 DEF Keeps
    <3>7. Keeps(n) <=> Tolerated(o)
      BY <2>3, <3>5, <3>6
    <3> QED BY <3>1, <3>7 DEF NextOwner
  <2>5. ~Tolerated(p)
    <3>1. battery_weight[p] \in Nat
      BY <2>1, WifiLimits DEF Strongest
    <3> QED BY <2>3, <3>1
  <2> QED BY <2>4, <2>5
<1> QED BY <1>1, <1>2, <1>3, PTL DEF WifiSpec
-----------------------------------------------------------------------------
(***************************************************************************)
(* Hole punching.  The ports of a list of guesses are numbers that differ  *)
(* by the spread of their places, taken around the range of ports; a       *)
(* session probes too few of them to come round to one it has probed.      *)
(***************************************************************************)

\* A list of guesses around base.
Guesses(c) == \E base \in Nat : \A k \in 1..Len(c) : c[k] = (base + Spread(k - 1)) % PortMod

PunchInv ==
    /\ candidates \in Seq(0..(PortMod - 1)) /\ Guesses(candidates)
    /\ probed \in Seq(0..(PortMod - 1)) /\ Len(probed) = attempt /\ attempt <= Len(candidates)
    /\ \A k \in 1..Len(probed) : probed[k] = candidates[k]
    /\ attempt <= MaxAttempts
    /\ punch_state \in {"Idle", "Probing", "Predicting"} => attempt = 0
    /\ punch_state = "Connected" <=> connected_remote # NoPort
    /\ connected_remote # NoPort => attempt > 0 /\ connected_remote = probed[attempt]

LEMMA PunchLimits ==
    /\ PortMod \in Nat /\ PortMod >= 1 /\ PortMod >= 9 /\ MaxAttempts \in Nat /\ MaxAttempts < PortMod
    /\ RemotePort \in Nat /\ PredictionSpread \in Nat
    /\ NoPort \notin 0..(PortMod - 1)
BY PunchAssumption DEF NoPort

LEMMA SpreadsDiffer ==
    ASSUME NEW k \in Nat, NEW l \in Nat
    PROVE  /\ Spread(k) \in Int
           /\ Spread(k) = Spread(l) => k = l
           /\ \A n \in Nat : k < n => -(n \div 2) <= Spread(k) /\ Spread(k) <= n \div 2
           /\ \A n \in Nat : k < n /\ l < n => Spread(k) - Spread(l) < n
BY DEF Spread

LEMMA BuiltCandidates ==
    /\ build_candidates \in Seq(0..(PortMod - 1)) /\ Guesses(build_candidates)
    /\ Guesses(<< >>)
<1> DEFINE List(b, n) == [k \in 1..n |-> (b + Spread(k - 1)) % PortMod]
<1>1. ASSUME NEW b \in Nat, NEW n \in Nat
      PROVE  List(b, n) \in Seq(0..(PortMod - 1)) /\ Guesses(List(b, n))
  <2>1. \A k \in 1..n : (b + Spread(k - 1)) % PortMod \in 0..(PortMod - 1)
    <3> SUFFICES ASSUME NEW k \in 1..n
                 PROVE  (b + Spread(k - 1)) % PortMod \in 0..(PortMod - 1)
      OBVIOUS
    <3> DEFINE a == b + Spread(k - 1)
    <3>1. a \in Int
      BY SpreadsDiffer
    <3> HIDE DEF a
    <3>2. a % PortMod \in 0..(PortMod - 1)
      BY <3>1, PunchLimits, Division
    <3> QED BY <3>2 DEF a
  <2>2. Len(List(b, n)) = n
    OBVIOUS
  <2> QED BY <2>1, <2>2 DEF Guesses
<1>2. \A n \in Nat : predicted_ports(RemotePort, n) = List(RemotePort + 2, n)
  BY DEF predicted_ports, predict_nat_port
<1>3. Neighbourhood(RemotePort) = List(RemotePort, 9)
  BY DEF Neighbourhood
<1>4. build_candidates \in {List(RemotePort + 2, PredictionSpread), List(RemotePort, 9)}
  BY <1>2, <1>3, PunchLimits DEF build_candidates
<1>5. RemotePort \in Nat /\ RemotePort + 2 \in Nat /\ PredictionSpread \in Nat /\ 9 \in Nat
  BY PunchLimits
<1> HIDE DEF List
<1>6. Guesses(<< >>)
  BY DEF Guesses
<1> QED BY <1>1, <1>4, <1>5, <1>6

LEMMA PunchStarts == PunchInit => PunchInv
BY PunchLimits, BuiltCandidates DEF PunchInit, PunchInv

LEMMA ProbeKeeps == ASSUME PunchInv, NEW ok \in BOOLEAN, punch_state = "Punching", Punching(ok)
                    PROVE  PunchInv'
<1> DEFINE port == candidates[attempt + 1]
<1>1. /\ attempt \in Nat /\ attempt + 1 \in 1..Len(candidates) /\ attempt + 1 <= MaxAttempts
      /\ attempt' = attempt + 1 /\ Len(probed) = attempt /\ probed \in Seq(0..(PortMod - 1))
      /\ probed' = Append(probed, port)
      /\ UNCHANGED candidates
  BY PunchLimits DEF PunchInv, Punching, Exhausted
<1>2. port \in 0..(PortMod - 1)
  <2>1. candidates \in Seq(0..(PortMod - 1))
    BY DEF PunchInv
  <2> QED BY <1>1, <2>1, ElementOfSeq
<1> HIDE DEF port
<1>3. /\ probed' \in Seq(0..(PortMod - 1)) /\ Len(probed') = attempt'
      /\ \A k \in 1..attempt : probed'[k] = probed[k]
      /\ probed'[attempt + 1] = port
  BY <1>1, <1>2, AppendProperties
<1>4. \A k \in 1..Len(probed') : probed'[k] = candidates'[k]
  BY <1>1, <1>3 DEF PunchInv, port
<1>5. CASE ok
  <2>1. connected_remote' = port /\ punch_state' = "Connected"
    BY <1>5 DEF Punching, port
  <2> QED BY <1>1, <1>2, <1>3, <1>4, <2>1, PunchLimits DEF PunchInv, Guesses
<1>6. CASE ~ok
  <2>1. UNCHANGED <<connected_remote, punch_state>>
    BY <1>6 DEF Punching
  <2> QED BY <1>1, <1>3, <1>4, <2>1 DEF PunchInv, Guesses
<1> QED BY <1>5, <1>6

LEMMA PunchKeeps == PunchInv /\ [PunchNext]_punchVars => PunchInv'
<1> SUFFICES ASSUME PunchInv, [PunchNext]_punchVars PROVE PunchInv'
  OBVIOUS
<1>1. CASE Begin /\ punch_state = "Idle"
  BY <1>1, BuiltCandidates DEF Begin, PunchInv, Guesses
<1>2. CASE Probing /\ punch_state = "Probing"
  BY <1>2 DEF Probing, PunchInv, Guesses
<1>3. CASE Predicting /\ punch_state = "Predicting"
  <2>1. /\ UNCHANGED <<connected_remote, probed>> /\ punch_state' = "Punching" /\ attempt' = 0
        /\ candidates' = build_candidates
    BY <1>3 DEF Predicting
  <2>2. attempt = 0 /\ connected_remote = NoPort
    BY <1>3 DEF PunchInv
  <2>3. Guesses(candidates)' /\ candidates' \in Seq(0..(PortMod - 1))
    BY <2>1, BuiltCandidates DEF Guesses
  <2>4. Len(candidates') \in Nat
    BY <2>3
  <2> QED BY <2>1, <2>2, <2>3, <2>4 DEF PunchInv
<1>4. CASE Give_up /\ Active
  BY <1>4 DEF Give_up, Active, PunchInv, Guesses
<1>5. CASE \E ok \in BOOLEAN : punch_state = "Punching" /\ Punching(ok)
  BY <1>5, ProbeKeeps
<1>6. CASE UNCHANGED <<punch_state, candidates, attempt, connected_remote, probed>>
  BY <1>6 DEF PunchInv, Guesses
<1> QED
  BY <1>1, <1>2, <1>3, <1>4, <1>5, <1>6
     DEF PunchNext, punchVars, tick, OutOfTicks, run_until_done, Wait

\* The guesses of a session are all different and lie without a gap around the
\* first, for all ports and numbers of attempts of 16 bits (predict_nat_port,
\* the candidates of a session); what answered last is what is connected.
THEOREM GuessesAllDiffer == PunchSpec => []GuessesSpreadOut
<1>1. PunchInv => GuessesSpreadOut
  <2> SUFFICES ASSUME PunchInv PROVE GuessesSpreadOut
    OBVIOUS
  <2> DEFINE n == Len(probed)
  <2>1. n \in Nat /\ n < PortMod /\ DOMAIN probed = 1..n
    BY PunchLimits DEF PunchInv
  <2>2. PICK base \in Nat : \A k \in 1..n : probed[k] = (base + Spread(k - 1)) % PortMod
    <3>1. PICK base \in Nat :
            \A k \in 1..Len(candidates) : candidates[k] = (base + Spread(k - 1)) % PortMod
      BY DEF PunchInv, Guesses
    <3>2. \A k \in 1..n : k \in 1..Len(candidates) /\ probed[k] = candidates[k]
      BY DEF PunchInv
    <3> QED BY <3>1, <3>2
  <2> HIDE DEF n
  <2>3. ASSUME NEW k \in 1..n, NEW l \in 1..n, probed[k] = probed[l]
        PROVE  k = l
    <3> DEFINE a == base + Spread(k - 1)
               b == base + Spread(l - 1)
    <3>1. k - 1 \in Nat /\ l - 1 \in Nat /\ k - 1 < n /\ l - 1 < n
      BY <2>1
    <3>2. /\ Spread(k - 1) \in Int /\ Spread(l - 1) \in Int
          /\ Spread(k - 1) - Spread(l - 1) < n /\ Spread(l - 1) - Spread(k - 1) < n
          /\ Spread(k - 1) = Spread(l - 1) => k - 1 = l - 1
      BY <2>1, <3>1, SpreadsDiffer
    <3>3. a \in Int /\ b \in Int /\ a - b < PortMod /\ b - a < PortMod /\ (a = b => k = l)
      BY <2>1, <3>2, PunchLimits
    <3>4. a % PortMod = b % PortMod
      BY <2>2, <2>3
    <3> HIDE DEF a, b
    <3>5. a = b
      BY <3>3, <3>4, PunchLimits, NearRests
    <3> QED BY <3>3, <3>5
  <2>4. Cardinality(ToSet(probed)) = n
    <3>1. probed \in Bijection(1..n, ToSet(probed))
      <4> DEFINE S == 1..n
                 T == ToSet(probed)
      <4>1. probed \in [S -> T] /\ \A x \in T : \E k \in S : probed[k] = x
        BY <2>1 DEF ToSet, PunchInv
      <4>2. \A k, l \in S : probed[k] = probed[l] => k = l
        BY <2>3
      <4> HIDE DEF S, T
      <4>3. probed \in Injection(S, T)
        BY <4>1, <4>2 DEF Injection, IsInjective
      <4>4. probed \in Surjection(S, T)
        BY <4>1 DEF Surjection
      <4> QED BY <4>3, <4>4 DEF Bijection, S, T
    <3>2. IsFiniteSet(1..n) /\ Cardinality(1..n) = n
      BY <2>1, FS_Interval
    <3> QED BY <3>1, <3>2, FS_Bijection DEF ExistsBijection
  <2>5. ASSUME probed # << >>
        PROVE  ToSet(probed) \subseteq
                 {(probed[1] + d) % PortMod : d \in (-(n \div 2))..(n \div 2)}
    <3>1. n >= 1
      BY <2>1, <2>5 DEF PunchInv, n
    <3> SUFFICES ASSUME NEW k \in 1..n
                 PROVE  \E d \in (-(n \div 2))..(n \div 2) : probed[k] = (probed[1] + d) % PortMod
      BY <2>1 DEF ToSet
    <3> DEFINE d == Spread(k - 1)
    <3>2. d \in Int /\ -(n \div 2) <= d /\ d <= n \div 2
      <4>1. k - 1 \in Nat /\ k - 1 < n
        BY <2>1
      <4> QED BY <2>1, <4>1, SpreadsDiffer
    <3>3. probed[1] = base % PortMod
      <4>1. Spread(0) = 0
        <5>1. \A z \in Nat : z <= 0 => Spread(z) = 0
          BY DEF Spread
        <5> QED BY <5>1
      <4> QED BY <2>1, <2>2, <3>1, <4>1
    <3>4. probed[k] = (base + d) % PortMod
      BY <2>2
    <3> HIDE DEF d
    <3>5. ((base % PortMod) + d) % PortMod = (base + d) % PortMod
      <4>1. base \in Int
        OBVIOUS
      <4> QED BY <3>2, <4>1, PunchLimits, RestsAdd
    <3>6. n \div 2 \in Int
      BY <2>1
    <3> QED BY <3>2, <3>3, <3>4, <3>5, <3>6
  <2>6. Last(probed) = probed[attempt] /\ n = attempt
    BY DEF PunchInv, Last, n
  <2> QED BY <2>4, <2>5, <2>6 DEF GuessesSpreadOut, PunchInv, n
<1> QED BY <1>1, PunchStarts, PunchKeeps, PTL DEF PunchSpec
-----------------------------------------------------------------------------
(***************************************************************************)
(* LoRa packets.  Frames know the packet they were cut from; what is put   *)
(* together from all the places of one packet is that packet.  The cache   *)
(* of seen packets is a ring that holds the last ones in order.            *)
(***************************************************************************)

LEMMA LoraLimits ==
    /\ FragMtu \in Nat /\ FragMtu >= 1 /\ CountMod \in Nat /\ CountMod >= 1
    /\ DedupCapacity \in Nat /\ DedupCapacity >= 1
    /\ \A p \in Packets : p \in Seq(Nat) /\ Len(p) > 0
BY LoraAssumption

LEMMA LesserOfTwo ==
    ASSUME NEW a \in Int, NEW b \in Int
    PROVE  Min({a, b}) = IF a <= b THEN a ELSE b
<1> DEFINE m == IF a <= b THEN a ELSE b
<1>1. m \in {a, b} /\ \A y \in {a, b} : m <= y
  OBVIOUS
<1>2. \A x \in {a, b} : (\A y \in {a, b} : x <= y) => x = m
  OBVIOUS
<1> HIDE DEF m
<1>3. (CHOOSE x \in {a, b} : \A y \in {a, b} : x <= y) = m
  BY <1>1, <1>2
<1> QED BY <1>3 DEF Min, m

LEMMA GreaterOfTwo ==
    ASSUME NEW a \in Int, NEW b \in Int
    PROVE  Max({a, b}) = IF a >= b THEN a ELSE b
<1> DEFINE m == IF a >= b THEN a ELSE b
<1>1. m \in {a, b} /\ \A y \in {a, b} : m >= y
  OBVIOUS
<1>2. \A x \in {a, b} : (\A y \in {a, b} : x >= y) => x = m
  OBVIOUS
<1> HIDE DEF m
<1>3. (CHOOSE x \in {a, b} : \A y \in {a, b} : x >= y) = m
  BY <1>1, <1>2
<1> QED BY <1>3 DEF Max, m

\* Where the first i fragments of a packet end.
FragmentsEnd(p, i) == Min({i * FragMtu, Len(p)})
Piece(p, i) == SubSeq(p, i * FragMtu + 1, FragmentsEnd(p, i + 1))

LEMMA FragmentsEndAt ==
    ASSUME NEW p \in Seq(Nat), Len(p) > 0, NEW n, n = CeilDivide(Len(p), FragMtu)
    PROVE  /\ n \in Nat \ {0} /\ FragmentsEnd(p, n) = Len(p)
           /\ \A i \in 0..(n - 1) : /\ FragmentsEnd(p, i) = i * FragMtu
                                  /\ i * FragMtu \in 0..(Len(p) - 1)
                                  /\ FragmentsEnd(p, i + 1) \in (i * FragMtu + 1)..Len(p)
<1> DEFINE L == Len(p)
           M == FragMtu
           a == L + M - 1
<1>1. L \in Nat /\ L > 0 /\ M \in Nat /\ M >= 1
  BY LoraLimits
<1>2. a \in Nat /\ a \in Int /\ a >= 0 /\ n = a \div M
  BY <1>1 DEF CeilDivide
<1> HIDE DEF a, M
<1>3. n \in Nat /\ a % M \in 0..(M - 1) /\ a = M * n + (a % M)
  BY <1>1, <1>2, Division
<1> DEFINE r == a % M
<1> HIDE DEF r
<1>4. M * n >= L /\ M * n < L + M
  BY <1>1, <1>3 DEF a, r
<1>5. n # 0
  BY <1>1, <1>4
<1>6. ASSUME NEW i \in 0..(n - 1)
      PROVE  i * M \in 0..(L - 1) /\ (i + 1) * M = i * M + M /\ (i + 1) * M \in Nat
  <2>1. i \in Nat /\ n - 1 - i \in Nat
    BY <1>3
  <2>2. M * (n - 1 - i) >= 0 /\ i * M >= 0
    BY <1>1, <2>1
  <2>3. M * (n - 1 - i) = M * n - M - i * M
    BY <1>1, <1>3, <2>1
  <2>4. i * M \in Nat /\ i * M <= M * n - M
    BY <1>1, <1>3, <2>1, <2>2, <2>3
  <2>5. i * M <= L - 1
    BY <1>1, <1>3, <1>4, <2>4
  <2> QED BY <1>1, <2>1, <2>4, <2>5
<1>7. ASSUME NEW i \in 0..(n - 1)
      PROVE  /\ FragmentsEnd(p, i) = i * M
             /\ i * M \in 0..(L - 1)
             /\ FragmentsEnd(p, i + 1) \in (i * M + 1)..L
  <2> DEFINE c == i * M
             d == (i + 1) * M
  <2>1. c \in 0..(L - 1) /\ d = c + M /\ c \in Int /\ d \in Int /\ L \in Int
    BY <1>1, <1>6
  <2>2. FragmentsEnd(p, i) = Min({c, L}) /\ FragmentsEnd(p, i + 1) = Min({d, L})
    BY DEF FragmentsEnd, M
  <2> HIDE DEF c, d, L
  <2>3. /\ Min({c, L}) = IF c <= L THEN c ELSE L
        /\ Min({d, L}) = IF d <= L THEN d ELSE L
    BY <2>1, LesserOfTwo
  <2>4. Min({c, L}) = c /\ Min({d, L}) \in (c + 1)..L
    BY <1>1, <2>1, <2>3
  <2> QED BY <2>1, <2>2, <2>4 DEF c
<1>8. FragmentsEnd(p, n) = L
  <2> DEFINE c == n * M
  <2>1. c \in Int /\ L \in Int /\ c >= L
    <3>1. n * M = M * n
      BY <1>1, <1>3
    <3> QED BY <1>1, <1>3, <1>4, <3>1
  <2>2. FragmentsEnd(p, n) = Min({c, L})
    BY DEF FragmentsEnd, M
  <2> HIDE DEF c, L
  <2>3. Min({c, L}) = IF c <= L THEN c ELSE L
    BY <2>1, LesserOfTwo
  <2> QED BY <2>1, <2>2, <2>3
<1> QED BY <1>3, <1>5, <1>7, <1>8 DEF M

LEMMA SubSeqsJoin ==
    ASSUME NEW p \in Seq(Nat), NEW c \in 0..Len(p), NEW d \in c..Len(p)
    PROVE  SubSeq(p, 1, c) \o SubSeq(p, c + 1, d) = SubSeq(p, 1, d)
<1> DEFINE u == SubSeq(p, 1, c)
           v == SubSeq(p, c + 1, d)
           w == SubSeq(p, 1, d)
<1>0. Len(p) \in Nat /\ c \in Nat /\ d \in Nat /\ c <= d /\ d <= Len(p)
  OBVIOUS
<1>1. u \in Seq(Nat) /\ Len(u) = c /\ \A k \in 1..c : u[k] = p[k]
  BY <1>0
<1>2. v \in Seq(Nat) /\ Len(v) = d - c /\ \A k \in 1..(d - c) : v[k] = p[c + k]
  BY <1>0
<1>3. w \in Seq(Nat) /\ Len(w) = d /\ \A k \in 1..d : w[k] = p[k]
  BY <1>0
<1> HIDE DEF u, v, w
<1>4. /\ u \o v \in Seq(Nat) /\ Len(u \o v) = d
      /\ \A k \in 1..d : (u \o v)[k] = IF k <= c THEN u[k] ELSE v[k - c]
  BY <1>0, <1>1, <1>2
<1>5. ASSUME NEW k \in 1..d PROVE (u \o v)[k] = w[k]
  <2>0. k \in Nat /\ k >= 1 /\ k <= d
    BY <1>0
  <2>1. CASE k <= c
    <3>1. k \in 1..c
      BY <1>0, <2>0, <2>1
    <3>2. (u \o v)[k] = u[k]
      BY <1>4, <2>1
    <3> QED BY <1>1, <1>3, <3>1, <3>2
  <2>2. CASE k > c
    <3>1. k - c \in 1..(d - c) /\ c + (k - c) = k
      BY <1>0, <2>2
    <3>2. v[k - c] = p[c + (k - c)]
      BY <1>2, <3>1
    <3>3. (u \o v)[k] = v[k - c]
      BY <1>0, <1>4, <2>2
    <3> QED BY <1>3, <3>1, <3>2, <3>3
  <2>3. k <= c \/ k > c
    BY <1>0, <2>0
  <2> QED BY <2>1, <2>2, <2>3
<1>6. u \o v = w
  BY <1>3, <1>4, <1>5, SeqEqual
<1> QED BY <1>6 DEF u, v, w

LEMMA PiecesMakeThePacket ==
    ASSUME NEW p \in Seq(Nat), Len(p) > 0, NEW n, n = CeilDivide(Len(p), FragMtu)
    PROVE  FlattenSeq([i \in 1..n |-> Piece(p, i - 1)]) = p
<1> DEFINE seqs == [i \in 1..n |-> Piece(p, i - 1)]
           Rec(f) == [i \in 1..Len(seqs) |-> IF i = 1 THEN seqs[i] ELSE f[i - 1] \o seqs[i]]
           h == [i \in 1..n |-> SubSeq(p, 1, FragmentsEnd(p, i))]
<1>1. /\ n \in Nat \ {0} /\ FragmentsEnd(p, n) = Len(p)
      /\ \A i \in 0..(n - 1) : /\ FragmentsEnd(p, i) = i * FragMtu
                             /\ i * FragMtu \in 0..(Len(p) - 1)
                             /\ FragmentsEnd(p, i + 1) \in (i * FragMtu + 1)..Len(p)
  BY FragmentsEndAt
<1>2. Len(seqs) = n /\ \A i \in 1..n : seqs[i] = Piece(p, i - 1)
  BY <1>1
<1> HIDE DEF seqs
<1>3. ASSUME NEW i \in 1..n
      PROVE  h[i] = IF i = 1 THEN seqs[i] ELSE h[i - 1] \o seqs[i]
  <2> DEFINE c == (i - 1) * FragMtu
             d == FragmentsEnd(p, i)
  <2>1. i - 1 \in 0..(n - 1) /\ (i - 1) + 1 = i
    BY <1>1
  <2>2. c \in 0..Len(p) /\ d \in c..Len(p) /\ FragmentsEnd(p, i - 1) = c
    BY <1>1, <2>1
  <2>3. seqs[i] = SubSeq(p, c + 1, d)
    BY <1>2, <2>1 DEF Piece
  <2>4. CASE i = 1
    <3>1. c = 0
      BY <2>4, LoraLimits
    <3>2. h[i] = SubSeq(p, 1, d)
      OBVIOUS
    <3> HIDE DEF h, c, d
    <3>3. c + 1 = 1
      BY <3>1
    <3> QED BY <2>3, <2>4, <3>2, <3>3
  <2>5. CASE i # 1
    <3>1. h[i - 1] = SubSeq(p, 1, c) /\ h[i] = SubSeq(p, 1, d)
      BY <1>1, <2>2, <2>5
    <3> HIDE DEF c, d
    <3>2. SubSeq(p, 1, c) \o SubSeq(p, c + 1, d) = SubSeq(p, 1, d)
      BY <2>2, SubSeqsJoin
    <3> QED BY <2>3, <2>5, <3>1, <3>2
  <2> QED BY <2>4, <2>5
<1>4. h = Rec(h)
  BY <1>2, <1>3, ZenonT(40)
<1> DEFINE f == CHOOSE g : g = Rec(g)
<1>5. f = Rec(f)
  BY <1>4, Zenon
<1>6. \A i \in 1..n : f[i] = IF i = 1 THEN seqs[i] ELSE f[i - 1] \o seqs[i]
  BY <1>2, <1>5, Zenon
<1>7. FlattenSeq(seqs) = f[n]
  BY <1>1, <1>2 DEF FlattenSeq
<1>8. h[n] = p
  BY <1>1
<1> HIDE DEF f, h
<1>9. f[n] = h[n]
  <2> DEFINE T == {i \in 1..n : f[i] # h[i]}
  <2>0. n \in 1..n
    BY <1>1
  <2> SUFFICES ASSUME T # {} PROVE FALSE
    BY <2>0
  <2>1. T \subseteq Nat
    OBVIOUS
  <2> HIDE DEF T
  <2>2. PICK i \in T : \A j \in T : i <= j
    BY <2>1, LeastNumber
  <2>3. i \in 1..n /\ f[i] # h[i]
    BY <2>2 DEF T
  <2>4. CASE i = 1
    BY <1>3, <1>6, <2>3, <2>4
  <2>5. CASE i # 1
    <3>1. i - 1 \in 1..n /\ i - 1 \notin T
      BY <1>1, <2>2, <2>3, <2>5
    <3>2. f[i - 1] = h[i - 1]
      BY <3>1 DEF T
    <3> QED BY <1>3, <1>6, <2>3, <2>5, <3>2
  <2> QED BY <2>4, <2>5
<1> QED BY <1>7, <1>8, <1>9 DEF seqs

\* A frame of a packet, as it was sent or altered on the way.
FrameOf(f, p) ==
    /\ f.message_id = p /\ f.count = CeilDivide(Len(p), FragMtu) % CountMod
    /\ f.index \in 0..(f.count - 1) /\ f.payload = Piece(p, f.index)

PacketInv ==
    /\ \A f \in airborne : DOMAIN f = {"message_id", "index", "count", "intact", "payload"}
                         /\ \E p \in Packets : FrameOf(f, p)
    /\ AnySeq(collected)
    /\ \A k \in 1..Len(collected) : \E p \in Packets : FrameOf(collected[k], p)
    /\ delivered \subseteq Packets

\* Packets have no more fragments than their count can say.
CountsFit == \A p \in Packets : CeilDivide(Len(p), FragMtu) < CountMod

LEMMA CompletePacket ==
    ASSUME CountsFit, NEW frags, frags # {},
           \A f \in frags : \E p \in Packets : FrameOf(f, p),
           Consistent(frags), is_complete(frags)
    PROVE  assemble(frags) \in Packets
<1>1. PICK e \in frags, p \in Packets : FrameOf(e, p)
  OBVIOUS
<1> DEFINE n == CeilDivide(Len(p), FragMtu)
<1>2. p \in Seq(Nat) /\ Len(p) > 0 /\ n \in Nat \ {0} /\ n < CountMod
  <2>1. p \in Seq(Nat) /\ Len(p) > 0
    BY LoraLimits
  <2>2. n \in Nat \ {0}
    BY <2>1, FragmentsEndAt
  <2> QED BY <2>1, <2>2 DEF CountsFit
<1>3. n % CountMod = n
  <2>1. n \in 0..(CountMod - 1)
    BY <1>2, LoraLimits
  <2> HIDE DEF n
  <2> QED BY <2>1, LoraLimits, SmallRest
<1>4. \A f \in frags : FrameOf(f, p) /\ f.count = n
  BY <1>1, <1>3 DEF Consistent, FrameOf
<1> HIDE DEF n
<1>5. {f.index : f \in frags} = 0..(n - 1)
  BY <1>1, <1>4 DEF is_complete
<1>6. Cardinality(0..(n - 1)) = n
  <2>1. Cardinality(0..(n - 1)) = IF 0 > n - 1 THEN 0 ELSE (n - 1) - 0 + 1
    BY <1>2, FS_Interval
  <2> QED BY <1>2, <2>1
<1>7. \A i \in 1..n : (CHOOSE f \in frags : f.index = i - 1).payload = Piece(p, i - 1)
  <2> SUFFICES ASSUME NEW i \in 1..n
               PROVE  (CHOOSE f \in frags : f.index = i - 1).payload = Piece(p, i - 1)
    OBVIOUS
  <2>1. i - 1 \in 0..(n - 1)
    BY <1>2
  <2>2. \E f \in frags : f.index = i - 1
    BY <1>5, <2>1
  <2> DEFINE g == CHOOSE f \in frags : f.index = i - 1
  <2>3. g \in frags /\ g.index = i - 1
    BY <2>2
  <2> HIDE DEF g
  <2>4. g.payload = Piece(p, i - 1)
    BY <1>4, <2>3 DEF FrameOf
  <2> QED BY <2>4 DEF g
<1>8. assemble(frags) = FlattenSeq([i \in 1..n |-> Piece(p, i - 1)])
  <2>1. [i \in 1..n |-> (CHOOSE f \in frags : f.index = i - 1).payload]
          = [i \in 1..n |-> Piece(p, i - 1)]
    BY <1>7
  <2> QED BY <1>5, <1>6, <2>1 DEF assemble
<1>9. assemble(frags) = p
  BY <1>2, <1>8, PiecesMakeThePacket DEF n
<1> QED BY <1>9

LEMMA PacketKeeps == ASSUME CountsFit, PacketInv, PacketNext PROVE PacketInv'
<1>1. ASSUME NEW p \in Packets, Send(p) PROVE PacketInv'
  <2> DEFINE n == CeilDivide(Len(p), FragMtu) % CountMod
  <2>1. airborne' = airborne \union mesh_to_lora_frames(p) /\ UNCHANGED <<collected, delivered>>
    BY <1>1 DEF Send
  <2>2. ASSUME NEW f \in mesh_to_lora_frames(p)
        PROVE  DOMAIN f = {"message_id", "index", "count", "intact", "payload"} /\ FrameOf(f, p)
    <3>1. PICK i \in 0..(n - 1) :
             f = [message_id |-> p, index |-> i, count |-> n, intact |-> TRUE,
                  payload |-> SubSeq(p, i * FragMtu + 1, Min({(i + 1) * FragMtu, Len(p)}))]
      BY DEF mesh_to_lora_frames, fragment_payload
    <3> QED BY <3>1 DEF FrameOf, Piece, FragmentsEnd
  <2> QED BY <2>1, <2>2 DEF PacketInv
<1>2. ASSUME NEW f \in airborne, NEW noise \in BOOLEAN, HearFrame(f, noise) PROVE PacketInv'
  <2> DEFINE g == [f EXCEPT !.intact = ~noise]
  <2>1. PICK p \in Packets : FrameOf(f, p)
    BY DEF PacketInv
  <2>2. FrameOf(g, p)
    <3>1. DOMAIN f = {"message_id", "index", "count", "intact", "payload"}
      BY DEF PacketInv
    <3>2. /\ g.message_id = f.message_id /\ g.index = f.index /\ g.count = f.count
          /\ g.payload = f.payload
      BY <3>1
    <3> HIDE DEF g
    <3> QED BY <2>1, <3>2 DEF FrameOf
  <2>3. collected' = Append(collected, g) /\ UNCHANGED <<airborne, delivered>>
    BY <1>2 DEF HearFrame
  <2> HIDE DEF g
  <2>4. /\ AnySeq(collected') /\ Len(collected') = Len(collected) + 1
        /\ \A k \in 1..Len(collected) : collected'[k] = collected[k]
        /\ collected'[Len(collected) + 1] = g
    BY <2>3, AnyAppended DEF PacketInv
  <2>5. Len(collected) \in Nat
    BY AnyLength DEF PacketInv
  <2>6. \A k \in 1..Len(collected') : k \in 1..Len(collected) \/ k = Len(collected) + 1
    BY <2>4, <2>5
  <2>7. \A k \in 1..Len(collected') : \E q \in Packets : FrameOf(collected'[k], q)
    BY <2>2, <2>4, <2>6 DEF PacketInv
  <2> QED BY <2>3, <2>4, <2>7 DEF PacketInv, FrameOf
<1>3. ASSUME ReassemblePacket PROVE PacketInv'
  <2> DEFINE frags == ToSet(collected)
  <2>1. /\ delivered' = delivered \union reassemble_mesh_packet(collected)
        /\ collected' = << >> /\ UNCHANGED airborne
    BY <1>3 DEF ReassemblePacket
  <2>2. \A f \in frags : \E p \in Packets : FrameOf(f, p)
    BY AnyLength DEF PacketInv, ToSet
  <2>3. reassemble_mesh_packet(collected) \subseteq Packets
    <3> SUFFICES ASSUME frags # {}, Consistent(frags), is_complete(frags)
                 PROVE  assemble(frags) \in Packets
      BY DEF reassemble_mesh_packet
    <3> HIDE DEF frags
    <3> QED BY <2>2, CompletePacket
  <2>4. AnySeq(<< >>) /\ Len(<< >>) = 0
    <3>1. << >> \in Seq({})
      OBVIOUS
    <3> QED BY <3>1 DEF AnySeq
  <2> QED BY <2>1, <2>3, <2>4 DEF PacketInv, FrameOf
<1> QED BY <1>1, <1>2, <1>3 DEF PacketNext

\* Where the j-th of the last ids is kept: the oldest one at the cursor.
Place(cur, j) == IF cur + j <= DedupCapacity THEN cur + j ELSE cur + j - DedupCapacity

Remembered ==
    /\ Len(slots) < DedupCapacity => cursor = 0
    /\ recorded \in Seq(Packets) /\ Len(recorded) = Len(slots)
    /\ \A j \in 1..Len(recorded) : recorded[j] = slots[Place(cursor, j)]

DedupInv ==
    /\ slots \in Seq(Packets) /\ Len(slots) <= DedupCapacity /\ cursor \in 0..(DedupCapacity - 1)
    /\ ~forgot => Remembered

LEMMA RecordKeeps == ASSUME DedupInv, NEW id \in Packets, is_duplicate(id) PROVE DedupInv'
<1> DEFINE n == Len(slots)
           C == DedupCapacity
<1>1. C \in Nat /\ C >= 1 /\ n \in Nat /\ n <= C /\ slots \in Seq(Packets)
      /\ cursor \in 0..(C - 1)
  BY LoraLimits DEF DedupInv
<1> HIDE DEF n, C
<1>2. CASE id \in ToSet(slots)
  BY <1>2 DEF is_duplicate, dedupVars, DedupInv, Remembered, Place
<1>3. CASE id \notin ToSet(slots)
  <2> DEFINE q == Append(recorded, id)
             from == Max({1, Len(q) - C + 1})
  <2>1. UNCHANGED forgot /\ recorded' = SubSeq(q, from, Len(q))
    BY <1>3 DEF is_duplicate, C
  <2>2. ASSUME ~forgot
        PROVE  /\ q \in Seq(Packets) /\ Len(q) = n + 1
               /\ \A j \in 1..n : q[j] = slots[Place(cursor, j)]
               /\ q[n + 1] = id
               /\ n < C => cursor = 0
    <3>1. recorded \in Seq(Packets) /\ Len(recorded) = n
      BY <2>2 DEF DedupInv, Remembered, n
    <3>2. /\ q \in Seq(Packets) /\ Len(q) = n + 1
          /\ \A j \in 1..n : q[j] = recorded[j]
          /\ q[n + 1] = id
      BY <3>1, AppendProperties
    <3> HIDE DEF q
    <3> QED BY <2>2, <3>1, <3>2 DEF DedupInv, Remembered, n, C
  <2> HIDE DEF q
  <2>3. CASE n < C
    <3>1. slots' = Append(slots, id) /\ UNCHANGED cursor
      BY <1>3, <2>3 DEF is_duplicate, n, C
    <3>2. /\ slots' \in Seq(Packets) /\ Len(slots') = n + 1
          /\ \A j \in 1..n : slots'[j] = slots[j]
          /\ slots'[n + 1] = id
      BY <1>1, <3>1, AppendProperties DEF n
    <3>3. ASSUME ~forgot
          PROVE  /\ recorded' \in Seq(Packets) /\ Len(recorded') = n + 1
                 /\ \A j \in 1..(n + 1) : recorded'[j] = slots'[Place(cursor, j)]
                 /\ cursor = 0
      <4>1. from = 1
        <5> DEFINE a == Len(q) - C + 1
        <5>1. a \in Int /\ a <= 1 /\ 1 \in Int
          BY <1>1, <2>2, <2>3, <3>3
        <5> HIDE DEF a
        <5>2. Max({1, a}) = 1
          BY <5>1, GreaterOfTwo
        <5> QED BY <5>2 DEF a
      <4>2. recorded' = q
        BY <2>1, <2>2, <3>3, <4>1, SubSeqFull
      <4>3. cursor = 0 /\ \A j \in 1..(n + 1) : Place(cursor, j) = j
        BY <1>1, <2>2, <2>3, <3>3 DEF Place, C
      <4>4. ASSUME NEW j \in 1..(n + 1) PROVE q[j] = slots'[j]
        <5>1. CASE j \in 1..n
          BY <2>2, <3>2, <3>3, <4>3, <5>1
        <5>2. CASE j = n + 1
          BY <2>2, <3>2, <3>3, <5>2
        <5> QED BY <1>1, <5>1, <5>2
      <4> QED BY <2>2, <3>3, <4>2, <4>3, <4>4
    <3>4. cursor' \in 0..(C - 1) /\ n + 1 <= C /\ n + 1 \in Nat
      BY <1>1, <2>3, <3>1
    <3>5. ~forgot' => Remembered'
      BY <2>1, <3>1, <3>2, <3>3 DEF Remembered
    <3> QED BY <3>2, <3>4, <3>5 DEF DedupInv, C
  <2>4. CASE n = C
    <3>1. slots' = [slots EXCEPT ![cursor + 1] = id] /\ cursor' = (cursor + 1) % C
      BY <1>1, <1>3, <2>4 DEF is_duplicate, n, C
    <3>2. /\ slots' \in Seq(Packets) /\ Len(slots') = n
          /\ \A j \in 1..n : slots'[j] = IF j = cursor + 1 THEN id ELSE slots[j]
      <4>1. cursor + 1 \in 1..Len(slots) /\ Len(slots) = n
        BY <1>1, <2>4 DEF n
      <4> QED BY <1>1, <3>1, <4>1, ExceptSeq
    <3>3. cursor' = IF cursor + 1 < C THEN cursor + 1 ELSE 0
      <4>1. CASE cursor + 1 < C
        <5>1. cursor + 1 \in 0..(C - 1)
          BY <1>1, <4>1
        <5> QED BY <1>1, <3>1, <4>1, <5>1, SmallRest
      <4>2. CASE cursor + 1 = C
        <5>1. 1 \in Int /\ 0 \in Int /\ 0 \in 0..(C - 1)
          BY <1>1
        <5>2. (C * 1 + 0) % C = 0 % C
          BY <1>1, <5>1, RestOfMultiple
        <5>3. 0 % C = 0
          BY <1>1, <5>1, SmallRest
        <5>4. C * 1 + 0 = C
          BY <1>1
        <5>5. C % C = 0
          BY <5>2, <5>3, <5>4
        <5> QED BY <1>1, <3>1, <4>2, <5>5
      <4> QED BY <1>1, <4>1, <4>2
    <3>4. ASSUME ~forgot
          PROVE  /\ recorded' \in Seq(Packets) /\ Len(recorded') = n
                 /\ \A j \in 1..n : recorded'[j] = slots'[Place(cursor', j)]
      <4>1. from = 2
        <5> DEFINE a == Len(q) - C + 1
        <5>1. a \in Int /\ a = 2 /\ 1 \in Int
          BY <1>1, <2>2, <2>4, <3>4
        <5> HIDE DEF a
        <5>2. Max({1, a}) = a
          BY <5>1, GreaterOfTwo
        <5> QED BY <5>1, <5>2 DEF a
      <4>2. recorded' = SubSeq(q, 2, n + 1)
        BY <2>1, <2>2, <3>4, <4>1
      <4>3. /\ SubSeq(q, 2, n + 1) \in Seq(Packets) /\ Len(SubSeq(q, 2, n + 1)) = n
            /\ \A j \in 1..n : SubSeq(q, 2, n + 1)[j] = q[j + 1]
        BY <1>1, <2>2, <2>4, <3>4
      <4>4. ASSUME NEW j \in 1..n
            PROVE  q[j + 1] = slots'[Place(cursor', j)]
        <5>1. CASE j = n
          <6>1. Place(cursor', j) = cursor + 1 /\ cursor + 1 \in 1..n
            BY <1>1, <2>4, <3>3, <5>1 DEF Place, C
          <6> QED BY <2>2, <3>2, <3>4, <5>1, <6>1
        <5>2. CASE j < n
          <6>1. /\ j + 1 \in 1..n /\ Place(cursor', j) = Place(cursor, j + 1)
                /\ Place(cursor, j + 1) \in 1..n /\ Place(cursor, j + 1) # cursor + 1
            BY <1>1, <2>4, <3>3, <5>2 DEF Place, C
          <6> QED BY <2>2, <3>2, <3>4, <6>1
        <5> QED BY <1>1, <5>1, <5>2
      <4> QED BY <4>2, <4>3, <4>4
    <3>5. cursor' \in 0..(C - 1)
      BY <1>1, <3>3
    <3>6. ASSUME ~forgot' PROVE Remembered'
      <4>1. ~forgot
        BY <2>1, <3>6
      <4>2. ~(Len(slots') < DedupCapacity)
        BY <1>1, <2>4, <3>2 DEF C
      <4>3. /\ recorded' \in Seq(Packets) /\ Len(recorded') = Len(slots')
            /\ \A j \in 1..Len(recorded') : recorded'[j] = slots'[Place(cursor', j)]
        BY <3>2, <3>4, <4>1
      <4> QED BY <4>2, <4>3 DEF Remembered, Place
    <3> QED BY <1>1, <2>4, <3>2, <3>5, <3>6 DEF DedupInv, C
  <2> QED BY <1>1, <2>3, <2>4
<1> QED BY <1>2, <1>3

LEMMA DedupKeeps == ASSUME DedupInv, DedupNext PROVE DedupInv'
<1>1. ASSUME NEW p \in Packets, forget(p) PROVE DedupInv'
  <2>1. PICK at \in DOMAIN slots : slots' = Front([slots EXCEPT ![at] = Last(slots)])
    <3>1. \E at \in DOMAIN slots : slots[at] = p
      BY <1>1 DEF forget, ToSet
    <3> QED BY <1>1, <3>1 DEF forget
  <2>2. slots \in Seq(Packets) /\ Len(slots) \in Nat /\ Len(slots) <= DedupCapacity
        /\ at \in 1..Len(slots)
    BY DEF DedupInv
  <2> DEFINE z == Last(slots)
             s == [slots EXCEPT ![at] = z]
  <2>3. z \in Packets
    <3>1. Len(slots) \in 1..Len(slots)
      BY <2>2
    <3> QED BY <2>2, <3>1, ElementOfSeq DEF Last
  <2> HIDE DEF z
  <2>4. s \in Seq(Packets) /\ Len(s) = Len(slots)
    BY <2>2, <2>3, ExceptSeq
  <2>5. slots' = Front(s)
    BY <2>1 DEF z
  <2> HIDE DEF s
  <2>6. slots' \in Seq(Packets) /\ Len(slots') = Len(slots) - 1
    BY <2>2, <2>4, <2>5 DEF Front
  <2>7. forgot' /\ UNCHANGED cursor
    BY <1>1 DEF forget
  <2>8. Len(slots') <= DedupCapacity
    BY <2>2, <2>6, LoraLimits
  <2> QED BY <2>6, <2>7, <2>8 DEF DedupInv
<1>2. ASSUME clear PROVE DedupInv'
  BY <1>2, LoraLimits DEF clear, DedupInv, Remembered
<1> QED BY <1>1, <1>2, RecordKeeps DEF DedupNext

\* What is put together was sent, and a packet is recognised until as many others
\* have come as the cache holds: for all packets whose fragments can be counted,
\* all sizes of frames and caches, whatever is lost, repeated, altered or mixed
\* (reassemble_mesh_packet, is_duplicate).
THEOREM OnlyWholePackets ==
    ASSUME CountsFit
    PROVE  LoraSpec => []PacketsArriveOnce
<1>1. PacketInit /\ DedupInit => PacketInv /\ DedupInv
  <2>1. AnySeq(<< >>) /\ Len(<< >>) = 0
    <3>1. << >> \in Seq({})
      OBVIOUS
    <3> QED BY <3>1 DEF AnySeq
  <2> QED BY <2>1, LoraLimits DEF PacketInit, DedupInit, PacketInv, DedupInv, Remembered
<1>2. PacketInv /\ UNCHANGED packetVars => PacketInv'
  BY DEF PacketInv, packetVars, FrameOf
<1>3. DedupInv /\ UNCHANGED dedupVars => DedupInv'
  BY DEF DedupInv, Remembered, dedupVars, Place
<1>4. PacketInv /\ DedupInv /\ [LoraNext]_loraVars => PacketInv' /\ DedupInv'
  BY <1>2, <1>3, PacketKeeps, DedupKeeps DEF LoraNext, loraVars
<1>5. PacketInv /\ DedupInv => PacketsArriveOnce
  <2> SUFFICES ASSUME DedupInv, Remembered PROVE ToSet(recorded) \subseteq ToSet(slots)
    BY DEF PacketsArriveOnce, PacketInv, DedupInv
  <2>1. /\ DOMAIN recorded = 1..Len(recorded) /\ DOMAIN slots = 1..Len(slots)
        /\ Len(slots) \in Nat /\ Len(recorded) = Len(slots) /\ Len(slots) <= DedupCapacity
    BY DEF DedupInv, Remembered
  <2>2. ASSUME NEW j \in 1..Len(recorded) PROVE Place(cursor, j) \in 1..Len(slots)
    <3>1. /\ j \in Nat /\ j >= 1 /\ j <= Len(slots) /\ cursor \in Nat /\ cursor < DedupCapacity
          /\ DedupCapacity \in Nat /\ (Len(slots) < DedupCapacity => cursor = 0)
      BY <2>1, LoraLimits DEF DedupInv, Remembered
    <3> DEFINE n == Len(slots)
    <3>2. n \in Nat /\ n <= DedupCapacity /\ j <= n /\ (n < DedupCapacity => cursor = 0)
      BY <2>1, <3>1
    <3> HIDE DEF n
    <3>3. Place(cursor, j) \in 1..n
      BY <3>1, <3>2 DEF Place
    <3> QED BY <3>3 DEF n
  <2> QED BY <2>1, <2>2 DEF Remembered, ToSet
<1> QED BY <1>1, <1>4, <1>5, PTL DEF LoraSpec
-----------------------------------------------------------------------------
(***************************************************************************)
(* The duty cycle.  What is on the air in a stretch of time is counted by  *)
(* the windows in which it began: what began in the windows before, what   *)
(* began in the window the stretch begins in, and what began in the next.  *)
(***************************************************************************)

Stretch == Nat \X Nat

\* How long a transmission is on the air from lo to hi, when it began in from..to.
OnAir(x, lo, hi, from, to) ==
    LET b == IF x[1] > lo THEN x[1] ELSE lo
        e == IF x[2] < hi THEN x[2] ELSE hi
    IN  IF from <= x[1] /\ x[1] < to /\ b < e THEN e - b ELSE 0

Parts(s, lo, hi, from, to) == [k \in 1..Len(s) |-> OnAir(s[k], lo, hi, from, to)]
Aired(s, lo, hi, from, to) == Total(Parts(s, lo, hi, from, to), 1..Len(s))

LEMMA PartsCount ==
    ASSUME NEW s \in Seq(Stretch), NEW lo \in Nat, NEW hi \in Nat, NEW from \in Nat, NEW to \in Nat
    PROVE  /\ IsFiniteSet(1..Len(s))
           /\ Counting(Parts(s, lo, hi, from, to), 1..Len(s))
           /\ Aired(s, lo, hi, from, to) \in Nat
<1> DEFINE g == Parts(s, lo, hi, from, to)
           S == 1..Len(s)
<1>1. IsFiniteSet(S)
  BY FS_Interval
<1>2. \A k \in S : g[k] \in Nat
  BY DEF Parts, OnAir, Stretch
<1> HIDE DEF g, S
<1>3. Total(g, S) \in Nat
  BY <1>1, <1>2, TotalIsNat
<1> QED BY <1>1, <1>2, <1>3 DEF g, S, Aired, Counting

\* One transmission more.
LEMMA OneMoreAired ==
    ASSUME NEW s \in Seq(Stretch), NEW x \in Stretch,
           NEW lo \in Nat, NEW hi \in Nat, NEW from \in Nat, NEW to \in Nat
    PROVE  Aired(Append(s, x), lo, hi, from, to)
             = OnAir(x, lo, hi, from, to) + Aired(s, lo, hi, from, to)
<1> DEFINE r == Append(s, x)
           S == 1..Len(s)
           n == Len(s) + 1
           g == Parts(r, lo, hi, from, to)
           h == Parts(s, lo, hi, from, to)
<1>1. /\ r \in Seq(Stretch) /\ Len(r) = n /\ n \in Nat
      /\ \A k \in S : r[k] = s[k]
      /\ r[n] = x
  BY AppendProperties
<1>2. 1..Len(r) = S \cup {n} /\ n \notin S /\ n \in 1..Len(r)
  BY <1>1
<1> HIDE DEF r
<1>3. \A k \in S : g[k] = h[k]
  BY <1>1, <1>2 DEF Parts
<1>4. g[n] = OnAir(x, lo, hi, from, to)
  BY <1>1, <1>2 DEF Parts
<1>5. Counting(g, 1..Len(r)) /\ IsFiniteSet(S)
  BY <1>1, PartsCount
<1> HIDE DEF g, h, S, n
<1>6. Counting(g, S) /\ g[n] \in Nat
  BY <1>2, <1>5 DEF Counting
<1>7. Total(g, S \cup {n}) = g[n] + Total(g, S)
  BY <1>2, <1>5, <1>6, TotalTakesIn
<1>8. Total(g, S) = Total(h, S)
  BY <1>3, <1>5, TotalsAgree
<1> QED BY <1>2, <1>4, <1>7, <1>8 DEF g, h, S, Aired, r

\* Nothing is on the air of transmissions that are over or began elsewhere.
LEMMA NothingAired ==
    ASSUME NEW s \in Seq(Stretch), NEW lo \in Nat, NEW hi \in Nat, NEW from \in Nat, NEW to \in Nat,
           \A k \in 1..Len(s) : OnAir(s[k], lo, hi, from, to) = 0
    PROVE  Aired(s, lo, hi, from, to) = 0
<1> DEFINE g == Parts(s, lo, hi, from, to)
           S == 1..Len(s)
<1>1. IsFiniteSet(S) /\ \A k \in S : g[k] = 0
  BY FS_Interval DEF Parts
<1> HIDE DEF g, S
<1>2. Total(g, S) = 0
  BY <1>1, TotalOfZeros
<1> QED BY <1>2 DEF g, S, Aired

\* What any list of transmissions obeys that begin in time and within budget.
Bounded(s) ==
    \A lo, hi \in Nat :
        /\ \A from, to \in Nat : lo <= hi => Aired(s, lo, hi, from, to) <= hi - lo
        /\ \A i \in Nat :
              /\ Aired(s, lo, hi, WindowUs * i, WindowUs * i + WindowUs) <= BudgetUs
              /\ lo >= WindowUs * i =>
                    Aired(s, lo, hi, 0, WindowUs * i)
                      <= IF BudgetUs >= lo - WindowUs * i THEN BudgetUs - (lo - WindowUs * i) ELSE 0

\* The account holds what began in the window it is for.
OnAccount(start, held, s) ==
    \A lo, hi \in Nat : Aired(s, lo, hi, start, start + WindowUs) <= held

Window(start, t) == start <= t /\ \E w \in Nat : start = WindowUs * w

DutyInv ==
    /\ now_us \in Nat /\ window_start_us \in Nat /\ on_air_us \in Nat
    /\ on_air_us <= BudgetUs
    /\ Window(window_start_us, now_us)
    /\ sent \in Seq(Stretch)
    /\ \A k \in 1..Len(sent) : /\ sent[k][1] <= sent[k][2] /\ sent[k][2] <= now_us
                               /\ sent[k][1] < window_start_us + WindowUs
    /\ OnAccount(window_start_us, on_air_us, sent)
    /\ Bounded(sent)

LEMMA DutyLimits ==
    /\ WindowUs \in Nat /\ WindowUs >= 1 /\ BudgetUs \in Nat /\ BudgetUs <= WindowUs
    /\ Airtimes \subseteq Nat /\ CcaUs \in Nat
BY LoraAssumption

\* The window and the account at a later time.
LEMMA WindowRolls ==
    ASSUME DutyInv, NEW t \in Nat, t >= now_us
    PROVE  /\ WindowAt(t) \in Nat /\ OnAirAt(t) \in Nat /\ OnAirAt(t) <= BudgetUs
           /\ Window(WindowAt(t), t)
           /\ t < WindowAt(t) + WindowUs
           /\ window_start_us <= WindowAt(t)
           /\ OnAccount(WindowAt(t), OnAirAt(t), sent)
<1>1. /\ now_us \in Nat /\ window_start_us \in Nat /\ on_air_us \in Nat
      /\ on_air_us <= BudgetUs /\ Window(window_start_us, now_us)
      /\ OnAccount(window_start_us, on_air_us, sent)
  BY DEF DutyInv
<1>2. CASE ~Rolls(t)
  <2>1. WindowAt(t) = window_start_us /\ OnAirAt(t) = on_air_us
    BY <1>2 DEF WindowAt, OnAirAt
  <2>2. window_start_us <= t /\ t < window_start_us + WindowUs
    BY <1>1, <1>2, DutyLimits DEF Rolls, Window
  <2> QED BY <1>1, <2>1, <2>2 DEF Window
<1>3. CASE Rolls(t)
  <2> DEFINE d == t - window_start_us
             q == d \div WindowUs
  <2>1. d \in Int /\ d >= WindowUs
    BY <1>1, <1>3 DEF Rolls
  <2>2. q \in Int /\ d % WindowUs \in 0..(WindowUs - 1) /\ d = WindowUs * q + (d % WindowUs)
        /\ q \in Nat
    <3>1. d \in Int /\ d >= 0 /\ WindowUs \in Nat /\ WindowUs >= 1
      BY <2>1, DutyLimits
    <3> HIDE DEF d
    <3> QED BY <3>1, Division
  <2>3. WindowAt(t) = window_start_us + WindowUs * q /\ OnAirAt(t) = 0
    BY <1>3 DEF WindowAt, OnAirAt
  <2> HIDE DEF q
  <2> DEFINE m == WindowUs * q
             r == d % WindowUs
  <2>4. m \in Nat /\ r \in 0..(WindowUs - 1) /\ d = m + r
    BY <2>2, DutyLimits
  <2> HIDE DEF m, r
  <2>5. WindowAt(t) = window_start_us + m
    BY <2>3 DEF m
  <2>6. /\ WindowAt(t) \in Nat /\ WindowAt(t) <= t /\ t < WindowAt(t) + WindowUs
        /\ window_start_us + WindowUs <= WindowAt(t)
    <3>1. q >= 1
      <4>1. q = 0 => m = 0
        BY DutyLimits DEF m
      <4> QED BY <2>1, <2>2, <2>4, <4>1, DutyLimits
    <3>2. m >= WindowUs
      <4>1. WindowUs * q >= WindowUs * 1
        BY <2>2, <3>1, DutyLimits
      <4> QED BY <4>1, DutyLimits DEF m
    <3> QED BY <1>1, <2>4, <2>5, <3>2, DutyLimits DEF d
  <2>7. Window(WindowAt(t), t)
    <3>1. PICK w \in Nat : window_start_us = WindowUs * w
      BY <1>1 DEF Window
    <3>2. w + q \in Nat /\ WindowUs * (w + q) = WindowUs * w + WindowUs * q
      BY <2>2, DutyLimits
    <3>3. WindowAt(t) = WindowUs * (w + q)
      BY <2>5, <3>1, <3>2 DEF m
    <3> QED BY <2>6, <3>2, <3>3 DEF Window
  <2>8. OnAccount(WindowAt(t), 0, sent)
    <3> DEFINE u == WindowAt(t)
    <3> SUFFICES ASSUME NEW lo \in Nat, NEW hi \in Nat
                 PROVE  Aired(sent, lo, hi, u, u + WindowUs) <= 0
      BY DEF OnAccount
    <3>1. u \in Nat /\ u + WindowUs \in Nat /\ sent \in Seq(Stretch)
      BY <2>6, DutyLimits DEF DutyInv
    <3>2. ASSUME NEW k \in 1..Len(sent) PROVE sent[k] \in Stretch /\ sent[k][1] < u
      <4>1. sent[k] \in Stretch
        BY <3>1
      <4>2. sent[k][1] \in Nat /\ sent[k][1] < window_start_us + WindowUs
        BY <4>1 DEF DutyInv, Stretch
      <4> QED BY <1>1, <2>6, <4>1, <4>2, DutyLimits
    <3> DEFINE v == u + WindowUs
    <3> HIDE DEF u
    <3>3. \A k \in 1..Len(sent) : OnAir(sent[k], lo, hi, u, v) = 0
      BY <3>1, <3>2 DEF OnAir, Stretch
    <3>4. v \in Nat
      BY <3>1
    <3> HIDE DEF v
    <3>5. Aired(sent, lo, hi, u, v) = 0
      BY <3>1, <3>3, <3>4, NothingAired
    <3> QED BY <3>5 DEF u, v
  <2> QED BY <1>1, <2>3, <2>6, <2>7, <2>8, DutyLimits
<1> QED BY <1>2, <1>3

LEMMA SameAired ==
    ASSUME NEW s \in Seq(Stretch), NEW lo, NEW hi, NEW from, NEW to,
           NEW lo2, NEW hi2, NEW from2, NEW to2,
           \A k \in 1..Len(s) : OnAir(s[k], lo, hi, from, to) = OnAir(s[k], lo2, hi2, from2, to2)
    PROVE  Aired(s, lo, hi, from, to) = Aired(s, lo2, hi2, from2, to2)
<1>1. Parts(s, lo, hi, from, to) = Parts(s, lo2, hi2, from2, to2)
  BY DEF Parts
<1> QED BY <1>1 DEF Aired

\* Every transmission so far is over at t.
Over(s, t) == \A k \in 1..Len(s) : s[k][1] <= s[k][2] /\ s[k][2] <= t

LEMMA AirOfOne ==
    ASSUME NEW t \in Nat, NEW a \in Nat, NEW lo \in Nat, NEW hi \in Nat,
           NEW from \in Nat, NEW to \in Nat
    PROVE  LET o == OnAir(<<t, t + a>>, lo, hi, from, to)
           IN  /\ o \in Nat /\ o <= a
               /\ o # 0 => /\ from <= t /\ t < to /\ t < hi
                           /\ o <= hi - t /\ o <= hi - lo /\ o <= t + a - lo
BY DEF OnAir

\* No stretch has more on the air than it is long.
LEMMA StretchFits ==
    ASSUME NEW s \in Seq(Stretch), NEW t \in Nat, NEW a \in Nat, Over(s, t), Bounded(s),
           NEW lo \in Nat, NEW hi \in Nat, NEW from \in Nat, NEW to \in Nat, lo <= hi
    PROVE  Aired(Append(s, <<t, t + a>>), lo, hi, from, to) <= hi - lo
<1> DEFINE x == <<t, t + a>>
           o == OnAir(x, lo, hi, from, to)
<1>1. x \in Stretch
  BY DEF Stretch
<1>2. /\ o \in Nat
      /\ o # 0 => t < hi /\ o <= hi - t /\ o <= hi - lo
  BY AirOfOne
<1> HIDE DEF x, o
<1>3. Aired(Append(s, x), lo, hi, from, to) = o + Aired(s, lo, hi, from, to)
  BY <1>1, OneMoreAired DEF o
<1>4. Aired(s, lo, hi, from, to) \in Nat /\ Aired(s, lo, hi, from, to) <= hi - lo
  BY PartsCount DEF Bounded
<1>5. CASE o = 0
  BY <1>3, <1>4, <1>5 DEF x
<1>6. CASE o # 0
  <2> DEFINE m == IF lo > t THEN lo ELSE t
  <2>1. m \in Nat /\ lo <= m /\ t <= m /\ o <= hi - m
    BY <1>2, <1>6
  <2> HIDE DEF m
  <2>2. m <= hi
    BY <1>2, <2>1
  <2>3. \A k \in 1..Len(s) : OnAir(s[k], lo, hi, from, to) = OnAir(s[k], lo, m, from, to)
    <3> SUFFICES ASSUME NEW k \in 1..Len(s)
                 PROVE  OnAir(s[k], lo, hi, from, to) = OnAir(s[k], lo, m, from, to)
      OBVIOUS
    <3>1. s[k] \in Stretch
      OBVIOUS
    <3>2. s[k][1] \in Nat /\ s[k][2] \in Nat /\ s[k][2] <= m /\ s[k][2] <= hi
      BY <2>1, <2>2, <3>1 DEF Over, Stretch
    <3> QED BY <2>1, <2>2, <3>2 DEF OnAir
  <2>4. Aired(s, lo, hi, from, to) = Aired(s, lo, m, from, to)
    BY <2>3, SameAired
  <2>5. Aired(s, lo, m, from, to) \in Nat /\ Aired(s, lo, m, from, to) <= m - lo
    BY <2>1, PartsCount DEF Bounded
  <2> QED BY <1>2, <1>3, <2>1, <2>4, <2>5 DEF x
<1> QED BY <1>5, <1>6

\* What began in earlier windows reaches into this one by what is left of a budget.
LEMMA EarlierEnds ==
    ASSUME NEW s \in Seq(Stretch), NEW t \in Nat, NEW a \in Nat, Over(s, t), Bounded(s),
           a <= BudgetUs, NEW lo \in Nat, NEW hi \in Nat, NEW w \in Nat, NEW i \in Nat,
           w = WindowUs * i, lo >= w
    PROVE  Aired(Append(s, <<t, t + a>>), lo, hi, 0, w)
             <= IF BudgetUs >= lo - w THEN BudgetUs - (lo - w) ELSE 0
<1> DEFINE x == <<t, t + a>>
           o == OnAir(x, lo, hi, 0, w)
<1>1. x \in Stretch
  BY DEF Stretch
<1>2. /\ o \in Nat
      /\ o # 0 => t < w /\ o <= t + a - lo
  BY AirOfOne
<1> HIDE DEF x, o
<1>3. Aired(Append(s, x), lo, hi, 0, w) = o + Aired(s, lo, hi, 0, w)
  BY <1>1, OneMoreAired DEF o
<1>4. Aired(s, lo, hi, 0, w) \in Nat
      /\ Aired(s, lo, hi, 0, w) <= IF BudgetUs >= lo - w THEN BudgetUs - (lo - w) ELSE 0
  BY PartsCount DEF Bounded
<1>5. CASE o = 0
  BY <1>3, <1>4, <1>5 DEF x
<1>6. CASE o # 0
  <2>1. \A k \in 1..Len(s) : OnAir(s[k], lo, hi, 0, w) = 0
    <3> SUFFICES ASSUME NEW k \in 1..Len(s) PROVE OnAir(s[k], lo, hi, 0, w) = 0
      OBVIOUS
    <3>1. s[k] \in Stretch
      OBVIOUS
    <3>2. s[k][1] \in Nat /\ s[k][2] \in Nat /\ s[k][2] <= lo
      BY <1>2, <1>6, <3>1 DEF Over, Stretch
    <3> QED BY <3>2 DEF OnAir
  <2>2. Aired(s, lo, hi, 0, w) = 0
    BY <2>1, NothingAired
  <2> QED BY <1>2, <1>3, <1>6, <2>2, DutyLimits DEF x
<1> QED BY <1>5, <1>6

\* What began in one window is within a budget.
LEMMA WindowFits ==
    ASSUME NEW s \in Seq(Stretch), NEW t \in Nat, NEW a \in Nat, Bounded(s),
           NEW start \in Nat, NEW held \in Nat, Window(start, t), t < start + WindowUs,
           OnAccount(start, held, s), held + a <= BudgetUs,
           NEW lo \in Nat, NEW hi \in Nat, NEW i \in Nat
    PROVE  Aired(Append(s, <<t, t + a>>), lo, hi, WindowUs * i, WindowUs * i + WindowUs) <= BudgetUs
<1> DEFINE x == <<t, t + a>>
           w == WindowUs * i
           v == w + WindowUs
           o == OnAir(x, lo, hi, w, v)
<1>1. x \in Stretch /\ w \in Nat /\ v \in Nat /\ v = w + WindowUs
  BY DutyLimits DEF Stretch
<1>p. PICK j \in Nat : start = WindowUs * j
  BY DEF Window
<1>7. w # start => start + WindowUs <= w \/ v <= start
  <2>1. i # j => i >= j + 1 \/ j >= i + 1
    OBVIOUS
  <2>2. i >= j + 1 => WindowUs * i >= WindowUs * (j + 1)
    BY DutyLimits
  <2>3. j >= i + 1 => WindowUs * j >= WindowUs * (i + 1)
    BY DutyLimits
  <2>4. WindowUs * (j + 1) = WindowUs * j + WindowUs /\ WindowUs * (i + 1) = WindowUs * i + WindowUs
    BY DutyLimits
  <2> QED BY <1>p, <2>1, <2>2, <2>3, <2>4, DutyLimits
<1>w. \A q \in Nat : q = Aired(s, lo, hi, w, v) => q <= BudgetUs
  BY DEF Bounded
<1> HIDE DEF w, v
<1>2. o \in Nat /\ o <= a /\ (o # 0 => w <= t /\ t < v)
  BY <1>1, AirOfOne
<1> HIDE DEF x, o
<1>3. Aired(Append(s, x), lo, hi, w, v) = o + Aired(s, lo, hi, w, v)
  BY <1>1, OneMoreAired DEF o
<1>4. Aired(s, lo, hi, w, v) \in Nat
  BY <1>1, PartsCount
<1>5. CASE w = start
  <2>1. Aired(s, lo, hi, w, v) <= held
    BY <1>1, <1>5 DEF OnAccount
  <2> QED BY <1>2, <1>3, <1>4, <2>1, DutyLimits DEF x, w, v
<1>6. CASE w # start
  <2>1. o = 0
    BY <1>1, <1>2, <1>6, <1>7, DutyLimits DEF Window
  <2>2. Aired(s, lo, hi, w, v) <= BudgetUs
    BY <1>4, <1>w
  <2> QED BY <1>3, <1>4, <2>1, <2>2 DEF x, w, v
<1> QED BY <1>5, <1>6

LEMMA TransmissionKeeps ==
    ASSUME DutyInv, NEW t \in Nat, t >= now_us, NEW a \in Nat, record_tx(t, a)
    PROVE  DutyInv'
<1> DEFINE x == <<t, t + a>>
           start == WindowAt(t)
           held == OnAirAt(t)
<1>1. /\ start \in Nat /\ held \in Nat /\ held <= BudgetUs /\ Window(start, t)
      /\ t < start + WindowUs /\ window_start_us <= start
      /\ OnAccount(start, held, sent)
  BY WindowRolls
<1>2. /\ held + a <= BudgetUs /\ window_start_us' = start /\ on_air_us' = held + a
      /\ now_us' = t + a /\ sent' = Append(sent, x)
  BY <1>1, DutyLimits DEF record_tx, can_transmit
<1> HIDE DEF start, held
<1>3. /\ sent \in Seq(Stretch) /\ Bounded(sent) /\ Over(sent, t)
      /\ \A k \in 1..Len(sent) : sent[k][1] < window_start_us + WindowUs
  <2>1. /\ sent \in Seq(Stretch) /\ Bounded(sent) /\ now_us \in Nat
        /\ \A k \in 1..Len(sent) : /\ sent[k][1] <= sent[k][2] /\ sent[k][2] <= now_us
                                   /\ sent[k][1] < window_start_us + WindowUs
    BY DEF DutyInv
  <2>2. ASSUME NEW k \in 1..Len(sent) PROVE sent[k][2] <= t
    <3>1. sent[k] \in Stretch
      BY <2>1
    <3>2. sent[k][2] \in Nat /\ sent[k][2] <= now_us
      BY <2>1, <3>1 DEF Stretch
    <3> QED BY <2>1, <3>2
  <2> QED BY <2>1, <2>2 DEF Over
<1>4. /\ sent' \in Seq(Stretch) /\ Len(sent') = Len(sent) + 1
      /\ \A k \in 1..Len(sent) : sent'[k] = sent[k]
      /\ sent'[Len(sent) + 1] = x
  <2>1. x \in Stretch
    BY DEF Stretch
  <2> HIDE DEF x
  <2> QED BY <1>2, <1>3, <2>1, AppendProperties
<1>5. \A k \in 1..Len(sent') : /\ sent'[k][1] <= sent'[k][2] /\ sent'[k][2] <= t + a
                               /\ sent'[k][1] < start + WindowUs
  <2> SUFFICES ASSUME NEW k \in 1..Len(sent')
               PROVE  /\ sent'[k][1] <= sent'[k][2] /\ sent'[k][2] <= t + a
                      /\ sent'[k][1] < start + WindowUs
    OBVIOUS
  <2>1. CASE k \in 1..Len(sent)
    <3>1. sent[k] \in Stretch /\ sent'[k] = sent[k]
      BY <1>3, <1>4, <2>1
    <3>2. /\ sent[k][1] \in Nat /\ sent[k][2] \in Nat /\ sent[k][1] <= sent[k][2]
          /\ sent[k][2] <= t /\ sent[k][1] < window_start_us + WindowUs
      BY <1>3, <2>1, <3>1 DEF Over, Stretch
    <3>3. window_start_us \in Nat
      BY DEF DutyInv
    <3> QED BY <1>1, <3>1, <3>2, <3>3, DutyLimits
  <2>2. CASE k = Len(sent) + 1
    BY <1>1, <1>4, <2>2
  <2>3. Len(sent) \in Nat
    BY <1>3
  <2> QED BY <1>4, <2>1, <2>2, <2>3
<1>6. OnAccount(start, held + a, sent')
  <2> SUFFICES ASSUME NEW lo \in Nat, NEW hi \in Nat
               PROVE  Aired(sent', lo, hi, start, start + WindowUs) <= held + a
    BY DEF OnAccount
  <2> DEFINE v == start + WindowUs
             o == OnAir(x, lo, hi, start, v)
  <2>1. v \in Nat /\ x \in Stretch
    BY <1>1, DutyLimits DEF Stretch
  <2>2. Aired(sent, lo, hi, start, v) <= held
    BY <1>1 DEF OnAccount
  <2> HIDE DEF v
  <2>3. o \in Nat /\ o <= a
    BY <1>1, <2>1, AirOfOne
  <2> HIDE DEF x, o
  <2>4. Aired(Append(sent, x), lo, hi, start, v) = o + Aired(sent, lo, hi, start, v)
    BY <1>1, <1>3, <2>1, OneMoreAired DEF o
  <2>5. Aired(sent, lo, hi, start, v) \in Nat
    BY <1>1, <1>3, <2>1, PartsCount
  <2>6. Aired(Append(sent, x), lo, hi, start, v) <= held + a
    BY <1>1, <2>2, <2>3, <2>4, <2>5
  <2> QED BY <1>2, <2>6 DEF v
<1>7. Bounded(sent')
  <2> SUFFICES ASSUME NEW lo \in Nat, NEW hi \in Nat
               PROVE  /\ \A from, to \in Nat : lo <= hi => Aired(sent', lo, hi, from, to) <= hi - lo
                      /\ \A i \in Nat :
                           /\ Aired(sent', lo, hi, WindowUs * i, WindowUs * i + WindowUs) <= BudgetUs
                           /\ lo >= WindowUs * i =>
                                 Aired(sent', lo, hi, 0, WindowUs * i)
                                   <= IF BudgetUs >= lo - WindowUs * i
                                        THEN BudgetUs - (lo - WindowUs * i) ELSE 0
    BY DEF Bounded
  <2>1. ASSUME NEW from \in Nat, NEW to \in Nat, lo <= hi
        PROVE  Aired(sent', lo, hi, from, to) <= hi - lo
    BY <1>2, <1>3, <2>1, StretchFits
  <2>2. ASSUME NEW i \in Nat
        PROVE  Aired(sent', lo, hi, WindowUs * i, WindowUs * i + WindowUs) <= BudgetUs
    BY <1>1, <1>2, <1>3, WindowFits
  <2>3. ASSUME NEW i \in Nat, lo >= WindowUs * i
        PROVE  Aired(sent', lo, hi, 0, WindowUs * i)
                  <= IF BudgetUs >= lo - WindowUs * i THEN BudgetUs - (lo - WindowUs * i) ELSE 0
    <3> DEFINE w == WindowUs * i
    <3>1. w \in Nat /\ w = WindowUs * i /\ lo >= w /\ a <= BudgetUs
      BY <1>1, <1>2, <2>3, DutyLimits
    <3> HIDE DEF w
    <3>2. Aired(Append(sent, x), lo, hi, 0, w)
             <= IF BudgetUs >= lo - w THEN BudgetUs - (lo - w) ELSE 0
      BY <1>3, <3>1, EarlierEnds
    <3> QED BY <1>2, <3>2 DEF w
  <2> QED BY <2>1, <2>2, <2>3
<1>8. Window(start, t + a) /\ t + a \in Nat /\ held + a \in Nat
  BY <1>1 DEF Window
<1> QED BY <1>1, <1>2, <1>4, <1>5, <1>6, <1>7, <1>8 DEF DutyInv

LEMMA DutyKeeps == ASSUME DutyInv, MacNext PROVE DutyInv'
<1>1. ASSUME NEW a \in Airtimes, transmit(a) PROVE DutyInv'
  <2>1. PICK delay \in CcaUs..(2 * CcaUs + CwSlots * SlotUs) : record_tx(now_us + delay, a)
    BY <1>1 DEF transmit
  <2> DEFINE t == now_us + delay
  <2>2. t \in Nat /\ t >= now_us /\ a \in Nat
    BY <2>1, DutyLimits DEF DutyInv
  <2>3. record_tx(t, a)
    BY <2>1
  <2> HIDE DEF t
  <2> QED BY <2>2, <2>3, TransmissionKeeps
<1>2. ASSUME advance_time(1) PROVE DutyInv'
  <2> DEFINE t == now_us + 1
  <2>1. t \in Nat /\ t >= now_us /\ now_us \in Nat
    BY DEF DutyInv
  <2>2. /\ now_us' = t /\ window_start_us' = WindowAt(t) /\ on_air_us' = OnAirAt(t)
        /\ UNCHANGED sent
    BY <1>2 DEF advance_time
  <2> HIDE DEF t
  <2>3. /\ WindowAt(t) \in Nat /\ OnAirAt(t) \in Nat /\ OnAirAt(t) <= BudgetUs
        /\ Window(WindowAt(t), t)
        /\ window_start_us <= WindowAt(t)
        /\ OnAccount(WindowAt(t), OnAirAt(t), sent)
    BY <2>1, WindowRolls
  <2>4. ASSUME NEW k \in 1..Len(sent)
        PROVE  /\ sent[k][1] <= sent[k][2] /\ sent[k][2] <= t
               /\ sent[k][1] < WindowAt(t) + WindowUs
    <3>1. sent \in Seq(Stretch) /\ window_start_us \in Nat
      BY DEF DutyInv
    <3>2. sent[k] \in Stretch
      BY <3>1
    <3>3. /\ sent[k][1] \in Nat /\ sent[k][2] \in Nat
          /\ sent[k][1] <= sent[k][2] /\ sent[k][2] <= now_us
          /\ sent[k][1] < window_start_us + WindowUs
      BY <3>2 DEF DutyInv, Stretch
    <3> QED BY <2>1, <2>3, <3>1, <3>3, DutyLimits
  <2> QED BY <2>1, <2>2, <2>3, <2>4 DEF DutyInv
<1>3. ASSUME ChannelBusy PROVE DutyInv'
  BY <1>3 DEF ChannelBusy, DutyInv
<1> QED BY <1>1, <1>2, <1>3 DEF MacNext

LEMMA DutyStarts == MacInit => DutyInv
<1> SUFFICES ASSUME MacInit PROVE DutyInv
  OBVIOUS
<1>1. now_us = 0 /\ window_start_us = 0 /\ on_air_us = 0 /\ sent = << >>
  BY DEF MacInit
<1>2. sent \in Seq(Stretch) /\ Len(sent) = 0
  BY <1>1
<1>3. ASSUME NEW lo \in Nat, NEW hi \in Nat, NEW from \in Nat, NEW to \in Nat
      PROVE  Aired(sent, lo, hi, from, to) = 0
  <2>1. \A k \in 1..Len(sent) : OnAir(sent[k], lo, hi, from, to) = 0
    BY <1>2
  <2> QED BY <1>2, <2>1, NothingAired
<1>4. Window(0, 0)
  <2>1. WindowUs * 0 = 0
    BY DutyLimits
  <2> QED BY <2>1 DEF Window
<1>5. OnAccount(0, 0, sent)
  <2>1. 0 + WindowUs \in Nat
    BY DutyLimits
  <2> QED BY <1>3, <2>1 DEF OnAccount
<1>6. Bounded(sent)
  <2> SUFFICES ASSUME NEW lo \in Nat, NEW hi \in Nat
               PROVE  /\ \A from, to \in Nat : lo <= hi => Aired(sent, lo, hi, from, to) <= hi - lo
                      /\ \A i \in Nat :
                           /\ Aired(sent, lo, hi, WindowUs * i, WindowUs * i + WindowUs) <= BudgetUs
                           /\ lo >= WindowUs * i =>
                                 Aired(sent, lo, hi, 0, WindowUs * i)
                                   <= IF BudgetUs >= lo - WindowUs * i
                                        THEN BudgetUs - (lo - WindowUs * i) ELSE 0
    BY DEF Bounded
  <2>1. \A from, to \in Nat : lo <= hi => Aired(sent, lo, hi, from, to) <= hi - lo
    BY <1>3
  <2>2. ASSUME NEW i \in Nat PROVE WindowUs * i \in Nat /\ WindowUs * i + WindowUs \in Nat
    BY DutyLimits
  <2>3. ASSUME NEW i \in Nat
        PROVE  /\ Aired(sent, lo, hi, WindowUs * i, WindowUs * i + WindowUs) = 0
               /\ Aired(sent, lo, hi, 0, WindowUs * i) = 0
    BY <1>3, <2>2
  <2>4. ASSUME NEW i \in Nat, lo >= WindowUs * i
        PROVE  0 <= IF BudgetUs >= lo - WindowUs * i THEN BudgetUs - (lo - WindowUs * i) ELSE 0
    <3> DEFINE w == WindowUs * i
    <3>1. w \in Nat
      BY <2>2
    <3> HIDE DEF w
    <3>2. 0 <= IF BudgetUs >= lo - w THEN BudgetUs - (lo - w) ELSE 0
      BY <3>1, DutyLimits
    <3> QED BY <3>2 DEF w
  <2>5. ASSUME NEW i \in Nat
        PROVE  /\ Aired(sent, lo, hi, WindowUs * i, WindowUs * i + WindowUs) <= BudgetUs
               /\ lo >= WindowUs * i =>
                     Aired(sent, lo, hi, 0, WindowUs * i)
                       <= IF BudgetUs >= lo - WindowUs * i
                            THEN BudgetUs - (lo - WindowUs * i) ELSE 0
    BY <2>3, <2>4, DutyLimits
  <2> QED BY <2>1, <2>5
<1> QED BY <1>1, <1>2, <1>4, <1>5, <1>6, DutyLimits DEF DutyInv

\* The part of a transmission that a stretch of a window's length hears began
\* before the window of its first moment, in it, or in the next.
LEMMA ThreeWindows ==
    ASSUME NEW x \in Stretch, NEW lo \in Nat, NEW w \in Nat, w <= lo, lo < w + WindowUs
    PROVE  OnAir(x, lo, lo + WindowUs, 0, w + WindowUs + WindowUs)
             <= OnAir(x, lo, lo + WindowUs, 0, w)
                  + (OnAir(x, lo, lo + WindowUs, w, w + WindowUs)
                       + OnAir(x, w + WindowUs, lo + WindowUs, w + WindowUs, w + WindowUs + WindowUs))
BY DutyLimits DEF OnAir, Stretch

LEMMA TwoBudgets ==
    ASSUME DutyInv, NEW t \in Nat
    PROVE  \E to \in Nat : /\ to >= t + WindowUs
                           /\ Aired(sent, t, t + WindowUs, 0, to) <= 2 * BudgetUs
<1> DEFINE i == t \div WindowUs
           d == t % WindowUs
           w == WindowUs * i
           v == w + WindowUs
           to == v + WindowUs
           hi == t + WindowUs
<1>1. /\ i \in Nat /\ d \in 0..(WindowUs - 1) /\ w \in Nat /\ v \in Nat /\ to \in Nat /\ hi \in Nat
      /\ t = w + d
  <2>1. t \in Int /\ t >= 0
    OBVIOUS
  <2>2. i \in Nat /\ d \in 0..(WindowUs - 1) /\ t = w + d
    BY <2>1, DutyLimits, Division
  <2> HIDE DEF i, d
  <2>3. w \in Nat
    BY <2>2, DutyLimits
  <2> QED BY <2>2, <2>3, DutyLimits
<1> HIDE DEF i, d
<1>2. w = WindowUs * i /\ v = WindowUs * i + WindowUs
  OBVIOUS
<1>3. /\ v = w + WindowUs /\ to = v + WindowUs /\ hi = t + WindowUs /\ to = w + WindowUs + WindowUs
  BY <1>1, DutyLimits
<1>j. v = WindowUs * (i + 1) /\ to = WindowUs * (i + 1) + WindowUs /\ i + 1 \in Nat
  BY <1>1, <1>2, <1>3, DutyLimits
<1> HIDE DEF w, v, to, hi
<1> DEFINE f == Parts(sent, t, hi, 0, w)
           g == Parts(sent, t, hi, w, v)
           h == Parts(sent, v, hi, v, to)
           p == Parts(sent, t, hi, 0, to)
           S == 1..Len(sent)
           gh == [k \in S |-> g[k] + h[k]]
<1>4. sent \in Seq(Stretch) /\ Bounded(sent)
  BY DEF DutyInv
<1>5. /\ IsFiniteSet(S) /\ Counting(f, S) /\ Counting(g, S) /\ Counting(h, S) /\ Counting(p, S)
      /\ Total(f, S) \in Nat /\ Total(g, S) \in Nat /\ Total(h, S) \in Nat
  BY <1>1, <1>4, PartsCount DEF Aired
<1>6. \A k \in S : p[k] <= f[k] + gh[k]
  <2> SUFFICES ASSUME NEW k \in S PROVE p[k] <= f[k] + gh[k]
    OBVIOUS
  <2>1. sent[k] \in Stretch /\ w <= t /\ t < w + WindowUs
    <3>1. sent[k] \in Stretch
      BY <1>4
    <3> QED BY <1>1, <3>1, DutyLimits
  <2>2. OnAir(sent[k], t, hi, 0, to)
           <= OnAir(sent[k], t, hi, 0, w)
                + (OnAir(sent[k], t, hi, w, v) + OnAir(sent[k], v, hi, v, to))
    BY <1>1, <1>3, <2>1, ThreeWindows
  <2> QED BY <2>2 DEF Parts
<1>7. /\ Aired(sent, t, hi, 0, to) = Total(p, S)
      /\ Total(f, S) = Aired(sent, t, hi, 0, w)
      /\ Total(g, S) = Aired(sent, t, hi, w, v)
      /\ Total(h, S) = Aired(sent, v, hi, v, to)
  BY DEF Aired
<1>8. Total(f, S) <= IF BudgetUs >= d THEN BudgetUs - d ELSE 0
  <2>1. t >= w /\ t - w = d
    BY <1>1
  <2>2. Total(f, S) <= IF BudgetUs >= t - w THEN BudgetUs - (t - w) ELSE 0
    <3>1. t >= WindowUs * i =>
             Aired(sent, t, hi, 0, WindowUs * i)
               <= IF BudgetUs >= t - WindowUs * i THEN BudgetUs - (t - WindowUs * i) ELSE 0
      BY <1>1, <1>4 DEF Bounded
    <3>2. Total(f, S) = Aired(sent, t, hi, 0, WindowUs * i)
      BY <1>2, <1>7
    <3>3. Aired(sent, t, hi, 0, WindowUs * i)
             <= IF BudgetUs >= t - WindowUs * i THEN BudgetUs - (t - WindowUs * i) ELSE 0
      BY <1>2, <2>1, <3>1
    <3> QED BY <1>2, <3>2, <3>3
  <2> QED BY <2>1, <2>2
<1>9. Total(g, S) <= BudgetUs
  BY <1>1, <1>2, <1>4, <1>7 DEF Bounded
<1>10. Total(h, S) <= BudgetUs /\ Total(h, S) <= d
  <2>1. Total(h, S) <= BudgetUs
    BY <1>1, <1>j, <1>4, <1>7 DEF Bounded
  <2>2. v <= hi /\ hi - v = d
    BY <1>1, <1>3, DutyLimits
  <2>3. Total(h, S) <= hi - v
    BY <1>1, <1>4, <1>7, <2>2 DEF Bounded
  <2> QED BY <2>1, <2>2, <2>3
<1> HIDE DEF f, g, h, p, S
<1>11. Counting(gh, S)
  BY <1>5 DEF Counting
<1>12. \A k \in S : gh[k] <= g[k] + h[k]
  BY <1>5 DEF Counting
<1> HIDE DEF gh
<1>13. Total(gh, S) \in Nat /\ Total(p, S) \in Nat
  BY <1>5, <1>11, TotalIsNat DEF Counting
<1>14. Total(p, S) <= Total(f, S) + Total(gh, S)
  BY <1>5, <1>6, <1>11, TotalsBelow
<1>15. Total(gh, S) <= Total(g, S) + Total(h, S)
  BY <1>5, <1>11, <1>12, TotalsBelow
<1>16. Total(p, S) <= 2 * BudgetUs
  <2> DEFINE tf == Total(f, S)
             tg == Total(g, S)
             th == Total(h, S)
             tp == Total(p, S)
             tgh == Total(gh, S)
  <2>1. /\ tf \in Nat /\ tg \in Nat /\ th \in Nat /\ tp \in Nat /\ tgh \in Nat
        /\ tf <= (IF BudgetUs >= d THEN BudgetUs - d ELSE 0) /\ tg <= BudgetUs
        /\ th <= BudgetUs /\ th <= d /\ tp <= tf + tgh /\ tgh <= tg + th /\ d \in Nat
    BY <1>1, <1>5, <1>8, <1>9, <1>10, <1>13, <1>14, <1>15, DutyLimits
  <2> HIDE DEF tf, tg, th, tp, tgh
  <2>2. tp <= 2 * BudgetUs
    BY <2>1, DutyLimits
  <2> QED BY <2>2 DEF tp
<1>17. to >= hi
  BY <1>1, <1>3, DutyLimits
<1> QED BY <1>1, <1>7, <1>16, <1>17 DEF hi

LEMMA DutyBounds == ASSUME DutyInv PROVE AirTimeIsBounded
<1> SUFFICES ASSUME NEW t \in 0..now_us
             PROVE  MapThenSumSet(LAMBDA k : LET b == Max({sent[k][1], t})
                                                 e == Min({sent[k][2], t + WindowUs})
                                             IN  IF e > b THEN e - b ELSE 0, DOMAIN sent)
                      <= 2 * BudgetUs
  BY DEF AirTimeIsBounded
<1>1. t \in Nat /\ t + WindowUs \in Nat /\ sent \in Seq(Stretch)
  BY DutyLimits DEF DutyInv
<1>2. PICK to \in Nat : to >= t + WindowUs /\ Aired(sent, t, t + WindowUs, 0, to) <= 2 * BudgetUs
  BY <1>1, TwoBudgets
<1> DEFINE S == 1..Len(sent)
           g == Parts(sent, t, t + WindowUs, 0, to)
           Clip(k) == LET b == Max({sent[k][1], t})
                          e == Min({sent[k][2], t + WindowUs})
                      IN  IF e > b THEN e - b ELSE 0
           Rec(f) == [s \in SUBSET S |-> IF s = {} THEN 0
                                         ELSE Clip(Picked(s)) + f[s \ {Picked(s)}]]
           iter == CHOOSE f : f = Rec(f)
<1>3. \A k \in S : Clip(k) = g[k]
  <2> SUFFICES ASSUME NEW k \in S PROVE Clip(k) = g[k]
    OBVIOUS
  <2> DEFINE x == sent[k]
             hi == t + WindowUs
  <2>1. x \in Stretch /\ x[1] \in Nat /\ x[2] \in Nat
    <3>1. x \in Stretch
      BY <1>1
    <3> QED BY <3>1 DEF Stretch
  <2>2. Max({x[1], t}) = (IF x[1] >= t THEN x[1] ELSE t)
        /\ Min({x[2], hi}) = (IF x[2] <= hi THEN x[2] ELSE hi)
    BY <1>1, <2>1, GreaterOfTwo, LesserOfTwo
  <2>3. g[k] = OnAir(x, t, hi, 0, to)
    BY DEF Parts
  <2>4. Clip(k) = OnAir(x, t, hi, 0, to)
    BY <1>1, <1>2, <2>1, <2>2 DEF OnAir
  <2> QED BY <2>3, <2>4
<1>4. DOMAIN sent = S /\ IsFiniteSet(S)
  BY <1>1, FS_Interval
<1> HIDE DEF S, g, Clip
<1>5. MapThenSumSet(Clip, S) = iter[S]
  BY DEF MapThenSumSet, MapThenFoldSet, Picked
<1>6. \A s \in SUBSET S : s # {} => Clip(Picked(s)) = g[Picked(s)]
  BY <1>3, PickedIsIn
<1>7. \A f : Summing(f, g, S) <=> f = Rec(f)
  BY <1>6 DEF Summing
<1>8. \E f : f = Rec(f)
  BY <1>4, <1>7, SummingExists
<1>9. Summing(iter, g, S)
  BY <1>7, <1>8
<1> HIDE DEF iter
<1>10. iter[S] = Total(g, S)
  BY <1>4, <1>9, SumIsTotal
<1> QED BY <1>2, <1>4, <1>5, <1>10 DEF Aired, g, S, Clip

\* In any stretch as long as a window the radio is on the air for two budgets at
\* most: for every window, budget and air time of the frames, however long the
\* channel is busy (record_tx, maybe_roll_window, can_transmit).
THEOREM DutyCycleHolds == LoraSpec => []AirTimeIsBounded
<1>1. DutyInv /\ UNCHANGED macVars => DutyInv'
  BY DEF DutyInv, macVars
<1>2. DutyInv /\ [LoraNext]_loraVars => DutyInv'
  BY <1>1, DutyKeeps DEF LoraNext, loraVars
<1> QED BY <1>2, DutyStarts, DutyBounds, PTL DEF LoraSpec
-----------------------------------------------------------------------------
(***************************************************************************)
(* The BLE peripheral.  A handler passes a state along: what is kept is    *)
(* said of such a state, helper by helper, and then of the variables.  A   *)
(* central without the secret has no proof of its own to send: each proof  *)
(* names its role, and the challenge of the connection it was made for.    *)
(***************************************************************************)

Fields == {"state", "sess", "timer", "txAge", "rx", "rejects", "failures", "control",
           "adv", "linked", "stuck", "heard", "waited", "drops"}

\* A proof of a central is one that kin made, for the connection it names.
Genuine(m) == \A x, c : m = auth_proof("island", "central", x, c) => c \in kin
GenuineFrame(f) == f.tag = "AuthProof" => Genuine(f.mac)

InSession(s) == s.state \in {"Authenticating", "Active"}

\* What holds of a state between any two steps of a handler.
Sound(s) ==
    /\ DOMAIN s = Fields
    /\ born \in Nat /\ s.sess.conn \in 0..born
    /\ s.sess.conn # 0 <=> InSession(s)
    /\ s.state = "Active" => s.sess.conn \in kin
    /\ \A m \in s.heard : Genuine(m)
    /\ \A i \in DOMAIN s.rx.parts : GenuineFrame(s.rx.parts[i])
    /\ s.linked \subseteq 1..born /\ s.linked \subseteq linked

\* Every link that is up, and that the HAL was not asked in vain to drop, is the
\* session's or is waiting in W.
Held(s) == s.linked \ s.stuck
Tended(s, W) == \A c \in Held(s) : c = s.sess.conn \/ c \in W

Fragment(frag) ==
    frag.wellFormed => /\ frag.count \in {1, 2} /\ frag.index \in 1..frag.count
                       /\ GenuineFrame(frag.frame)

SoundEvent(e) ==
    /\ e.conn \in 1..born
    /\ e.type \in {"Connected", "Disconnected", "GattWrite"}
    /\ e.type = "Disconnected" => e.conn \notin linked
    /\ e.type = "GattWrite" => Fragment(e.frag)

\* States that differ in nothing of this.
Alike(s, t) ==
    /\ DOMAIN s = DOMAIN t /\ s.state = t.state /\ s.sess.conn = t.sess.conn
    /\ s.heard = t.heard /\ s.rx.parts = t.rx.parts /\ s.linked = t.linked /\ s.stuck = t.stuck

LEMMA AlikeKeeps ==
    ASSUME NEW s, NEW t, Alike(s, t), Sound(s), NEW W, Tended(s, W)
    PROVE  Sound(t) /\ Tended(t, W)
BY DEF Alike, Sound, Tended, Held, InSession

LEMMA IdleKeeps ==
    ASSUME NEW s, Sound(s), NEW W, Tended(s, W), s.sess.conn \notin Held(s)
    PROVE  Sound(Idle(s)) /\ Tended(Idle(s), W)
<1>1. /\ DOMAIN Idle(s) = Fields /\ Idle(s).sess = None /\ Idle(s).state = "Idle"
      /\ Idle(s).heard = s.heard /\ Idle(s).rx = s.rx
      /\ Idle(s).linked = s.linked /\ Idle(s).stuck = s.stuck
  BY DEF Idle, Sound, Fields
<1>2. None.conn = 0 /\ 0 \in 0..born
  BY DEF None, Sound
<1> QED BY <1>1, <1>2 DEF Sound, Tended, Held, InSession

LEMMA BackoffKeeps ==
    ASSUME NEW s, Sound(s), NEW W, Tended(s, W), s.sess.conn \notin Held(s)
    PROVE  Sound(enter_backoff(s)) /\ Tended(enter_backoff(s), W)
<1> DEFINE t == enter_backoff(s)
<1>1. /\ DOMAIN t = Fields /\ t.sess = None /\ t.state = "Backoff"
      /\ t.heard = s.heard /\ t.rx = NoMessage /\ t.linked = s.linked /\ t.stuck = s.stuck
  <2>1. DOMAIN s = Fields
    BY DEF Sound
  <2>2. DOMAIN t = Fields
    BY <2>1 DEF enter_backoff
  <2>3. t.sess = None /\ t.state = "Backoff" /\ t.rx = NoMessage
    BY <2>1 DEF enter_backoff, Fields
  <2>4. t.heard = s.heard /\ t.linked = s.linked /\ t.stuck = s.stuck
    BY DEF enter_backoff
  <2> QED BY <2>2, <2>3, <2>4
<1> HIDE DEF t
<1>2. None.conn = 0 /\ 0 \in 0..born
  BY DEF None, Sound
<1>3. DOMAIN NoMessage.parts = {}
  BY DEF NoMessage
<1>4. Sound(t) /\ Tended(t, W)
  BY <1>1, <1>2, <1>3 DEF Sound, Tended, Held, InSession
<1> QED BY <1>4 DEF t

\* Whether the HAL drops the link or fails to, nobody holds it any more.
LEMMA DisconnectKeeps ==
    ASSUME NEW s, Sound(s), NEW W, NEW c, Tended(s, W \union {c})
    PROVE  /\ Sound(disconnect(s, c)) /\ Tended(disconnect(s, c), W)
           /\ Held(disconnect(s, c)) = Held(s) \ {c}
           /\ disconnect(s, c).sess = s.sess /\ disconnect(s, c).state = s.state
<1> DEFINE t == disconnect(s, c)
<1>1. /\ DOMAIN t = Fields /\ t.sess = s.sess /\ t.state = s.state
      /\ t.heard = s.heard /\ t.rx = s.rx
  BY DEF disconnect, Sound, Fields
<1>2. \/ t.linked = s.linked \ {c} /\ t.stuck = s.stuck
      \/ t.linked = s.linked /\ t.stuck = s.stuck \union ({c} \intersect s.linked)
  BY DEF disconnect, Sound, Fields
<1> HIDE DEF t
<1>3. Held(t) = Held(s) \ {c} /\ t.linked \subseteq s.linked
  BY <1>2 DEF Held
<1>4. Tended(t, W)
  BY <1>1, <1>3 DEF Tended
<1>5. Sound(t)
  BY <1>1, <1>3 DEF Sound, InSession
<1> QED BY <1>1, <1>3, <1>4, <1>5 DEF t

\* A session's own link is closed, or one that is refused outside a session.
LEMMA FailKeeps ==
    ASSUME NEW s, Sound(s), NEW W, NEW c, Tended(s, W \union {c}), s.sess.conn \in {0, c}
    PROVE  Sound(fail_connection(s, c)) /\ Tended(fail_connection(s, c), W)
<1> DEFINE t == disconnect(s, c)
<1>1. Sound(t) /\ Tended(t, W) /\ Held(t) = Held(s) \ {c} /\ t.sess = s.sess
  BY DisconnectKeeps
<1>2. 0 \notin Held(s)
  BY DEF Sound, Held
<1>3. t.sess.conn \notin Held(t)
  BY <1>1, <1>2
<1> HIDE DEF t
<1>4. Sound(enter_backoff(t)) /\ Tended(enter_backoff(t), W)
  BY <1>1, <1>3, BackoffKeeps
<1> QED BY <1>4 DEF fail_connection, t

LEMMA TendedMore == ASSUME NEW s, NEW W, NEW V, Tended(s, W), W \subseteq V PROVE Tended(s, V)
BY DEF Tended

LEMMA RejectKeeps ==
    ASSUME NEW s, Sound(s), NEW W, Tended(s, W), NEW c, c = s.sess.conn
    PROVE  Sound(count_reject(s, c)) /\ Tended(count_reject(s, c), W)
<1> DEFINE t == [s EXCEPT !.rejects = @ + 1]
<1>1. Alike(s, t)
  BY DEF Alike, Sound, Fields
<1>2. t.sess.conn = c
  BY <1>1 DEF Alike
<1> HIDE DEF t
<1>3. Sound(t) /\ Tended(t, W)
  BY <1>1, AlikeKeeps
<1>4. Tended(t, W \union {c})
  BY <1>3, TendedMore
<1>5. Sound(fail_connection(t, c)) /\ Tended(fail_connection(t, c), W)
  BY <1>2, <1>3, <1>4, FailKeeps
<1> QED BY <1>3, <1>5 DEF count_reject, t

LEMMA ConnectedKeeps ==
    ASSUME NEW s, Sound(s), NEW W, NEW c \in 1..born, Tended(s, W \union {c}),
           NEW r \in on_connected(s, c)
    PROVE  Sound(r) /\ Tended(r, W)
<1>1. CASE s.state # "Advertising"
  <2>1. r = disconnect(s, c)
    BY <1>1 DEF on_connected, RefuseConnection
  <2> QED BY <2>1, DisconnectKeeps
<1>2. CASE s.state = "Advertising"
  <2> DEFINE quiet == [s EXCEPT !.adv = FALSE]
             auth == [quiet EXCEPT !.rejects = 0, !.rx = NoMessage, !.sess = NewSession(c),
                                   !.state = "Authenticating", !.timer = AuthTimeout]
  <2>1. Alike(s, quiet)
    BY DEF Alike, Sound, Fields
  <2>2. /\ DOMAIN auth = Fields /\ auth.sess = NewSession(c) /\ auth.state = "Authenticating"
        /\ auth.heard = s.heard /\ auth.rx = NoMessage /\ auth.linked = s.linked /\ auth.stuck = s.stuck
    BY DEF Sound, Fields
  <2>3. \/ r = enter_backoff(disconnect(quiet, c))
        \/ r = auth
        \/ r = fail_connection(auth, c)
    BY <1>2 DEF on_connected
  <2> HIDE DEF quiet, auth
  <2>4. s.sess.conn = 0
    BY <1>2 DEF Sound, InSession
  <2>5. Sound(quiet) /\ Tended(quiet, W \union {c}) /\ quiet.sess.conn = 0
    BY <2>1, <2>4, AlikeKeeps DEF Alike
  <2>6. DOMAIN NoMessage.parts = {} /\ NewSession(c).conn = c
    BY DEF NoMessage, NewSession
  <2>7. Sound(auth) /\ Tended(auth, W) /\ auth.sess.conn = c
    <3>1. \A d \in Held(s) : d = c \/ d \in W
      BY <2>4 DEF Tended, Sound, Held
    <3> QED BY <2>2, <2>6, <3>1 DEF Sound, Tended, Held, InSession
  <2>8. CASE r = enter_backoff(disconnect(quiet, c))
    BY <2>5, <2>8, FailKeeps DEF fail_connection
  <2>9. CASE r = fail_connection(auth, c)
    <3>1. Tended(auth, W \union {c})
      BY <2>7, TendedMore
    <3> QED BY <2>7, <2>9, <3>1, FailKeeps
  <2> QED BY <2>3, <2>7, <2>8, <2>9
<1> QED BY <1>1, <1>2

LEMMA DisconnectedKeeps ==
    ASSUME NEW s, Sound(s), NEW W, Tended(s, W), NEW c, c \notin s.linked, NEW reason,
           NEW r \in on_disconnected(s, c, reason)
    PROVE  Sound(r) /\ Tended(r, W)
<1>1. CASE s.sess.conn # c
  BY <1>1 DEF on_disconnected
<1>2. CASE s.sess.conn = c
  <2>1. r = Idle(s) \/ r = enter_backoff(s)
    BY <1>2 DEF on_disconnected
  <2>2. c \notin Held(s)
    BY DEF Held
  <2> QED BY <1>2, <2>1, <2>2, IdleKeeps, BackoffKeeps
<1> QED BY <1>1, <1>2

\* What is added is what everyone hears, or the control and the counters.
LEMMA HearsMore ==
    ASSUME NEW s, Sound(s), NEW W, Tended(s, W), NEW t, NEW m, Genuine(m),
           DOMAIN t = Fields, t.state = s.state, t.sess.conn = s.sess.conn,
           t.heard = s.heard \union {m}, t.rx.parts = s.rx.parts, t.linked = s.linked /\ t.stuck = s.stuck
    PROVE  Sound(t) /\ Tended(t, W)
BY DEF Sound, Tended, Held, InSession

LEMMA AuthInitKeeps ==
    ASSUME NEW s, Sound(s), NEW W, Tended(s, W), NEW c, c = s.sess.conn, NEW f,
           NEW r \in AuthInit(s, c, f)
    PROVE  Sound(r) /\ Tended(r, W)
<1> DEFINE known == [s EXCEPT !.sess = [conn |-> c, name |-> f.name, challenge |-> f.challenge]]
           m == auth_proof("island", "peripheral", c, f.challenge)
           told == [known EXCEPT !.heard = @ \union {m}]
<1>1. Alike(s, known) /\ known.sess.conn = c
  BY DEF Alike, Sound, Fields
<1>2. /\ DOMAIN told = Fields /\ told.state = s.state /\ told.sess.conn = s.sess.conn
      /\ told.heard = s.heard \union {m} /\ told.rx.parts = s.rx.parts
      /\ told.linked = s.linked /\ told.stuck = s.stuck
  BY DEF Sound, Fields
<1>3. Genuine(m)
  BY DEF Genuine, auth_proof
<1>4. r = told \/ r = fail_connection(known, c)
  BY DEF AuthInit
<1> HIDE DEF known, m, told
<1>5. Sound(known) /\ Tended(known, W)
  BY <1>1, AlikeKeeps
<1>6. Tended(known, W \union {c})
  BY <1>5, TendedMore
<1>7. CASE r = told
  BY <1>2, <1>3, <1>7, HearsMore
<1>8. CASE r = fail_connection(known, c)
  BY <1>1, <1>5, <1>6, <1>8, FailKeeps
<1> QED BY <1>4, <1>7, <1>8

LEMMA AuthProofKeeps ==
    ASSUME NEW s, Sound(s), NEW W, Tended(s, W), NEW c, c = s.sess.conn, c # 0,
           NEW f, Genuine(f.mac), NEW r \in AuthProof(s, c, f)
    PROVE  Sound(r) /\ Tended(r, W)
<1>1. CASE s.sess.name = 0
  <2>1. r = count_reject(s, c)
    BY <1>1 DEF AuthProof
  <2> QED BY <2>1, RejectKeeps
<1>2. CASE s.sess.name # 0 /\ ~verify_proof("central", s.sess.challenge, c, f.mac)
  <2>1. r = fail_connection(s, c) /\ Tended(s, W \union {c})
    BY <1>2, TendedMore DEF AuthProof
  <2> QED BY <2>1, FailKeeps
<1>3. CASE s.sess.name # 0 /\ verify_proof("central", s.sess.challenge, c, f.mac)
  <2>1. c \in kin
    BY <1>3 DEF verify_proof, Genuine
  <2>2. PICK rssi \in Rssis : \/ r = Activate(s, f, rssi)
                             \/ r = fail_connection(Activate(s, f, rssi), c)
    BY <1>3 DEF AuthProof
  <2> DEFINE b == Activate(s, f, rssi)
  <2>4. r = b \/ r = fail_connection(b, c)
    BY <2>2
  <2>5. /\ DOMAIN b = Fields /\ b.state = "Active" /\ b.sess = s.sess
        /\ b.heard = s.heard \union {f.mac} /\ b.rx = s.rx /\ b.linked = s.linked /\ b.stuck = s.stuck
    BY DEF Activate, send_own_lsa, Sound, Fields
  <2> HIDE DEF b
  <2>6. Sound(b) /\ Tended(b, W) /\ b.sess.conn = c
    BY <2>1, <2>5 DEF Sound, Tended, Held, InSession
  <2>7. Sound(fail_connection(b, c)) /\ Tended(fail_connection(b, c), W)
    <3>1. Tended(b, W \union {c})
      BY <2>6, TendedMore
    <3> QED BY <2>6, <3>1, FailKeeps
  <2> QED BY <2>4, <2>6, <2>7
<1> QED BY <1>1, <1>2, <1>3

LEMMA FrameKeeps ==
    ASSUME NEW s, Sound(s), NEW W, Tended(s, W), NEW c, c = s.sess.conn, c # 0,
           NEW parts, \A i \in DOMAIN parts : GenuineFrame(parts[i]), 1 \in DOMAIN parts,
           NEW r \in on_frame(s, c, parts)
    PROVE  Sound(r) /\ Tended(r, W)
<1> DEFINE f == parts[1]
<1>1. CASE r = count_reject(s, c)
  BY <1>1, RejectKeeps
<1>2. CASE s.state = "Active" /\ r \in on_frame_active(s, c, f) /\ r # count_reject(s, c)
  <2>1. CASE f.tag = "Lsa"
    <3>1. Alike(s, r)
      BY <1>2, <2>1 DEF on_frame_active, Alike, Sound, Fields
    <3> QED BY <3>1, AlikeKeeps
  <2>2. CASE f.tag = "Bye"
    <3> DEFINE t == disconnect(s, c)
    <3>1. r = Idle(t)
      BY <1>2, <2>2 DEF on_frame_active
    <3>2. Tended(s, W \union {c})
      BY TendedMore
    <3>3. Sound(t) /\ Tended(t, W) /\ Held(t) = Held(s) \ {c} /\ t.sess = s.sess
      BY <3>2, DisconnectKeeps
    <3>4. t.sess.conn \notin Held(t)
      BY <3>3
    <3> HIDE DEF t
    <3> QED BY <3>1, <3>3, <3>4, IdleKeeps
  <2>3. CASE f.tag \notin {"Lsa", "Bye"}
    <3>1. r = count_reject(s, c)
      BY <1>2, <2>3 DEF on_frame_active
    <3> QED BY <3>1, <1>2
  <2> QED BY <2>1, <2>2, <2>3
<1>3. CASE r \in on_frame_authenticating(s, c, f) /\ r # count_reject(s, c)
  <2>1. CASE f.tag = "AuthInit"
    <3>1. r \in AuthInit(s, c, f)
      BY <1>3, <2>1 DEF on_frame_authenticating
    <3> QED BY <3>1, AuthInitKeeps
  <2>2. CASE f.tag = "AuthProof"
    <3>1. r \in AuthProof(s, c, f)
      BY <1>3, <2>2 DEF on_frame_authenticating
    <3>2. Genuine(f.mac)
      BY <2>2 DEF GenuineFrame
    <3> QED BY <3>1, <3>2, AuthProofKeeps
  <2>3. CASE f.tag \notin {"AuthInit", "AuthProof"}
    <3>1. r = count_reject(s, c)
      BY <1>3, <2>3 DEF on_frame_authenticating
    <3> QED BY <3>1, <1>3
  <2> QED BY <2>1, <2>2, <2>3
<1>4. \/ r = count_reject(s, c)
      \/ s.state = "Active" /\ r \in on_frame_active(s, c, f)
      \/ r \in on_frame_authenticating(s, c, f)
  BY DEF on_frame
<1> QED BY <1>1, <1>2, <1>3, <1>4

LEMMA WriteKeeps ==
    ASSUME NEW s, Sound(s), NEW W, Tended(s, W), NEW c \in 1..born, NEW frag,
           Fragment(frag), NEW r \in on_gatt_write(s, c, frag)
    PROVE  Sound(r) /\ Tended(r, W)
<1>1. CASE r = s
  BY <1>1
<1>2. CASE r = count_reject(s, c) /\ s.sess.conn = c
  BY <1>2, RejectKeeps
<1>3. CASE s.sess.conn = c /\ frag.wellFormed /\ r # count_reject(s, c)
  <2> DEFINE m == accept(s.rx, frag)
             quiet == [s EXCEPT !.rx = NoMessage]
  <2>1. \A i \in DOMAIN m.parts : GenuineFrame(m.parts[i])
    <3>1. DOMAIN m.parts = DOMAIN s.rx.parts \union {frag.index}
      BY DEF accept
    <3>2. \A i \in DOMAIN m.parts :
             m.parts[i] = IF i = frag.index THEN frag.frame ELSE s.rx.parts[i]
      BY DEF accept
    <3>3. GenuineFrame(frag.frame)
      BY <1>3 DEF Fragment
    <3>4. \A i \in DOMAIN s.rx.parts : GenuineFrame(s.rx.parts[i])
      BY DEF Sound
    <3> HIDE DEF m
    <3> QED BY <3>1, <3>2, <3>3, <3>4, Zenon
  <2>2. m.count = frag.count
    BY DEF accept
  <2>3. \/ DOMAIN m.parts = 1 .. m.count /\ r \in on_frame(quiet, c, m.parts)
        \/ r = [s EXCEPT !.rx = m]
    BY <1>3 DEF on_gatt_write
  <2>4. /\ DOMAIN quiet = Fields /\ quiet.state = s.state /\ quiet.sess = s.sess
        /\ quiet.heard = s.heard /\ quiet.rx = NoMessage /\ quiet.linked = s.linked /\ quiet.stuck = s.stuck
    BY DEF Sound, Fields
  <2> HIDE DEF m, quiet
  <2>5. DOMAIN NoMessage.parts = {}
    BY DEF NoMessage
  <2>6. Sound(quiet) /\ Tended(quiet, W) /\ quiet.sess.conn = c
    BY <1>3, <2>4, <2>5 DEF Sound, Tended, Held, InSession
  <2>7. CASE DOMAIN m.parts = 1 .. m.count /\ r \in on_frame(quiet, c, m.parts)
    <3>1. 1 \in DOMAIN m.parts
      BY <1>3, <2>2, <2>7 DEF Fragment
    <3>2. c # 0
      BY DEF Sound
    <3> QED BY <2>1, <2>6, <2>7, <3>1, <3>2, FrameKeeps
  <2>8. CASE r = [s EXCEPT !.rx = m]
    <3>1. /\ DOMAIN r = Fields /\ r.state = s.state /\ r.sess = s.sess
          /\ r.heard = s.heard /\ r.rx = m /\ r.linked = s.linked /\ r.stuck = s.stuck
      BY <2>8 DEF Sound, Fields
    <3> QED BY <2>1, <3>1 DEF Sound, Tended, Held, InSession
  <2> QED BY <2>3, <2>7, <2>8
<1> QED BY <1>1, <1>2, <1>3 DEF on_gatt_write

LEMMA EventKeeps ==
    ASSUME NEW s, Sound(s), NEW W, NEW e, e.conn \in 1..born,
           e.type \in {"Connected", "Disconnected", "GattWrite"},
           e.type = "Disconnected" => e.conn \notin linked,
           e.type = "GattWrite" => Fragment(e.frag),
           Tended(s, IF e.type = "Connected" THEN W \union {e.conn} ELSE W),
           NEW r \in handle_event(s, e)
    PROVE  Sound(r) /\ Tended(r, W)
<1>1. CASE e.type = "Connected"
  <2> DEFINE c == e.conn
  <2>1. r \in on_connected(s, c) /\ Tended(s, W \union {c}) /\ c \in 1..born
    BY <1>1 DEF handle_event
  <2> HIDE DEF c
  <2> QED BY <2>1, ConnectedKeeps
<1>2. CASE e.type = "Disconnected"
  <2>1. r \in on_disconnected(s, e.conn, e.reason) /\ Tended(s, W) /\ e.conn \notin s.linked
    BY <1>2 DEF handle_event, Sound
  <2> QED BY <2>1, DisconnectedKeeps
<1>3. CASE e.type = "GattWrite"
  <2>1. r \in on_gatt_write(s, e.conn, e.frag) /\ Tended(s, W) /\ Fragment(e.frag)
    BY <1>3 DEF handle_event
  <2> QED BY <2>1, WriteKeeps
<1> QED BY <1>1, <1>2, <1>3

LEMMA TimersKeep ==
    ASSUME NEW s, Sound(s), NEW W, Tended(s, W), NEW r \in Timers(s)
    PROVE  Sound(r) /\ Tended(r, W)
<1> DEFINE t == [s EXCEPT !.state = "Advertising", !.adv = TRUE]
           u == [send_own_lsa(s) EXCEPT !.txAge = 0]
<1>1. \/ r = s
      \/ s.state = "Idle" /\ r = t
      \/ s.state \in {"Authenticating", "Active"} /\ r = fail_connection(s, s.sess.conn)
      \/ s.state = "Active" /\ r = u
      \/ s.state = "Backoff" /\ r = Idle(s)
  BY DEF Timers
<1>2. CASE s.state = "Idle" /\ r = t
  <2>1. /\ DOMAIN t = Fields /\ t.state = "Advertising" /\ t.sess = s.sess
        /\ t.heard = s.heard /\ t.rx = s.rx /\ t.linked = s.linked /\ t.stuck = s.stuck
    BY DEF Sound, Fields
  <2> HIDE DEF t
  <2> QED BY <1>2, <2>1 DEF Sound, Tended, Held, InSession
<1>3. CASE r = fail_connection(s, s.sess.conn)
  <2> DEFINE c == s.sess.conn
  <2>1. Tended(s, W \union {c})
    BY TendedMore
  <2>2. s.sess.conn \in {0, c} /\ r = fail_connection(s, c)
    BY <1>3
  <2> HIDE DEF c
  <2> QED BY <2>1, <2>2, FailKeeps
<1>4. CASE r = u
  <2>1. Alike(s, u)
    BY DEF send_own_lsa, Alike, Sound, Fields
  <2> HIDE DEF u
  <2> QED BY <1>4, <2>1, AlikeKeeps
<1>5. CASE s.state = "Backoff" /\ r = Idle(s)
  <2>1. s.sess.conn \notin Held(s)
    BY <1>5 DEF Sound, InSession, Held
  <2> QED BY <1>5, <2>1, IdleKeeps
<1> QED BY <1>1, <1>2, <1>3, <1>4, <1>5

\* The connections that were made and whose event was not handled yet.
ConnectedEvent(c, i) == events[i].type = "Connected" /\ events[i].conn = c
Unhandled == {c \in 1..born : \E i \in 1..Len(events) : ConnectedEvent(c, i)}

BleInv ==
    /\ Sound(Now) /\ Tended(Now, Unhandled)
    /\ kin \subseteq 1..born
    /\ AnySeq(events)
    /\ \A i \in 1..Len(events) : SoundEvent(events[i])

LEMMA Becomes ==
    ASSUME NEW r, Sound(r), NEW W, Tended(r, W), Become(r), UNCHANGED <<kin, born>>
    PROVE  /\ Sound(Now)' /\ linked' \subseteq linked
           /\ \A c \in linked' \ stuck' : c = sess'.conn \/ c \in W
<1>1. /\ Now.state' = r.state /\ Now.sess' = r.sess /\ Now.heard' = r.heard
      /\ Now.rx' = r.rx /\ Now.linked' = r.linked /\ Now.stuck' = r.stuck
      /\ (DOMAIN Now)' = Fields
      /\ linked' = r.linked /\ stuck' = r.stuck /\ sess' = r.sess
  BY DEF Become, Now, Fields
<1>2. \A m : Genuine(m)' <=> Genuine(m)
  BY DEF Genuine
<1>3. \A f : GenuineFrame(f)' <=> GenuineFrame(f)
  BY <1>2 DEF GenuineFrame
<1>4. Sound(Now)'
  BY <1>1, <1>2, <1>3 DEF Sound, InSession
<1> QED BY <1>1, <1>4 DEF Sound, Tended, Held

\* An event says the same when links go and no central comes.
LEMMA EventStays ==
    ASSUME NEW e, SoundEvent(e), linked' \subseteq linked, UNCHANGED <<kin, born>>
    PROVE  SoundEvent(e)'
BY DEF SoundEvent, Fragment, GenuineFrame, Genuine

LEMMA BleStarts == BleInit => BleInv
<1> SUFFICES ASSUME BleInit PROVE BleInv
  OBVIOUS
<1>1. /\ Now.state = "Idle" /\ Now.sess = None /\ Now.heard = {} /\ Now.rx = NoMessage
      /\ Now.linked = {} /\ DOMAIN Now = Fields /\ linked = {} /\ born = 0
  BY DEF BleInit, Now, Fields
<1>2. None.conn = 0 /\ DOMAIN NoMessage.parts = {}
  BY DEF None, NoMessage
<1>3. Sound(Now) /\ Tended(Now, Unhandled)
  BY <1>1, <1>2 DEF Sound, Tended, Held, InSession
<1>4. events = << >> /\ AnySeq(events) /\ Len(events) = 0 /\ kin \subseteq 1..born
  <2>1. << >> \in Seq({})
    OBVIOUS
  <2> QED BY <2>1 DEF BleInit, AnySeq
<1> QED BY <1>3, <1>4 DEF BleInv

LEMMA PumpKeeps == BleInv /\ Pump => BleInv'
<1> SUFFICES ASSUME BleInv, Pump PROVE BleInv'
  OBVIOUS
<1> DEFINE e == events[1]
           W == {c \in 1..born : \E i \in 1..Len(events) : i # 1 /\ ConnectedEvent(c, i)}
<1>1. /\ AnySeq(events) /\ events # << >> /\ events' = Tail(events)
      /\ UNCHANGED <<kin, born>>
  BY DEF BleInv, Pump
<1>2. /\ AnySeq(events') /\ Head(events) = e /\ 1 \in 1..Len(events)
      /\ Len(events') = Len(events) - 1
      /\ \A k \in 1..Len(events') : events'[k] = events[k + 1]
  BY <1>1, AnyTail
<1>3. Len(events) \in Nat
  BY <1>1, AnyLength
<1>4. SoundEvent(e) /\ Sound(Now)
  BY <1>2 DEF BleInv
<1>5. Tended(Now, IF e.type = "Connected" THEN W \union {e.conn} ELSE W)
  <2>1. \A c \in Held(Now) : c = Now.sess.conn \/ c \in Unhandled
    BY DEF BleInv, Tended
  <2>2. \A c \in Unhandled : c \in W \/ (e.type = "Connected" /\ c = e.conn)
    BY DEF Unhandled, ConnectedEvent
  <2> HIDE DEF W, e
  <2> QED BY <2>1, <2>2 DEF Tended
<1>6. PICK drops \in BOOLEAN : \E r \in handle_event([Now EXCEPT !.drops = drops], e) : Become(r)
  BY <1>2 DEF Pump
<1> DEFINE now == [Now EXCEPT !.drops = drops]
<1>12. PICK r \in handle_event(now, e) : Become(r)
  BY <1>6
<1>13. Alike(Now, now)
  BY <1>4 DEF Alike, Sound, Fields
<1> HIDE DEF e, W, now
<1>14. Sound(now) /\ Tended(now, IF e.type = "Connected" THEN W \union {e.conn} ELSE W)
  BY <1>4, <1>5, <1>13, AlikeKeeps
<1>7. Sound(r) /\ Tended(r, W)
  BY <1>4, <1>12, <1>14, EventKeeps DEF SoundEvent
<1>8. /\ Sound(Now)' /\ linked' \subseteq linked
      /\ \A c \in linked' \ stuck' : c = sess'.conn \/ c \in W
  BY <1>1, <1>7, <1>12, Becomes
<1>9. W \subseteq Unhandled'
  <2> SUFFICES ASSUME NEW c \in W PROVE c \in Unhandled'
    OBVIOUS
  <2>1. PICK i \in 1..Len(events) : i # 1 /\ ConnectedEvent(c, i) /\ c \in 1..born
    BY DEF W
  <2>2. i - 1 \in 1..Len(events') /\ events'[i - 1] = events[i]
    BY <1>2, <1>3, <2>1
  <2> QED BY <1>1, <2>1, <2>2 DEF Unhandled, ConnectedEvent
<1>10. Tended(Now, Unhandled)'
  BY <1>8, <1>9 DEF Tended, Held, Now
<1>11. \A i \in 1..Len(events)' : SoundEvent(events[i])'
  <2> SUFFICES ASSUME NEW i \in 1..Len(events') PROVE SoundEvent(events[i])'
    OBVIOUS
  <2>1. i + 1 \in 1..Len(events) /\ events'[i] = events[i + 1]
    BY <1>2, <1>3
  <2>2. PICK x : x = events[i + 1]
    OBVIOUS
  <2>3. SoundEvent(x)
    BY <2>1, <2>2 DEF BleInv
  <2>4. SoundEvent(x)'
    BY <1>1, <1>8, <2>3, EventStays
  <2> QED BY <2>1, <2>2, <2>4 DEF SoundEvent, Fragment, GenuineFrame, Genuine
<1> QED BY <1>1, <1>2, <1>8, <1>10, <1>11 DEF BleInv

LEMMA TickKeeps == BleInv /\ Tick => BleInv'
<1> SUFFICES ASSUME BleInv, Tick PROVE BleInv'
  OBVIOUS
<1>1. Alike(Now, Elapsed)
  BY DEF Alike, Now, Elapsed
<1>2. Sound(Elapsed) /\ Tended(Elapsed, Unhandled)
  BY <1>1, AlikeKeeps DEF BleInv
<1>3. PICK drops \in BOOLEAN : \E r \in Timers([Elapsed EXCEPT !.drops = drops]) : Become(r)
  BY DEF Tick
<1> DEFINE now == [Elapsed EXCEPT !.drops = drops]
<1>10. PICK r \in Timers(now) : Become(r)
  BY <1>3
<1>11. Alike(Elapsed, now)
  BY <1>2 DEF Alike, Sound, Fields
<1> HIDE DEF now
<1>12. Sound(now) /\ Tended(now, Unhandled)
  BY <1>2, <1>11, AlikeKeeps
<1>4. Sound(r) /\ Tended(r, Unhandled)
  BY <1>10, <1>12, TimersKeep
<1>5. UNCHANGED <<kin, born>> /\ UNCHANGED events
  BY DEF Tick
<1>6. /\ Sound(Now)' /\ linked' \subseteq linked
      /\ \A c \in linked' \ stuck' : c = sess'.conn \/ c \in Unhandled
  BY <1>4, <1>5, <1>10, Becomes
<1>7. Unhandled' = Unhandled
  BY <1>5 DEF Unhandled, ConnectedEvent
<1>8. Tended(Now, Unhandled)'
  BY <1>6, <1>7 DEF Tended, Held, Now
<1>9. \A i \in 1..Len(events) : SoundEvent(events[i])'
  BY <1>5, <1>6 DEF BleInv, SoundEvent, Fragment, GenuineFrame, Genuine
<1> QED BY <1>5, <1>6, <1>8, <1>9 DEF BleInv

\* The radio queues an event; a link that is new has its event in the queue.
LEMMA QueueKeeps ==
    ASSUME BleInv, NEW e, Queue(e), SoundEvent(e)',
           UNCHANGED <<session, heard>>, kin \subseteq kin', kin' \subseteq 1..born',
           born' \in Nat, born <= born', linked' \subseteq 1..born',
           \A c \in linked' : c \in linked \/ (c > born /\ e.type = "Connected" /\ e.conn = c),
           linked' \intersect stuck \subseteq stuck'
    PROVE  BleInv'
<1>1. /\ AnySeq(events) /\ events' = Append(events, e) /\ born \in Nat
  BY DEF BleInv, Queue, Sound
<1>2. /\ AnySeq(events') /\ Len(events') = Len(events) + 1
      /\ \A k \in 1..Len(events) : events'[k] = events[k]
      /\ events'[Len(events) + 1] = e
  BY <1>1, AnyAppended
<1>3. Len(events) \in Nat
  BY <1>1, AnyLength
<1>4. \A m : Genuine(m) => Genuine(m)'
  BY DEF Genuine
<1>5. \A f : GenuineFrame(f) => GenuineFrame(f)'
  BY <1>4 DEF GenuineFrame
<1>6. Sound(Now)'
  <2>1. /\ Now.state' = Now.state /\ Now.sess' = Now.sess /\ Now.heard' = Now.heard
        /\ Now.rx' = Now.rx /\ Now.linked' = linked' /\ (DOMAIN Now)' = Fields
    BY DEF Now, Fields, session
  <2>2. Sound(Now)
    BY DEF BleInv
  <2> QED BY <2>1, <2>2, <1>4, <1>5 DEF Sound, InSession
<1>7. Unhandled \subseteq Unhandled'
  <2> SUFFICES ASSUME NEW c \in Unhandled PROVE c \in Unhandled'
    OBVIOUS
  <2>1. PICK i \in 1..Len(events) : ConnectedEvent(c, i) /\ c \in 1..born
    BY DEF Unhandled
  <2>2. i \in 1..Len(events') /\ events'[i] = events[i] /\ c \in 1..born'
    BY <1>1, <1>2, <1>3, <2>1
  <2> QED BY <2>1, <2>2 DEF Unhandled, ConnectedEvent
<1>8. Tended(Now, Unhandled)'
  <2> SUFFICES ASSUME NEW c \in linked' \ stuck' PROVE c = sess'.conn \/ c \in Unhandled'
    BY DEF Tended, Held, Now
  <2>1. CASE c \in linked
    BY <1>7, <2>1 DEF BleInv, Tended, Held, Now, session
  <2>2. CASE e.type = "Connected" /\ e.conn = c
    <3>1. Len(events) + 1 \in 1..Len(events')
      BY <1>2, <1>3
    <3> QED BY <1>2, <2>2, <3>1 DEF Unhandled, ConnectedEvent
  <2> QED BY <2>1, <2>2
<1>9. \A i \in 1..Len(events)' : SoundEvent(events[i])'
  <2> SUFFICES ASSUME NEW i \in 1..Len(events') PROVE SoundEvent(events[i])'
    OBVIOUS
  <2>1. CASE i = Len(events) + 1
    BY <1>2, <2>1 DEF SoundEvent, Fragment, GenuineFrame, Genuine
  <2>2. CASE i \in 1..Len(events)
    <3>1. PICK x : x = events[i]
      OBVIOUS
    <3>2. SoundEvent(x) /\ events'[i] = x
      BY <1>2, <2>2, <3>1 DEF BleInv
    <3>3. x.conn \notin linked => x.conn \notin linked'
      BY <1>1, <3>2 DEF SoundEvent
    <3>4. Fragment(x.frag) => Fragment(x.frag)'
      BY <1>5 DEF Fragment
    <3>5. SoundEvent(x)'
      BY <1>1, <3>2, <3>3, <3>4 DEF SoundEvent
    <3> QED BY <3>2, <3>5 DEF SoundEvent, Fragment, GenuineFrame, Genuine
  <2> QED BY <1>2, <1>3, <2>1, <2>2
<1> QED BY <1>2, <1>6, <1>8, <1>9 DEF BleInv

LEMMA ConnectKeeps == ASSUME BleInv, NEW k \in BOOLEAN, Connect(k) PROVE BleInv'
<1> DEFINE e == [type |-> "Connected", conn |-> born + 1]
<1>1. born \in Nat /\ linked \subseteq 1..born /\ kin \subseteq 1..born
  BY DEF BleInv, Sound, Now
<1>2. /\ Queue(e) /\ UNCHANGED <<session, heard, stuck>> /\ born' = born + 1
      /\ linked' = linked \union {born + 1}
      /\ kin' = (IF k THEN kin \union {born + 1} ELSE kin)
  BY DEF Connect
<1>3. PICK x : x = e
  OBVIOUS
<1>4. Queue(x) /\ x.type = "Connected" /\ x.conn = born + 1
  BY <1>2, <1>3 DEF Queue
<1>5. SoundEvent(x)'
  BY <1>1, <1>2, <1>4 DEF SoundEvent
<1>6. /\ kin \subseteq kin' /\ kin' \subseteq 1..born' /\ born' \in Nat /\ born <= born'
      /\ linked' \subseteq 1..born'
      /\ \A c \in linked' : c \in linked \/ (c > born /\ x.type = "Connected" /\ x.conn = c)
  BY <1>1, <1>2, <1>4
<1> QED BY <1>2, <1>4, <1>5, <1>6, QueueKeeps

LEMMA LeaveKeeps ==
    ASSUME BleInv, NEW c, NEW reason, Leave(c, reason)
    PROVE  BleInv'
<1>1. born \in Nat /\ linked \subseteq 1..born /\ kin \subseteq 1..born
  BY DEF BleInv, Sound, Now
<1>2. PICK x : x = [type |-> "Disconnected", conn |-> c, reason |-> reason]
  OBVIOUS
<1>3. /\ Queue(x) /\ UNCHANGED <<session, heard, kin, born>> /\ c \in linked
      /\ linked' = linked \ {c} /\ stuck' = stuck \ {c} /\ x.type = "Disconnected" /\ x.conn = c
  BY <1>2 DEF Leave, Queue
<1>4. SoundEvent(x)'
  BY <1>1, <1>3 DEF SoundEvent
<1> QED BY <1>1, <1>3, <1>4, QueueKeeps

\* Whoever lacks the secret repeats what it heard, or says something of its own.
LEMMA FramesAreGenuine ==
    ASSUME BleInv, NEW c, NEW f \in FramesOf(c)
    PROVE  GenuineFrame(f)
<1> SUFFICES ASSUME f.tag = "AuthProof" PROVE Genuine(f.mac)
  BY DEF GenuineFrame
<1>1. f.mac \in IF c \in kin THEN {auth_proof("island", "central", MaxConns + c, c)}
               ELSE heard \union {auth_proof("elsewhere", "central", MaxConns + c, c)}
  BY DEF FramesOf
<1>2. \A m \in heard : Genuine(m)
  BY DEF BleInv, Sound, Now
<1>3. CASE f.mac = auth_proof("island", "central", MaxConns + c, c) /\ c \in kin
  BY <1>3 DEF Genuine, auth_proof
<1>4. CASE f.mac = auth_proof("elsewhere", "central", MaxConns + c, c)
  BY <1>4 DEF Genuine, auth_proof
<1> QED BY <1>1, <1>2, <1>3, <1>4

LEMMA FragmentKeeps == ASSUME BleInv, NEW c, WriteFragment(c) PROVE BleInv'
<1>1. born \in Nat /\ linked \subseteq 1..born /\ kin \subseteq 1..born
  BY DEF BleInv, Sound, Now
<1>2. PICK f \in FramesOf(c), id \in {1, 2} : \E i \in 1..FragmentCount(f) :
         Queue([type |-> "GattWrite", conn |-> c, frag |->
                  [id |-> id, index |-> i, count |-> FragmentCount(f), frame |-> f,
                   wellFormed |-> TRUE]])
  BY DEF WriteFragment
<1>3. PICK i \in 1..FragmentCount(f) :
         Queue([type |-> "GattWrite", conn |-> c, frag |->
                  [id |-> id, index |-> i, count |-> FragmentCount(f), frame |-> f,
                   wellFormed |-> TRUE]])
  BY <1>2
<1>4. PICK g : g = [id |-> id, index |-> i, count |-> FragmentCount(f), frame |-> f,
                    wellFormed |-> TRUE]
  OBVIOUS
<1>5. PICK x : x = [type |-> "GattWrite", conn |-> c, frag |-> g]
  OBVIOUS
<1>6. /\ Queue(x) /\ UNCHANGED <<session, heard, kin, born, linked, stuck>> /\ c \in linked
      /\ x.type = "GattWrite" /\ x.conn = c /\ x.frag = g
  BY <1>3, <1>4, <1>5 DEF WriteFragment, radio, Queue
<1>7. Fragment(g)
  <2>1. GenuineFrame(f)
    BY FramesAreGenuine
  <2>2. FragmentCount(f) \in {1, 2}
    BY DEF FragmentCount
  <2>3. g.index = i /\ g.count = FragmentCount(f) /\ g.frame = f
    BY <1>4
  <2> QED BY <1>3, <2>1, <2>2, <2>3 DEF Fragment
<1>8. SoundEvent(x)
  BY <1>1, <1>6, <1>7 DEF SoundEvent
<1>9. SoundEvent(x)'
  BY <1>6, <1>8, EventStays
<1> QED BY <1>1, <1>6, <1>9, QueueKeeps

LEMMA GarbageKeeps == ASSUME BleInv, NEW c, WriteGarbage(c) PROVE BleInv'
<1>1. born \in Nat /\ linked \subseteq 1..born /\ kin \subseteq 1..born
  BY DEF BleInv, Sound, Now
<1>2. PICK g : g = [wellFormed |-> FALSE]
  OBVIOUS
<1>3. PICK x : x = [type |-> "GattWrite", conn |-> c, frag |-> g]
  OBVIOUS
<1>4. /\ Queue(x) /\ UNCHANGED <<session, heard, kin, born, linked, stuck>> /\ c \in linked
      /\ x.type = "GattWrite" /\ x.conn = c /\ x.frag = g
  BY <1>2, <1>3 DEF WriteGarbage, radio, Queue
<1>5. SoundEvent(x)
  <2>1. ~g.wellFormed
    BY <1>2
  <2>2. Fragment(g)
    BY <2>1 DEF Fragment
  <2> QED BY <1>1, <1>4, <2>2 DEF SoundEvent
<1>6. SoundEvent(x)'
  BY <1>4, <1>5, EventStays
<1> QED BY <1>1, <1>4, <1>6, QueueKeeps

LEMMA BleKeeps == BleInv /\ [BleNext]_bleVars => BleInv'
<1> SUFFICES ASSUME BleInv, [BleNext]_bleVars PROVE BleInv'
  OBVIOUS
<1>1. CASE Pump \/ Tick
  BY <1>1, PumpKeeps, TickKeeps
<1>2. CASE \E k \in BOOLEAN : Connect(k)
  BY <1>2, ConnectKeeps
<1>3. CASE \E c \in 1 .. MaxConns : WriteFragment(c) \/ WriteGarbage(c)
                \/ \E r \in {"PeerInitiated", "LinkLoss"} : Leave(c, r)
  BY <1>3, FragmentKeeps, GarbageKeeps, LeaveKeeps
<1>4. CASE UNCHANGED bleVars
  <2>1. UNCHANGED <<kin, born, linked, stuck, events, Now>>
    BY <1>4 DEF bleVars, session, Now
  <2>2. Sound(Now)' /\ Tended(Now, Unhandled)'
    BY <2>1 DEF BleInv, Sound, Tended, Held, InSession, GenuineFrame, Genuine, Unhandled,
                ConnectedEvent
  <2>3. \A i \in 1..Len(events) : SoundEvent(events[i])'
    BY <2>1 DEF BleInv, SoundEvent, Fragment, GenuineFrame, Genuine
  <2> QED BY <2>1, <2>2, <2>3 DEF BleInv
<1> QED BY <1>1, <1>2, <1>3, <1>4 DEF BleNext

\* Only a central that holds the island's secret gets a link for relaying,
\* whatever it repeats, for any number of connections, events and frames, and
\* whatever is lost or fails (verify_proof, on_frame_authenticating).
THEOREM OnlyKinGetLinks == BleSpec => []ActiveMeansKin
<1>1. BleInv => ActiveMeansKin
  BY DEF BleInv, Sound, Now, ActiveMeansKin
<1> QED BY <1>1, BleStarts, BleKeeps, PTL DEF BleSpec

\* A link that is up is the session's, or its Connected event is still to be
\* handled, or the HAL failed to drop it, for any number of connections and
\* whatever fails: that is all the code leaves hanging (fail_connection).
THEOREM OnlyTheRadioKeepsLinks == BleSpec => []NoLinkIsForgotten
<1>1. BleInv => NoLinkIsForgotten
  BY DEF BleInv, Tended, Held, Now, Unhandled, ConnectedEvent, NoLinkIsForgotten
<1> QED BY <1>1, BleStarts, BleKeeps, PTL DEF BleSpec

-----------------------------------------------------------------------------
(***************************************************************************)
(* The tables of BLE nodes.  The calls of one node are looked at first:    *)
(* what it keeps is in order and whoever leaves its table leaves it to a   *)
(* better neighbour, unless the clock moved.                               *)
(***************************************************************************)

\* An advertisement of the origin with this number is, or was, on its way.
Issued(o, q, sky) == \E lsa \in sky : verify(lsa) /\ lsa.origin = o /\ lsa.seq = q

\* A neighbour that was fresh when the clock last moved, with the newest number.
EntryKept(entry, o, seen) ==
    /\ DOMAIN entry = {"battery", "quality", "age", "lastSeq"}
    /\ entry.age \in 0 .. Ttl /\ entry.quality \in Int
    /\ entry.lastSeq # 0 => o \in DOMAIN seen /\ entry.lastSeq = seen[o]

\* What a node keeps of the others.
TableKept(node, sky) ==
    /\ node.lag \in Nat
    /\ \A o \in DOMAIN node.table : EntryKept(node.table[o], o, node.seen)
    /\ \A o \in DOMAIN node.seen : Issued(o, node.seen[o], sky)

NodeFields == {"seq", "lag", "table", "seen"}

MeshInv ==
    /\ DOMAIN mesh = Nodes
    /\ \A n \in Nodes : DOMAIN mesh[n] = NodeFields /\ TableKept(mesh[n], air)
    /\ \A lsa \in air :
           DOMAIN lsa = {"origin", "seq", "battery", "age", "signature"} /\ lsa.battery \in Nat

MeshSpec == MeshInit /\ [][MeshNext]_meshVars

LEMMA TableLimits ==
    Ttl \in Nat /\ MaxNeighbors \in Nat /\ Rssis \subseteq Int /\ BatteryOf \in [Nodes -> 0 .. 100]
BY BleMeshAssumption DEF BleMeshAssumption

\* A table gets the newcomer or keeps what it has, and gives up one neighbour at
\* most, for a better one.
LEMMA InsertKeepsTheRest ==
    ASSUME NEW table, NEW id, NEW entry,
           entry.quality \in Int, \A o \in DOMAIN table : table[o].quality \in Int
    PROVE  LET after == insert_neighbor(table, id, entry)
           IN  /\ DOMAIN after \subseteq DOMAIN table \union {id}
               /\ \A o \in DOMAIN after : after[o] = IF o = id /\ after # table THEN entry ELSE table[o]
               /\ \A o \in DOMAIN table \ DOMAIN after :
                      id \in DOMAIN after \ DOMAIN table /\ after[id].quality > table[o].quality
<1> DEFINE w == Worst(table)
           put == Inserted(table, id, entry)
           rest == Restrict(table, DOMAIN table \ {w})
           swap == Inserted(rest, id, entry)
<1> HIDE DEF w
<1>1. /\ DOMAIN put = DOMAIN table \union {id}
      /\ put[id] = entry
      /\ \A o \in DOMAIN table \ {id} : put[o] = table[o]
  BY DEF put, Inserted
<1>2. DOMAIN rest = DOMAIN table \ {w} /\ \A o \in DOMAIN table \ {w} : rest[o] = table[o]
  BY DEF rest, Restrict
<1>3. /\ DOMAIN swap = DOMAIN rest \union {id}
      /\ swap[id] = entry
      /\ \A o \in DOMAIN rest \ {id} : swap[o] = rest[o]
  BY DEF swap, Inserted
<1> HIDE DEF put, rest, swap
<1>4. insert_neighbor(table, id, entry) =
        IF id \in DOMAIN table \/ Cardinality(DOMAIN table) < MaxNeighbors THEN put
        ELSE IF entry.quality <= table[w].quality THEN table ELSE swap
  BY DEF insert_neighbor, put, rest, swap, w
<1>5. CASE id \in DOMAIN table \/ Cardinality(DOMAIN table) < MaxNeighbors
  BY <1>1, <1>4, <1>5
<1>6. CASE /\ ~(id \in DOMAIN table \/ Cardinality(DOMAIN table) < MaxNeighbors)
           /\ entry.quality <= table[w].quality
  BY <1>4, <1>6
<1>7. CASE /\ ~(id \in DOMAIN table \/ Cardinality(DOMAIN table) < MaxNeighbors)
           /\ ~(entry.quality <= table[w].quality)
  <2>1. insert_neighbor(table, id, entry) = swap
    BY <1>4, <1>7
  <2>2. \A o \in DOMAIN table \ DOMAIN swap : o = w
    BY <1>2, <1>3
  <2>3. \A o \in DOMAIN table \ DOMAIN swap : swap[id].quality > table[o].quality
    BY <1>3, <1>7, <2>2
  <2> QED  BY <1>2, <1>3, <1>7, <2>1, <2>3
<1> QED  BY <1>5, <1>6, <1>7

\* Whoever leaves the table leaves it to a better neighbour.
LeftForBetter(before, after) ==
    \A o \in DOMAIN before \ DOMAIN after :
        \E m \in DOMAIN after \ DOMAIN before : after[m].quality > before[o].quality

\* What a call leaves of a node: its clock, a table that is in order, and the
\* better neighbours.
Kept(node, after, sky) ==
    /\ DOMAIN after = NodeFields
    /\ TableKept(after, sky)
    /\ after.lag = node.lag => LeftForBetter(node.table, after.table)

LEMMA HearKeepsTable ==
    ASSUME NEW node, NEW sky, NEW id, NEW battery, NEW rssi \in Rssis,
           DOMAIN node = NodeFields, TableKept(node, sky)
    PROVE  Kept(node, hear_peer(node, id, battery, rssi), sky)
<1> DEFINE after == hear_peer(node, id, battery, rssi)
           entry == [battery |-> battery, quality |-> QualityOf(rssi), age |-> 0,
                     lastSeq |-> IF id \in DOMAIN node.table THEN node.table[id].lastSeq ELSE 0]
           table == insert_neighbor(node.table, id, entry)
<1>1. entry.quality \in Int
  BY TableLimits DEF QualityOf, Least
<1>2. /\ entry.age = 0 /\ DOMAIN entry = {"battery", "quality", "age", "lastSeq"}
      /\ entry.lastSeq = IF id \in DOMAIN node.table THEN node.table[id].lastSeq ELSE 0
  OBVIOUS
<1>3. after = [node EXCEPT !.table = table]
  BY DEF hear_peer
<1> HIDE DEF entry
<1>4. /\ DOMAIN table \subseteq DOMAIN node.table \union {id}
      /\ \A o \in DOMAIN table : table[o] = IF o = id /\ table # node.table THEN entry ELSE node.table[o]
      /\ \A o \in DOMAIN node.table \ DOMAIN table :
             id \in DOMAIN table \ DOMAIN node.table /\ table[id].quality > node.table[o].quality
  BY <1>1, InsertKeepsTheRest DEF TableKept, EntryKept
<1> HIDE DEF table, after
<1>5. /\ DOMAIN after = NodeFields /\ after.table = table
      /\ after.lag = node.lag /\ after.seen = node.seen
  BY <1>3 DEF NodeFields
<1>6. \A o \in DOMAIN table : EntryKept(table[o], o, node.seen)
  <2> SUFFICES ASSUME NEW o \in DOMAIN table
               PROVE  EntryKept(table[o], o, node.seen)
    OBVIOUS
  <2>1. CASE o \in DOMAIN node.table
    <3>1. EntryKept(node.table[o], o, node.seen)
      BY <2>1 DEF TableKept
    <3>2. CASE o = id /\ table # node.table
      BY <1>1, <1>2, <1>4, <2>1, <3>1, <3>2, TableLimits DEF EntryKept
    <3>3. CASE ~(o = id /\ table # node.table)
      BY <1>4, <3>1, <3>3
    <3> QED  BY <3>2, <3>3
  <2>2. CASE o \notin DOMAIN node.table
    <3>1. o = id /\ table # node.table
      BY <1>4, <2>2
    <3> QED  BY <1>1, <1>2, <1>4, <2>2, <3>1, TableLimits DEF EntryKept
  <2> QED  BY <2>1, <2>2
<1> QED  BY <1>4, <1>5, <1>6 DEF Kept, TableKept, EntryKept, LeftForBetter, after

LEMMA ReceiveKeepsTable ==
    ASSUME NEW node, NEW sky, NEW id, NEW lsa \in sky, lsa.battery \in Nat,
           DOMAIN node = NodeFields, TableKept(node, sky)
    PROVE  Kept(node, process_lsa(node, id, lsa), sky)
<1>1. CASE ~Acceptable(node, id, lsa)
  BY <1>1 DEF process_lsa, Kept, LeftForBetter
<1>2. CASE Acceptable(node, id, lsa)
  <2> DEFINE after == process_lsa(node, id, lsa)
             entry == [battery |-> lsa.battery, quality |-> Least(2 * lsa.battery, 255),
                       age |-> 0, lastSeq |-> lsa.seq]
             table == insert_neighbor(node.table, lsa.origin, entry)
             seen == Inserted(node.seen, lsa.origin, lsa.seq)
  <2>1. /\ DOMAIN entry = {"battery", "quality", "age", "lastSeq"}
        /\ entry.quality \in Int /\ entry.age = 0 /\ entry.lastSeq = lsa.seq
    BY DEF Least
  <2>2. after = [node EXCEPT !.seen = seen, !.table = table]
    BY <1>2 DEF process_lsa
  <2>3. /\ DOMAIN seen = DOMAIN node.seen \union {lsa.origin}
        /\ seen[lsa.origin] = lsa.seq
        /\ \A o \in DOMAIN node.seen \ {lsa.origin} : seen[o] = node.seen[o]
    BY DEF Inserted
  <2> HIDE DEF entry
  <2>4. /\ DOMAIN table \subseteq DOMAIN node.table \union {lsa.origin}
        /\ \A o \in DOMAIN table :
               table[o] = IF o = lsa.origin /\ table # node.table THEN entry ELSE node.table[o]
        /\ \A o \in DOMAIN node.table \ DOMAIN table :
               /\ lsa.origin \in DOMAIN table \ DOMAIN node.table
               /\ table[lsa.origin].quality > node.table[o].quality
    BY <2>1, InsertKeepsTheRest DEF TableKept, EntryKept
  <2>5. lsa.origin \in DOMAIN node.table => table[lsa.origin] = entry
    BY DEF insert_neighbor, Inserted
  <2> HIDE DEF table, seen, after
  <2>6. /\ DOMAIN after = NodeFields /\ after.table = table
        /\ after.lag = node.lag /\ after.seen = seen
    BY <2>2 DEF NodeFields
  <2>7. \A o \in DOMAIN table : EntryKept(table[o], o, seen)
    <3> SUFFICES ASSUME NEW o \in DOMAIN table
                 PROVE  EntryKept(table[o], o, seen)
      OBVIOUS
    <3>1. CASE o = lsa.origin
      <4>1. table[o] = entry
        BY <2>4, <2>5, <3>1
      <4> QED  BY <2>1, <2>3, <3>1, <4>1, TableLimits DEF EntryKept
    <3>2. CASE o # lsa.origin
      <4>1. o \in DOMAIN node.table /\ table[o] = node.table[o]
        BY <2>4, <3>2
      <4> QED  BY <2>3, <3>2, <4>1 DEF TableKept, EntryKept
    <3> QED  BY <3>1, <3>2
  <2>8. \A o \in DOMAIN seen : Issued(o, seen[o], sky)
    <3>1. Issued(lsa.origin, lsa.seq, sky)
      BY <1>2 DEF Acceptable, Issued
    <3> QED  BY <2>3, <3>1 DEF TableKept, EntryKept
  <2> QED  BY <2>4, <2>6, <2>7, <2>8 DEF Kept, TableKept, EntryKept, LeftForBetter, after
<1> QED  BY <1>1, <1>2

LEMMA SetTimeKeepsTable ==
    ASSUME NEW node, NEW sky, DOMAIN node = NodeFields, TableKept(node, sky)
    PROVE  Kept(node, set_time(node), sky)
<1> DEFINE after == set_time(node)
           aged == [o \in DOMAIN node.table |-> [node.table[o] EXCEPT !.age = Older(@, node.lag)]]
           young == {o \in DOMAIN aged : aged[o].age <= Ttl}
           table == Restrict(aged, young)
<1>1. after = [node EXCEPT !.lag = 0, !.table = table]
  BY DEF set_time
<1>2. \A o \in DOMAIN node.table :
        /\ DOMAIN aged[o] = {"battery", "quality", "age", "lastSeq"}
        /\ aged[o].age = Older(node.table[o].age, node.lag)
        /\ aged[o].quality = node.table[o].quality
        /\ aged[o].lastSeq = node.table[o].lastSeq
  BY DEF TableKept, EntryKept
<1>3. DOMAIN aged = DOMAIN node.table
  OBVIOUS
<1> HIDE DEF aged
<1>4. DOMAIN table = young /\ \A o \in young : table[o] = aged[o]
  BY DEF Restrict
<1>5. \A o \in DOMAIN node.table :
        /\ Older(node.table[o].age, node.lag) \in Nat
        /\ node.lag = 0 => Older(node.table[o].age, node.lag) = node.table[o].age
  BY TableLimits DEF TableKept, EntryKept, Older, Least
<1> HIDE DEF table, after
<1>6. /\ DOMAIN after = NodeFields /\ after.table = table
      /\ after.lag = 0 /\ after.seen = node.seen
  BY <1>1 DEF NodeFields
<1>7. \A o \in DOMAIN table : EntryKept(table[o], o, node.seen)
  BY <1>2, <1>3, <1>4, <1>5, TableLimits DEF TableKept, EntryKept
<1>8. node.lag = 0 => DOMAIN table = DOMAIN node.table
  BY <1>2, <1>3, <1>4, <1>5 DEF TableKept, EntryKept
<1> QED  BY <1>6, <1>7, <1>8 DEF Kept, TableKept, EntryKept, LeftForBetter, after

\* Advertisements that age or are joined by others still name the numbers that
\* were issued.
LEMMA IssuedStays ==
    ASSUME NEW node, NEW sky, NEW later, TableKept(node, sky),
           \A lsa \in sky : \E x \in later :
               x.origin = lsa.origin /\ x.seq = lsa.seq /\ x.signature = lsa.signature
    PROVE  TableKept(node, later)
BY DEF TableKept, EntryKept, Issued, verify

\* One node moves by one of its calls and the rest of the mesh rests.
LEMMA NodeMovesAlone ==
    ASSUME MeshInv, NEW n \in Nodes, NEW node, mesh' = [mesh EXCEPT ![n] = node],
           UNCHANGED air, Kept(mesh[n], node, air) \/ node = FreshNode
    PROVE  MeshInv' /\ OnlyWorseAreEvicted
<1>1. DOMAIN FreshNode = NodeFields /\ TableKept(FreshNode, air)
  BY DEF FreshNode, NodeFields, TableKept, EntryKept
<1>2. /\ DOMAIN mesh' = Nodes /\ mesh'[n] = node
      /\ \A m \in Nodes \ {n} : mesh'[m] = mesh[m]
  BY DEF MeshInv
<1>3. MeshInv'
  BY <1>1, <1>2 DEF MeshInv, Kept
<1>4. OnlyWorseAreEvicted
  BY <1>2 DEF OnlyWorseAreEvicted, Kept, LeftForBetter
<1> QED  BY <1>3, <1>4

LEMMA MeshStepKeeps ==
    ASSUME MeshInv, [MeshNext]_meshVars
    PROVE  MeshInv' /\ ([OnlyWorseAreEvicted]_meshVars)
<1>1. Speakers \subseteq Nodes /\ Listeners \subseteq Nodes
  BY BleMeshAssumption DEF BleMeshAssumption
<1>2. ASSUME NEW n \in Speakers, Advertise(n) PROVE MeshInv' /\ OnlyWorseAreEvicted
  <2> DEFINE lsa == create_lsa(mesh[n], n)
  <2>1. n \in Nodes /\ BatteryOf[n] \in Nat
    BY <1>1, TableLimits
  <2>2. DOMAIN lsa = {"origin", "seq", "battery", "age", "signature"} /\ lsa.battery \in Nat
    BY <2>1 DEF create_lsa, LinkStateAdvertisement
  <2>3. air' = air \union {lsa} /\ mesh' = [mesh EXCEPT ![n].seq = @ + 1]
    BY <1>2 DEF Advertise
  <2> HIDE DEF lsa
  <2>4. \A m \in Nodes : /\ DOMAIN mesh'[m] = NodeFields
                         /\ mesh'[m].lag = mesh[m].lag /\ mesh'[m].table = mesh[m].table
                         /\ mesh'[m].seen = mesh[m].seen
    BY <2>3 DEF MeshInv, NodeFields
  <2>5. \A m \in Nodes : TableKept(mesh[m], air')
    BY <2>3, IssuedStays DEF MeshInv
  <2>6. \A m \in Nodes : TableKept(mesh'[m], air')
    BY <2>4, <2>5 DEF TableKept, EntryKept
  <2> QED  BY <2>2, <2>3, <2>4, <2>6 DEF MeshInv, OnlyWorseAreEvicted
<1>3. ASSUME NEW n \in Speakers \union Listeners, Restart(n) PROVE MeshInv' /\ OnlyWorseAreEvicted
  BY <1>1, <1>3, NodeMovesAlone DEF Restart
<1>4. ASSUME NEW n \in Listeners, Receive(n) PROVE MeshInv' /\ OnlyWorseAreEvicted
  <2>1. PICK lsa \in air : mesh' = [mesh EXCEPT ![n] = process_lsa(@, n, lsa)] /\ UNCHANGED air
    BY <1>4 DEF Receive
  <2>2. Kept(mesh[n], process_lsa(mesh[n], n, lsa), air)
    BY <1>1, ReceiveKeepsTable DEF MeshInv
  <2> QED  BY <1>1, <2>1, <2>2, NodeMovesAlone
<1>5. ASSUME NEW n \in Listeners, Hear(n) PROVE MeshInv' /\ OnlyWorseAreEvicted
  <2>1. PICK m \in Nodes \ {n}, rssi \in Rssis :
            mesh' = [mesh EXCEPT ![n] = hear_peer(@, m, BatteryOf[m], rssi)] /\ UNCHANGED air
    BY <1>5 DEF Hear
  <2>2. Kept(mesh[n], hear_peer(mesh[n], m, BatteryOf[m], rssi), air)
    BY <1>1, HearKeepsTable DEF MeshInv
  <2> QED  BY <1>1, <2>1, <2>2, NodeMovesAlone
<1>6. ASSUME NEW n \in Listeners, SetTime(n) PROVE MeshInv' /\ OnlyWorseAreEvicted
  <2>1. Kept(mesh[n], set_time(mesh[n]), air)
    BY <1>1, SetTimeKeepsTable DEF MeshInv
  <2> QED  BY <1>1, <1>6, <2>1, NodeMovesAlone DEF SetTime
<1>7. ASSUME Corrupt PROVE MeshInv' /\ OnlyWorseAreEvicted
  <2>1. PICK lsa \in air : air' = air \union {[lsa EXCEPT !.seq = @ + 1]} /\ UNCHANGED mesh
    BY <1>7 DEF Corrupt
  <2>2. \A x \in air' : /\ DOMAIN x = {"origin", "seq", "battery", "age", "signature"}
                        /\ x.battery \in Nat
    BY <2>1 DEF MeshInv
  <2>3. \A m \in Nodes : TableKept(mesh[m], air')
    BY <2>1, IssuedStays DEF MeshInv
  <2> QED  BY <2>1, <2>2, <2>3 DEF MeshInv, OnlyWorseAreEvicted
<1>8. ASSUME TimePasses PROVE MeshInv' /\ OnlyWorseAreEvicted
  <2>1. /\ mesh' = [n \in Nodes |-> [mesh[n] EXCEPT !.lag = Older(@, 1)]]
        /\ air' = {[lsa EXCEPT !.age = Older(@, 1)] : lsa \in air}
    BY <1>8 DEF TimePasses
  <2>2. \A lsa \in air : LET x == [lsa EXCEPT !.age = Older(@, 1)]
                         IN  /\ DOMAIN x = {"origin", "seq", "battery", "age", "signature"}
                             /\ x.battery = lsa.battery /\ x.origin = lsa.origin
                             /\ x.seq = lsa.seq /\ x.signature = lsa.signature
    BY DEF MeshInv
  <2>3. \A x \in air' : /\ DOMAIN x = {"origin", "seq", "battery", "age", "signature"}
                        /\ x.battery \in Nat
    BY <2>1, <2>2 DEF MeshInv
  <2>4. \A m \in Nodes : TableKept(mesh[m], air')
    <3>1. \A lsa \in air : \E x \in air' :
              x.origin = lsa.origin /\ x.seq = lsa.seq /\ x.signature = lsa.signature
      BY <2>1, <2>2
    <3> QED  BY <3>1, IssuedStays DEF MeshInv
  <2>5. \A m \in Nodes : /\ DOMAIN mesh'[m] = NodeFields
                         /\ mesh'[m].lag \in Nat /\ mesh'[m].table = mesh[m].table
                         /\ mesh'[m].seen = mesh[m].seen
    BY <2>1, TableLimits DEF MeshInv, NodeFields, TableKept, EntryKept, Older, Least
  <2>6. \A m \in Nodes : TableKept(mesh'[m], air')
    BY <2>4, <2>5 DEF TableKept, EntryKept
  <2> QED  BY <2>1, <2>3, <2>5, <2>6 DEF MeshInv, OnlyWorseAreEvicted
<1>9. ASSUME UNCHANGED meshVars PROVE MeshInv'
  BY <1>9 DEF MeshInv, meshVars
<1> QED  BY <1>2, <1>3, <1>4, <1>5, <1>6, <1>7, <1>8, <1>9 DEF MeshNext

\* TableIsTrue: what a node has on record of an origin is the newest genuine
\* advertisement it accepted, and a better neighbour is never given up for a
\* worse one (process_lsa, hear_peer, prune_stale, insert_neighbor).
THEOREM TablesAreTrue == MeshSpec => TableIsTrue
<1>1. MeshInit => MeshInv
  BY DEF MeshInit, MeshInv, FreshNode, NodeFields, TableKept, EntryKept
<1>2. MeshInv => TableFollowsNewest
  BY DEF MeshInv, TableFollowsNewest, WindowIsGenuine, TableKept, EntryKept, Issued
<1>3. MeshInv /\ [MeshNext]_meshVars => MeshInv' /\ ([OnlyWorseAreEvicted]_meshVars)
  BY MeshStepKeeps
<1>4. MeshInv' => TableFollowsNewest'
  BY <1>2, PTL
<1>5. MeshInv /\ MeshInv' /\ [MeshNext]_meshVars => [TableFollowsNewest' /\ OnlyWorseAreEvicted]_meshVars
  BY <1>3, <1>4
<1> QED  BY <1>1, <1>3, <1>5, PTL DEF MeshSpec, TableIsTrue

-----------------------------------------------------------------------------
(***************************************************************************)
(* Who is who, and where.  A bucket is kept in the order its contacts were *)
(* heard of; a directory grows and its keys only rise; what a check found  *)
(* out stays true until the node takes another identity.                   *)
(***************************************************************************)

\* What TableAssumption says of a table.
LEMMA TableSizes == Bits \in Nat /\ Bits >= 1 /\ K \in Nat /\ K >= 1
BY TableAssumption DEF TableAssumption

\* Every id has a bucket.
LEMMA BucketExists ==
    ASSUME NEW a \in NodeIds, NEW c \in NodeIds
    PROVE  bucket_for(a, c) \in BitIndexes
<1> DEFINE d == xor_distance(a, c)
           T == {Bits - x : x \in d}
<1>1. d \subseteq BitIndexes
  BY DEF xor_distance, NodeIds
<1> HIDE DEF d
<1>2. CASE d = {}
  BY <1>2, TableSizes DEF bucket_for, calculate_bucket_index, BitIndexes, d
<1>3. CASE d # {}
  <2>1. T \subseteq Nat /\ T # {}
    BY <1>1, <1>3, TableSizes DEF BitIndexes
  <2>2. PICK t \in T : \A u \in T : t <= u
    <3> HIDE DEF T
    <3> QED  BY <2>1, LeastNumber
  <2>3. PICK x \in d : t = Bits - x
    OBVIOUS
  <2>4. \A y \in d : x >= y
    <3> SUFFICES ASSUME NEW y \in d PROVE x >= y
      OBVIOUS
    <3>1. Bits - y \in T
      OBVIOUS
    <3>2. t <= Bits - y
      <4> HIDE DEF T
      <4> QED  BY <2>2, <3>1
    <3> QED  BY <1>1, <2>3, <3>2, TableSizes DEF BitIndexes
  <2>5. Max(d) \in d
    BY <2>4 DEF Max
  <2> QED  BY <1>1, <1>3, <2>5 DEF bucket_for, calculate_bucket_index, d
<1> QED  BY <1>2, <1>3

\* A contact as a bucket keeps it.
Contact == [id : NodeIds, last_seen : Nat]

\* What is true of a bucket of a table at a tick.
BucketKept(s, b, local_id, at_tick) ==
    /\ s \in Seq(Contact) /\ Len(s) <= K
    /\ \A k \in 1..Len(s) : /\ s[k].id # local_id /\ bucket_for(local_id, s[k].id) = b
                            /\ s[k].last_seen <= at_tick
    /\ \A j, k \in 1..Len(s) : j < k => s[j].last_seen < s[k].last_seen /\ s[j].id # s[k].id

\* A contact that a bucket does not hold yet goes behind a part of it.
LEMMA ContactAppended ==
    ASSUME NEW s, NEW b, NEW local_id, NEW at_tick \in Nat, BucketKept(s, b, local_id, at_tick),
           Len(s) < K,
           NEW c \in Contact, c.last_seen = at_tick + 1, c.id # local_id, bucket_for(local_id, c.id) = b,
           \A k \in 1..Len(s) : s[k].id # c.id
    PROVE  BucketKept(Append(s, c), b, local_id, at_tick + 1)
<1> DEFINE a == Append(s, c)
           n == Len(s)
<1>1. s \in Seq(Contact) /\ n \in Nat
  BY DEF BucketKept
<1>2. /\ a \in Seq(Contact) /\ Len(a) = n + 1
      /\ \A i \in 1..n : a[i] = s[i]
      /\ a[n + 1] = c
  BY <1>1, AppendProperties
<1>3. \A i \in 1..n : s[i] \in Contact
  BY <1>1, ElementOfSeq
<1> HIDE DEF a, n
<1>4. n + 1 <= K
  BY <1>1, TableSizes DEF n
<1>5. \A k \in 1..(n + 1) : /\ a[k].id # local_id /\ bucket_for(local_id, a[k].id) = b
                            /\ a[k].last_seen <= at_tick + 1
  <2> SUFFICES ASSUME NEW k \in 1..(n + 1)
               PROVE  a[k].id # local_id /\ bucket_for(local_id, a[k].id) = b /\ a[k].last_seen <= at_tick + 1
    OBVIOUS
  <2>1. CASE k = n + 1
    BY <1>2, <2>1
  <2>2. CASE k # n + 1
    <3>1. k \in 1..n
      BY <1>1, <2>2
    <3>2. a[k] = s[k] /\ s[k].last_seen \in Nat
      BY <1>2, <1>3, <3>1 DEF Contact
    <3>3. s[k].id # local_id /\ bucket_for(local_id, s[k].id) = b /\ s[k].last_seen <= at_tick
      BY <3>1 DEF BucketKept, n
    <3> QED  BY <3>2, <3>3
  <2> QED  BY <2>1, <2>2
<1>6. ASSUME NEW j \in 1..(n + 1), NEW k \in 1..(n + 1), j < k
      PROVE  a[j].last_seen < a[k].last_seen /\ a[j].id # a[k].id
  <2>1. j \in 1..n /\ a[j] = s[j]
    <3>1. j \in 1..n
      BY <1>1, <1>6
    <3> QED  BY <1>2, <3>1
  <2>2. CASE k = n + 1
    <3>1. a[k] = c /\ s[j].last_seen <= at_tick /\ s[j].last_seen \in Nat /\ s[j].id # c.id
      BY <1>2, <1>3, <2>1, <2>2 DEF BucketKept, n, Contact
    <3> QED  BY <2>1, <3>1
  <2>3. CASE k # n + 1
    <3>1. k \in 1..n
      BY <1>1, <2>3
    <3> QED  BY <1>2, <1>6, <2>1, <3>1 DEF BucketKept, n
  <2> QED  BY <2>2, <2>3
<1> QED  BY <1>2, <1>4, <1>5, <1>6 DEF BucketKept, a

\* What is left of a bucket when one contact leaves.
LEMMA ContactLeaves ==
    ASSUME NEW s, NEW b, NEW local_id, NEW at_tick \in Nat, BucketKept(s, b, local_id, at_tick),
           NEW i \in 1..Len(s), NEW r \in Seq(Contact), Len(r) = Len(s) - 1,
           \A k \in 1..Len(r) : r[k] = s[IF k < i THEN k ELSE k + 1]
    PROVE  /\ BucketKept(r, b, local_id, at_tick) /\ Len(r) < K
           /\ \A k \in 1..Len(r) : r[k].id # s[i].id
<1> DEFINE n == Len(s)
           at(k) == IF k < i THEN k ELSE k + 1
<1>1. n \in Nat /\ n <= K /\ i \in 1..n /\ Len(r) = n - 1 /\ n - 1 <= K /\ n - 1 < K
  <2>1. n \in Nat /\ n <= K
    BY DEF BucketKept
  <2> QED  BY <2>1, TableSizes
<1>2. \A k \in 1..(n - 1) : at(k) \in 1..n /\ at(k) # i /\ r[k] = s[at(k)]
  BY <1>1
<1>3. \A j, k \in 1..(n - 1) : j < k => at(j) < at(k)
  BY <1>1
<1> HIDE DEF n, at
<1>4. \A k \in 1..(n - 1) : /\ r[k].id # local_id /\ bucket_for(local_id, r[k].id) = b
                            /\ r[k].last_seen <= at_tick
  BY <1>2 DEF BucketKept, n
<1>5. ASSUME NEW j \in 1..(n - 1), NEW k \in 1..(n - 1), j < k
      PROVE  r[j].last_seen < r[k].last_seen /\ r[j].id # r[k].id
  <2>1. at(j) \in 1..n /\ at(k) \in 1..n /\ at(j) < at(k) /\ r[j] = s[at(j)] /\ r[k] = s[at(k)]
    BY <1>2, <1>3, <1>5
  <2>2. s[at(j)].last_seen < s[at(k)].last_seen /\ s[at(j)].id # s[at(k)].id
    BY <2>1 DEF BucketKept, n
  <2> QED  BY <2>1, <2>2
<1>6. \A k \in 1..(n - 1) : r[k].id # s[i].id
  <2> SUFFICES ASSUME NEW k \in 1..(n - 1) PROVE r[k].id # s[i].id
    OBVIOUS
  <2>1. at(k) \in 1..n /\ at(k) # i /\ r[k] = s[at(k)]
    BY <1>2
  <2>2. at(k) < i \/ i < at(k)
    BY <1>1, <2>1
  <2> QED  BY <1>1, <2>1, <2>2 DEF BucketKept, n
<1> QED  BY <1>1, <1>4, <1>5, <1>6 DEF BucketKept

\* The tables that follow are such records, with buckets as they should be.
Routes == [local_id : NodeIds, tick : Nat, buckets : [BitIndexes -> Seq(Contact)],
           refreshed_at : [BitIndexes -> Nat]]

RoutesKept(t) ==
    /\ t \in Routes
    /\ \A b \in BitIndexes : BucketKept(t.buckets[b], b, t.local_id, t.tick)

\* An insertion that changes bucket b to s, the bucket's last probe to p.
Inserting(t, b, s, p) ==
    [t EXCEPT !.tick = @ + 1, !.refreshed_at[b] = p, !.buckets[b] = s]

\* It keeps the other buckets as they were.
LEMMA InsertingKeeps ==
    ASSUME NEW t, RoutesKept(t), NEW b \in BitIndexes, NEW p \in Nat,
           NEW s, BucketKept(s, b, t.local_id, t.tick + 1)
    PROVE  RoutesKept(Inserting(t, b, s, p)) /\ Inserting(t, b, s, p).local_id = t.local_id
<1> DEFINE S == Seq(Contact)
           v == Inserting(t, b, s, p)
<1>1. /\ t \in [local_id : NodeIds, tick : Nat, buckets : [BitIndexes -> S], refreshed_at : [BitIndexes -> Nat]]
      /\ s \in S
  BY DEF RoutesKept, Routes, BucketKept
<1> HIDE DEF S
<1>2. /\ v \in [local_id : NodeIds, tick : Nat, buckets : [BitIndexes -> S], refreshed_at : [BitIndexes -> Nat]]
      /\ v.local_id = t.local_id /\ v.tick = t.tick + 1
      /\ \A c \in BitIndexes : v.buckets[c] = IF c = b THEN s ELSE t.buckets[c]
  <2> DEFINE x == t.tick + 1
             probes == [t.refreshed_at EXCEPT ![b] = p]
             filled == [t.buckets EXCEPT ![b] = s]
  <2>1. v = [t EXCEPT !.tick = x, !.refreshed_at = probes, !.buckets = filled]
    BY <1>1 DEF Inserting
  <2>2. x \in Nat /\ probes \in [BitIndexes -> Nat] /\ filled \in [BitIndexes -> S]
    BY <1>1
  <2>3. \A c \in BitIndexes : filled[c] = IF c = b THEN s ELSE t.buckets[c]
    BY <1>1
  <2> HIDE DEF x, probes, filled, v
  <2>4. /\ v \in [local_id : NodeIds, tick : Nat, buckets : [BitIndexes -> S], refreshed_at : [BitIndexes -> Nat]]
        /\ v.local_id = t.local_id /\ v.tick = x /\ v.buckets = filled
    BY <1>1, <2>1, <2>2
  <2> QED  BY <2>3, <2>4 DEF x
<1> HIDE DEF v
<1>3. \A c \in BitIndexes \ {b} : BucketKept(t.buckets[c], c, t.local_id, t.tick + 1)
  <2> SUFFICES ASSUME NEW c \in BitIndexes \ {b}
               PROVE  BucketKept(t.buckets[c], c, t.local_id, t.tick + 1)
    OBVIOUS
  <2> DEFINE u == t.buckets[c]
  <2>1. BucketKept(u, c, t.local_id, t.tick) /\ t.tick \in Nat
    BY <1>1 DEF RoutesKept
  <2>2. \A k \in 1..Len(u) : u[k].last_seen \in Nat
    <3>1. \A k \in 1..Len(u) : u[k] \in Contact
      BY <2>1, ElementOfSeq DEF BucketKept
    <3> QED  BY <3>1 DEF Contact
  <2> HIDE DEF u
  <2>3. \A k \in 1..Len(u) : u[k].last_seen <= t.tick + 1
    BY <2>1, <2>2 DEF BucketKept
  <2> QED  BY <2>1, <2>3 DEF BucketKept, u
<1>4. \A c \in BitIndexes : BucketKept(v.buckets[c], c, v.local_id, v.tick)
  BY <1>2, <1>3
<1> QED  BY <1>2, <1>4 DEF RoutesKept, Routes, S, v

\* All the ways an insertion can end.
LEMMA InsertKeepsRoutes ==
    ASSUME NEW t, RoutesKept(t), NEW id \in NodeIds, NEW alive
    PROVE  /\ RoutesKept(insert_with_probe(t, id, alive))
           /\ insert_with_probe(t, id, alive).local_id = t.local_id
<1> DEFINE b == bucket_for(t.local_id, id)
           s == t.buckets[b]
           n == Len(s)
           c == [id |-> id, last_seen |-> t.tick + 1]
           v == insert_with_probe(t, id, alive)
           known == {k \in DOMAIN s : s[k].id = id}
<1>1. /\ t \in Routes /\ t.tick \in Nat /\ t.local_id \in NodeIds /\ b \in BitIndexes
      /\ t.buckets \in [BitIndexes -> Seq(Contact)] /\ t.refreshed_at[b] \in Nat
  <2>1. t \in Routes /\ t.local_id \in NodeIds
    BY DEF RoutesKept, Routes
  <2>2. b \in BitIndexes
    BY <2>1, BucketExists
  <2> QED  BY <2>1, <2>2 DEF Routes
<1>2. BucketKept(s, b, t.local_id, t.tick) /\ s \in Seq(Contact) /\ n \in Nat /\ DOMAIN s = 1..n
      /\ n <= K
  <2>1. BucketKept(s, b, t.local_id, t.tick)
    BY <1>1 DEF RoutesKept
  <2> QED  BY <2>1, LenProperties DEF BucketKept
<1>3. c \in Contact /\ c.last_seen = t.tick + 1 /\ c.id = id
  BY <1>1 DEF Contact
<1> HIDE DEF b, s, c, n
<1>4. CASE id = t.local_id
  BY <1>4 DEF insert_with_probe
<1>5. CASE id # t.local_id /\ (n < K \/ \E d \in ToSet(s) : d.id = id)
  <2> DEFINE w == Append(IF known = {} THEN s ELSE RemoveAt(s, Min(known)), c)
  <2>1. v = Inserting(t, b, w, t.refreshed_at[b])
    <3>1. v = [t EXCEPT !.tick = @ + 1, !.buckets[b] = Refreshed(@, c)]
      BY <1>5 DEF insert_with_probe, b, s, c, n
    <3>2. Refreshed(s, c) = w
      BY <1>3 DEF Refreshed
    <3> HIDE DEF w
    <3>3. v = [t EXCEPT !.tick = @ + 1, !.buckets[b] = w]
      BY <3>1, <3>2 DEF s
    <3> QED  BY <1>1, <3>3 DEF Inserting, Routes
  <2>2. BucketKept(w, b, t.local_id, t.tick + 1)
    <3>1. CASE known = {}
      <4>1. \A k \in 1..n : s[k].id # id
        BY <1>2, <3>1
      <4>2. n < K
        BY <1>2, <1>5, <4>1 DEF ToSet
      <4>3. BucketKept(Append(s, c), b, t.local_id, t.tick + 1)
        BY <1>1, <1>2, <1>3, <1>5, <4>1, <4>2, ContactAppended DEF n, b
      <4> QED  BY <3>1, <4>3
    <3>2. CASE known # {}
      <4> DEFINE i == Min(known)
                 r == RemoveAt(s, i)
      <4>1. i \in 1..n /\ s[i].id = id
        <5>1. known \subseteq Nat
          BY <1>2
        <5>2. i \in known
          BY <3>2, <5>1, MinIsLeast, Zenon
        <5> QED  BY <1>2, <5>2
      <4> HIDE DEF i
      <4>2. /\ r \in Seq(Contact) /\ Len(r) = Len(s) - 1
            /\ \A k \in 1..Len(r) : r[k] = s[IF k < i THEN k ELSE k + 1]
        BY <1>2, <4>1, RemovedPlace, Zenon DEF n, RemoveAt
      <4> HIDE DEF r
      <4>3. BucketKept(r, b, t.local_id, t.tick) /\ Len(r) < K /\ \A k \in 1..Len(r) : r[k].id # id
        <5>1. i \in 1..Len(s) /\ t.tick \in Nat
          BY <1>1, <4>1 DEF n
        <5>2. /\ BucketKept(r, b, t.local_id, t.tick) /\ Len(r) < K
              /\ \A k \in 1..Len(r) : r[k].id # s[i].id
          BY <1>2, <4>2, <5>1, ContactLeaves, SMTT(30)
        <5> QED  BY <4>1, <5>2
      <4>4. BucketKept(Append(r, c), b, t.local_id, t.tick + 1)
        BY <1>1, <1>3, <1>5, <4>3, ContactAppended DEF b
      <4> QED  BY <3>2, <4>4 DEF r, i
    <3> QED  BY <3>1, <3>2
  <2> HIDE DEF w, v
  <2> QED  BY <1>1, <2>1, <2>2, InsertingKeeps DEF v
<1>6. CASE ~(n < K \/ \E d \in ToSet(s) : d.id = id) /\ id # t.local_id
  <2> DEFINE r == Tail(s)
             w == Append(r, c)
  <2>1. n = K /\ n >= 1 /\ \A k \in 1..n : s[k].id # id
    BY <1>2, <1>6, TableSizes DEF ToSet
  <2>2. /\ r \in Seq(Contact) /\ Len(r) = Len(s) - 1
        /\ \A k \in 1..Len(r) : r[k] = s[k + 1]
    <3>1. s # << >>
      BY <2>1 DEF n
    <3> QED  BY <1>2, <3>1, HeadTailProperties
  <2> HIDE DEF r
  <2>3. BucketKept(r, b, t.local_id, t.tick) /\ Len(r) < K
    <3>1. 1 \in 1..Len(s) /\ Len(r) \in Nat
      BY <1>2, <2>1, <2>2 DEF n
    <3>2. \A k \in 1..Len(r) : r[k] = s[IF k < 1 THEN k ELSE k + 1]
      BY <2>2, <3>1
    <3> QED  BY <1>1, <1>2, <2>2, <3>1, <3>2, ContactLeaves
  <2>4. \A k \in 1..Len(r) : r[k].id # id
    <3>1. \A k \in 1..Len(r) : k + 1 \in 1..n
      BY <1>2, <2>2 DEF n
    <3> QED  BY <2>1, <2>2, <3>1
  <2>5. BucketKept(w, b, t.local_id, t.tick + 1)
    BY <1>1, <1>3, <1>6, <2>3, <2>4, ContactAppended DEF b
  <2>6. BucketKept(s, b, t.local_id, t.tick + 1)
    <3>1. \A k \in 1..n : s[k].last_seen \in Nat
      <4>1. \A k \in 1..n : s[k] \in Contact
        BY <1>2, ElementOfSeq DEF n
      <4> QED  BY <4>1 DEF Contact
    <3>2. \A k \in 1..n : s[k].last_seen <= t.tick + 1
      BY <1>1, <1>2, <3>1 DEF BucketKept, n
    <3> QED  BY <1>2, <3>2 DEF BucketKept, n
  <2>7. CASE MayProbe(t, b)
    <3> DEFINE x == IF alive THEN s ELSE w
    <3>1. v = Inserting(t, b, x, t.tick + 1)
      <4>1. v = Probed(t, b, c, alive)
        BY <1>6, <2>7 DEF insert_with_probe, b, s, c, n
      <4>2. Probed(t, b, c, alive)
               = [t EXCEPT !.tick = @ + 1, !.refreshed_at[b] = t.tick + 1,
                           !.buckets[b] = IF alive THEN @ ELSE Append(Tail(@), c)]
        BY DEF Probed
      <4>3. x = IF alive THEN t.buckets[b] ELSE Append(Tail(t.buckets[b]), c)
        BY DEF r, s
      <4> HIDE DEF v, x
      <4> QED  BY <1>1, <4>1, <4>2, <4>3 DEF Inserting, Routes
    <3>2. BucketKept(x, b, t.local_id, t.tick + 1) /\ t.tick + 1 \in Nat
      BY <1>1, <2>5, <2>6
    <3> HIDE DEF v, x
    <3> QED  BY <1>1, <3>1, <3>2, InsertingKeeps DEF v
  <2>8. CASE ~MayProbe(t, b)
    <3>1. v = Inserting(t, b, s, t.refreshed_at[b])
      <4>1. v = [t EXCEPT !.tick = @ + 1]
        BY <1>6, <2>8 DEF insert_with_probe, b, s, c, n
      <4> HIDE DEF v
      <4> QED  BY <1>1, <4>1 DEF Inserting, Routes, s
    <3> HIDE DEF v
    <3> QED  BY <1>1, <2>6, <3>1, InsertingKeeps DEF v
  <2> QED  BY <2>7, <2>8
<1> QED  BY <1>4, <1>5, <1>6

\* The loop of sync_peers_into_table.
SyncedTable(base, ps) == FoldLeft(LAMBDA t, p : insert(t, p.id), base, ps)

\* A table that peers are inserted into one after the other.
LEMMA SyncKeepsRoutes ==
    ASSUME NEW base, RoutesKept(base), NEW ps \in Seq(PeerIds)
    PROVE  RoutesKept(SyncedTable(base, ps))
<1> DEFINE n == Len(ps)
           X == {t \in Routes : RoutesKept(t)}
           step == [z \in X \X (1..n) |-> insert(z[1], ps[z[2]].id)]
           Rec(f) == [s \in SUBSET DOMAIN ps |->
                         IF s = {} THEN base ELSE insert(f[s \ {Max(s)}], ps[Max(s)].id)]
           iter == CHOOSE f : f = Rec(f)
           g == [i \in 0..n |-> iter[1..i]]
<1>1. n \in Nat /\ DOMAIN ps = 1..n /\ \A i \in 1..n : ps[i].id \in NodeIds
  <2>1. \A i \in 1..n : ps[i] \in PeerIds
    BY ElementOfSeq
  <2> QED  BY <2>1, LenProperties DEF PeerIds
<1>2. SyncedTable(base, ps) = iter[DOMAIN ps]
  BY DEF SyncedTable, FoldLeft, MapThenFoldSet
<1>3. base \in X
  BY DEF RoutesKept
<1> HIDE DEF n
<1>4. \A t \in X, i \in 1..n : insert(t, ps[i].id) \in X
  <2> SUFFICES ASSUME NEW t \in X, NEW i \in 1..n PROVE insert(t, ps[i].id) \in X
    OBVIOUS
  <2>1. RoutesKept(t) /\ ps[i].id \in NodeIds
    BY <1>1
  <2>2. RoutesKept(insert(t, ps[i].id))
    BY <2>1, InsertKeepsRoutes DEF insert
  <2> QED  BY <2>2 DEF RoutesKept
<1> HIDE DEF X
<1>5. step \in [X \X (1..n) -> X] /\ \A t \in X, i \in 1..n : step[<<t, i>>] = insert(t, ps[i].id)
  BY <1>4
<1>6. \E f : f = Rec(f)
  <2> HIDE DEF step
  <2>1. PICK f : Folding(f, step, base, n)
    BY <1>1, FoldingExists
  <2>2. ASSUME NEW s \in SUBSET (1..n), s # {}
        PROVE  f[s] = insert(f[s \ {Max(s)}], ps[Max(s)].id)
    <3> DEFINE r == s \ {Max(s)}
    <3>1. n # 0
      <4>1. 1..0 = {}
        OBVIOUS
      <4> QED  BY <2>2, <4>1
    <3>2. r \in SUBSET (1..n) /\ Max(s) \in 1..n
      BY <1>1, <2>2, <3>1, WithoutTheLast
    <3> HIDE DEF r
    <3>3. f[r] \in X
      BY <1>1, <1>3, <1>5, <2>1, <3>2, FoldingTyped
    <3>4. f[s] = step[<<f[r], Max(s)>>]
      BY <2>1, <2>2 DEF Folding, r
    <3> QED  BY <1>5, <3>2, <3>3, <3>4 DEF r
  <2>3. f = Rec(f)
    <3>1. f = [s \in SUBSET (1..n) |-> IF s = {} THEN base ELSE step[<<f[s \ {Max(s)}], Max(s)>>]]
      BY <2>1 DEF Folding
    <3>2. f = [s \in SUBSET (1..n) |-> f[s]]
      BY <3>1
    <3>3. {} \in SUBSET (1..n) /\ f[{}] = base
      BY <3>1
    <3> QED  BY <1>1, <2>2, <3>2, <3>3
  <2> QED  BY <2>3
<1>7. iter = [s \in SUBSET (1..n) |-> IF s = {} THEN base ELSE insert(iter[s \ {Max(s)}], ps[Max(s)].id)]
  BY <1>1, <1>6
<1> HIDE DEF iter
<1>8. g[0] \in X
  <2>1. 1..0 = {} /\ {} \in SUBSET (1..n) /\ 0 \in 0..n
    BY <1>1
  <2> QED  BY <1>3, <1>7, <2>1
<1>9. ASSUME NEW i \in 1..n, g[i - 1] \in X PROVE g[i] \in X
  <2>1. 1..i \in SUBSET (1..n) /\ 1..i # {} /\ i \in Nat /\ i # 0 /\ i \in 0..n /\ i - 1 \in 0..n
    <3>1. i \in Nat /\ i # 0 /\ i \in 1..i /\ i <= n /\ i - 1 \in Nat /\ i - 1 <= n
      BY <1>1
    <3> QED  BY <1>1, <3>1
  <2>2. Max(1..i) = i /\ (1..i) \ {i} = 1..(i - 1)
    BY <2>1, LastOfPlaces
  <2>3. g[i] = insert(g[i - 1], ps[i].id)
    BY <1>7, <2>1, <2>2
  <2> HIDE DEF g
  <2> QED  BY <1>4, <1>9, <2>3
<1>10. n \in 0..n /\ g[n] = iter[1..n]
  BY <1>1
<1>11. g[n] \in X
  <2> HIDE DEF g
  <2> QED  BY <1>1, <1>8, <1>9, <1>10, StepByStep
<1> QED  BY <1>1, <1>2, <1>10, <1>11 DEF X

\* A table without contacts.
LEMMA NewTableKept == ASSUME NEW id \in NodeIds PROVE RoutesKept(NewTable(id)) /\ NewTable(id).local_id = id
<1> DEFINE t == NewTable(id)
<1>1. << >> \in Seq(Contact) /\ Len(<< >>) = 0
  BY EmptySeq
<1>2. t \in Routes /\ t.tick = 0 /\ t.local_id = id /\ \A b \in BitIndexes : t.buckets[b] = << >>
  BY <1>1 DEF NewTable, Routes, Never
<1> HIDE DEF t
<1>3. \A b \in BitIndexes : BucketKept(t.buckets[b], b, t.local_id, t.tick)
  <2> DEFINE e == << >>
  <2>1. e \in Seq(Contact) /\ Len(e) = 0 /\ 1..0 = {}
    BY <1>1
  <2> HIDE DEF e
  <2>2. \A b \in BitIndexes : BucketKept(e, b, t.local_id, t.tick)
    BY <2>1, TableSizes DEF BucketKept
  <2> QED  BY <1>2, <2>2 DEF e
<1> QED  BY <1>2, <1>3 DEF RoutesKept, t

-----------------------------------------------------------------------------
\* What a node makes of the peers it knows.
PeersKept(ps, own) ==
    /\ ps \in Seq(PeerIds)
    /\ \A k, l \in 1..Len(ps) : ps[k].id = ps[l].id => k = l
    /\ \A k \in 1..Len(ps) : ps[k].id # own.id

\* The invariant: no peer is known by the id of the node itself, and whoever met
\* a stronger claim to the id that it still holds knows that it has lost it.
IdentityInv ==
    /\ local \in [MeshNodes -> PeerIds]
    /\ DOMAIN peers = MeshNodes /\ \A n \in MeshNodes : PeersKept(peers[n], local[n])
    /\ DOMAIN routing = MeshNodes /\ \A n \in MeshNodes : RoutesKept(routing[n])
    /\ met \subseteq MeshNodes \X PeerIds \X PeerIds
    /\ \A m \in met : \/ m[2].id = m[3].id
                      \/ \E q \in ToSet(peers[m[1]]) : q.id = m[3].id /\ q.key >= m[3].key
    /\ \A m \in met : m[2] = local[m[1]] /\ m[3].id = m[2].id
                        /\ (m[3] = m[2] \/ m[3].key > m[2].key) => m[1] \in lost

\* The node that gives an id up gets an identity that it never had.
RekeysAreNew == \A n \in lost \ lost' : \A m \in met : m[1] = n => m[2] # local'[n]

\* The identities and the tables of all nodes.
IdentitySpec == IdentityInit /\ [][IdentityNext \/ \E n \in MeshNodes : TableNext(n)]_identityVars

\* An id and a key are all there is to a peer.
LEMMA PeerEqual == \A p, q \in PeerIds : p.id = q.id /\ p.key = q.key => p = q
BY DEF PeerIds

\* It is stronger than what the run checks, for the peers,
LEMMA IdentitiesAreSettled == IdentityInv => IdentitiesSettle
<1> SUFFICES ASSUME IdentityInv PROVE IdentitiesSettle
  OBVIOUS
<1>1. ASSUME NEW n \in MeshNodes, NEW k, NEW l,
             {k, l} \subseteq DOMAIN peers[n], peers[n][k].id = peers[n][l].id
      PROVE  k = l
  <2>1. PeersKept(peers[n], local[n])
    BY DEF IdentityInv
  <2>2. DOMAIN peers[n] = 1..Len(peers[n])
    BY <2>1, LenProperties DEF PeersKept
  <2> QED  BY <1>1, <2>1, <2>2 DEF PeersKept
<1>2. \A m \in met : \/ m[2].id = m[3].id
                     \/ \E q \in ToSet(peers[m[1]]) : q.id = m[3].id /\ q.key >= m[3].key
  BY DEF IdentityInv
<1>3. ASSUME NEW m \in MeshNodes, NEW n \in MeshNodes, m # n, local[m].id = local[n].id,
             <<m, local[m], local[n]>> \in met, <<n, local[n], local[m]>> \in met
      PROVE  {m, n} \intersect lost # {}
  <2> DEFINE a == local[m]
             b == local[n]
  <2>1. a \in PeerIds /\ b \in PeerIds /\ a.key \in Nat /\ b.key \in Nat
    BY DEF IdentityInv, PeerIds
  <2>2. (b = a \/ b.key > a.key) => m \in lost
    BY <1>3 DEF IdentityInv
  <2>3. (a = b \/ a.key > b.key) => n \in lost
    BY <1>3 DEF IdentityInv
  <2>4. a.key = b.key => a = b
    BY <1>3, <2>1, PeerEqual
  <2> HIDE DEF a, b
  <2> QED  BY <2>1, <2>2, <2>3, <2>4
<1> QED  BY <1>1, <1>2, <1>3 DEF IdentitiesSettle

\* and for the tables.
LEMMA BucketsInOrder == IdentityInv => BucketsAreOrdered
<1> SUFFICES ASSUME IdentityInv, NEW n \in MeshNodes
             PROVE  LET t == routing[n]
                    IN  /\ \A c \in Contacts(t) : find_node_local(t, c) = {c}
                        /\ \A b \in BitIndexes :
                            /\ Len(t.buckets[b]) <= K
                            /\ \A k \in DOMAIN t.buckets[b] :
                                  /\ \A j \in DOMAIN t.buckets[b] :
                                        t.buckets[b][j].id = t.buckets[b][k].id => j = k
                                  /\ t.buckets[b][k].id # t.local_id
                                  /\ bucket_for(t.local_id, t.buckets[b][k].id) = b
                                  /\ k > 1 => t.buckets[b][k - 1].last_seen < t.buckets[b][k].last_seen
  BY DEF BucketsAreOrdered
<1> DEFINE t == routing[n]
<1>1. RoutesKept(t)
  BY DEF IdentityInv
<1> HIDE DEF t
<1>2. ASSUME NEW c \in Contacts(t) PROVE find_node_local(t, c) = {c}
  <2>1. PICK b \in BitIndexes : \E d \in ToSet(t.buckets[b]) : c = d.id
    BY DEF Contacts
  <2> DEFINE s == t.buckets[b]
  <2>2. BucketKept(s, b, t.local_id, t.tick)
    BY <1>1 DEF RoutesKept
  <2>3. DOMAIN s = 1..Len(s)
    BY <2>2, LenProperties DEF BucketKept
  <2>4. PICK k \in 1..Len(s) : c = s[k].id
    BY <2>1, <2>3 DEF ToSet
  <2>5. bucket_for(t.local_id, c) = b
    BY <2>2, <2>4 DEF BucketKept
  <2>6. get(t, c) = {c}
    BY <2>1, <2>5 DEF get
  <2> QED  BY <2>6 DEF find_node_local
<1>3. ASSUME NEW b \in BitIndexes
      PROVE  /\ Len(t.buckets[b]) <= K
             /\ \A k \in DOMAIN t.buckets[b] :
                  /\ \A j \in DOMAIN t.buckets[b] :
                        t.buckets[b][j].id = t.buckets[b][k].id => j = k
                  /\ t.buckets[b][k].id # t.local_id
                  /\ bucket_for(t.local_id, t.buckets[b][k].id) = b
                  /\ k > 1 => t.buckets[b][k - 1].last_seen < t.buckets[b][k].last_seen
  <2> DEFINE s == t.buckets[b]
             m == Len(s)
  <2>1. BucketKept(s, b, t.local_id, t.tick)
    BY <1>1 DEF RoutesKept
  <2>2. DOMAIN s = 1..m /\ m \in Nat /\ m <= K
    BY <2>1, LenProperties DEF BucketKept
  <2>3. /\ \A k \in 1..m : s[k].id # t.local_id /\ bucket_for(t.local_id, s[k].id) = b
        /\ \A j, k \in 1..m : j < k => s[j].last_seen < s[k].last_seen /\ s[j].id # s[k].id
    BY <2>1 DEF BucketKept
  <2> HIDE DEF s, m
  <2>4. \A j, k \in 1..m : s[j].id = s[k].id => j = k
    <3> SUFFICES ASSUME NEW j \in 1..m, NEW k \in 1..m, j # k PROVE s[j].id # s[k].id
      OBVIOUS
    <3>1. j < k \/ k < j
      OBVIOUS
    <3> QED  BY <2>3, <3>1
  <2>5. \A k \in 1..m : k > 1 => s[k - 1].last_seen < s[k].last_seen
    <3> SUFFICES ASSUME NEW k \in 1..m, k > 1 PROVE s[k - 1].last_seen < s[k].last_seen
      OBVIOUS
    <3>1. k - 1 \in 1..m /\ k - 1 < k
      BY <2>2
    <3> QED  BY <2>3, <3>1
  <2> QED  BY <2>2, <2>3, <2>4, <2>5 DEF s, m
<1> QED  BY <1>2, <1>3 DEF t

\* Nobody is known at the start.
LEMMA IdentityStarts == IdentityInit => IdentityInv
<1> SUFFICES ASSUME IdentityInit PROVE IdentityInv
  OBVIOUS
<1>1. local \in [MeshNodes -> PeerIds]
  BY IdentityAssumption DEF IdentityAssumption, IdentityInit
<1>2. ASSUME NEW n \in MeshNodes PROVE PeersKept(peers[n], local[n])
  <2>1. peers[n] = << >>
    BY DEF IdentityInit
  <2> QED  BY <2>1 DEF PeersKept
<1>3. ASSUME NEW n \in MeshNodes PROVE RoutesKept(routing[n])
  <2>1. local[n].id \in NodeIds /\ routing[n] = NewTable(local[n].id)
    BY <1>1 DEF IdentityInit, PeerIds
  <2> QED  BY <2>1, NewTableKept
<1> QED  BY <1>1, <1>2, <1>3 DEF IdentityInv, IdentityInit

\* The four ways a check can end.
LEMMA AddPeerKeeps ==
    ASSUME IdentityInv, NEW n \in MeshNodes, NEW p \in PeerIds, add_peer_checked(n, p)
    PROVE  IdentityInv'
<1> DEFINE ps == peers[n]
           l == Len(ps)
           new == <<n, local[n], p>>
<1>1. /\ PeersKept(ps, local[n]) /\ ps \in Seq(PeerIds) /\ l \in Nat /\ DOMAIN ps = 1..l
      /\ \A k \in 1..l : ps[k] \in PeerIds /\ ps[k].key \in Nat
      /\ p.key \in Nat /\ local[n] \in PeerIds /\ local[n].key \in Nat
  <2>1. PeersKept(ps, local[n]) /\ local[n] \in PeerIds
    BY DEF IdentityInv
  <2>2. ps \in Seq(PeerIds)
    BY <2>1 DEF PeersKept
  <2> HIDE DEF ps
  <2>3. l \in Nat /\ DOMAIN ps = 1..l /\ \A k \in 1..l : ps[k] \in PeerIds
    BY <2>2, LenProperties, ElementOfSeq
  <2>4. \A x \in PeerIds : x.key \in Nat
    BY DEF PeerIds
  <2> QED  BY <2>1, <2>2, <2>3, <2>4
<1>2. UNCHANGED <<local, routing>> /\ met' = met \union {new} /\ lost \subseteq lost'
  BY DEF add_peer_checked
<1>3. DOMAIN peers = MeshNodes
  BY DEF IdentityInv
\* What is known of the peers afterwards, however it comes about.
<1>4. /\ DOMAIN peers' = MeshNodes
      /\ \A m \in MeshNodes \ {n} : peers'[m] = peers[m]
      /\ PeersKept(peers'[n], local[n])
      /\ \A q \in ToSet(ps) : \E r \in ToSet(peers'[n]) : r.id = q.id /\ r.key >= q.key
      /\ \/ p.id = local[n].id
         \/ \E r \in ToSet(peers'[n]) : r.id = p.id /\ r.key >= p.key
      /\ p.id = local[n].id /\ (p = local[n] \/ p.key > local[n].key) => n \in lost'
  <2>1. CASE p \in ToSet(ps)
    <3>1. p.id # local[n].id
      BY <1>1, <2>1 DEF PeersKept, ToSet
    <3>2. \A q \in ToSet(ps) : q.key >= q.key
      BY <1>1 DEF ToSet
    <3>3. UNCHANGED peers
      BY <2>1 DEF add_peer_checked
    <3> QED  BY <1>1, <1>3, <2>1, <3>1, <3>2, <3>3
  <2>2. CASE p \notin ToSet(ps) /\ \E q \in ToSet(ps) : q.id = p.id
    <3> DEFINE k == At(n, p.id)
               w == deterministic_id_winner(ps[k], p)
               after == [ps EXCEPT ![k] = w]
    <3>1. k \in 1..l /\ ps[k].id = p.id
      <4>1. \E i \in 1..l : ps[i].id = p.id
        BY <1>1, <2>2 DEF ToSet
      <4> QED  BY <1>1, <4>1 DEF At
    <3>2. peers' = [peers EXCEPT ![n] = after]
      BY <2>2 DEF add_peer_checked
    <3> HIDE DEF k
    <3>3. w \in PeerIds /\ w.id = p.id /\ w.key >= p.key /\ w.key >= ps[k].key
      BY <1>1, <3>1 DEF deterministic_id_winner
    <3> HIDE DEF w
    <3>4. /\ after \in Seq(PeerIds) /\ Len(after) = l /\ DOMAIN after = 1..l
          /\ \A i \in 1..l : after[i] = IF i = k THEN w ELSE ps[i]
      <4> HIDE DEF ps
      <4> QED  BY <1>1, <3>1, <3>3
    <3> HIDE DEF after, l
    <3>5. \A i \in 1..l : after[i].id = ps[i].id /\ after[i].key >= ps[i].key
      BY <1>1, <3>1, <3>3, <3>4
    <3>6. PeersKept(after, local[n])
      BY <1>1, <3>4, <3>5 DEF PeersKept, l
    <3>7. \A q \in ToSet(ps) : \E r \in ToSet(after) : r.id = q.id /\ r.key >= q.key
      BY <1>1, <3>4, <3>5 DEF ToSet
    <3>8. w \in ToSet(after)
      BY <3>1, <3>4 DEF ToSet
    <3>9. p.id # local[n].id
      BY <1>1, <3>1 DEF PeersKept, l
    <3>10. peers'[n] = after /\ DOMAIN peers' = MeshNodes /\ \A m \in MeshNodes \ {n} : peers'[m] = peers[m]
      BY <1>3, <3>2
    <3> QED  BY <3>3, <3>6, <3>7, <3>8, <3>9, <3>10
  <2>3. CASE p \notin ToSet(ps) /\ ~(\E q \in ToSet(ps) : q.id = p.id) /\ local[n].id = p.id
    <3>1. UNCHANGED peers
      BY <2>3 DEF add_peer_checked
    <3>2. lost' = IF deterministic_id_winner(local[n], p) = p THEN lost \union {n} ELSE lost
      BY <2>3 DEF add_peer_checked
    <3>3. p = local[n] \/ p.key > local[n].key => n \in lost'
      BY <1>1, <3>2 DEF deterministic_id_winner
    <3>4. \A q \in ToSet(ps) : q.key >= q.key
      BY <1>1 DEF ToSet
    <3> QED  BY <1>1, <1>3, <2>3, <3>1, <3>3, <3>4
  <2>4. CASE p \notin ToSet(ps) /\ ~(\E q \in ToSet(ps) : q.id = p.id) /\ local[n].id # p.id
    <3> DEFINE after == Append(ps, p)
    <3>1. peers' = [peers EXCEPT ![n] = after]
      BY <2>4 DEF add_peer_checked
    <3>2. \A i \in 1..l : ps[i].id # p.id
      BY <1>1, <2>4 DEF ToSet
    <3>3. /\ after \in Seq(PeerIds) /\ Len(after) = l + 1
          /\ \A i \in 1..l : after[i] = ps[i]
          /\ after[l + 1] = p
      <4> HIDE DEF ps
      <4> QED  BY <1>1, AppendProperties
    <3> HIDE DEF after
    <3>4. DOMAIN after = 1..(l + 1)
      BY <3>3, LenProperties
    <3> HIDE DEF l
    <3>5. \A k \in 1..(l + 1) : \/ k = l + 1 /\ after[k] = p
                                \/ k \in 1..l /\ after[k] = ps[k] /\ k # l + 1
      BY <1>1, <3>3
    <3>6. PeersKept(after, local[n])
      <4>1. \A k \in 1..(l + 1) : after[k].id # local[n].id
        BY <1>1, <2>4, <3>5 DEF PeersKept, l
      <4>2. \A i, k \in 1..(l + 1) : after[i].id = after[k].id => i = k
        BY <1>1, <3>2, <3>5 DEF PeersKept, l
      <4> QED  BY <3>3, <4>1, <4>2 DEF PeersKept
    <3>7. \A q \in ToSet(ps) : q \in ToSet(after) /\ q.key >= q.key
      <4>1. \A i \in 1..l : i \in 1..(l + 1)
        BY <1>1
      <4> QED  BY <1>1, <3>3, <3>4, <4>1 DEF ToSet
    <3>8. p \in ToSet(after) /\ p.key >= p.key
      <4>1. l + 1 \in 1..(l + 1)
        BY <1>1
      <4> QED  BY <1>1, <3>3, <3>4, <4>1 DEF ToSet
    <3>9. peers'[n] = after /\ DOMAIN peers' = MeshNodes /\ \A m \in MeshNodes \ {n} : peers'[m] = peers[m]
      BY <1>3, <3>1
    <3> QED  BY <2>4, <3>6, <3>7, <3>8, <3>9
  <2> QED  BY <2>1, <2>2, <2>3, <2>4
<1> HIDE DEF ps, l
<1>5. /\ met' \subseteq MeshNodes \X PeerIds \X PeerIds
      /\ met \subseteq MeshNodes \X PeerIds \X PeerIds
      /\ new[1] = n /\ new[2] = local[n] /\ new[3] = p
  BY <1>1, <1>2 DEF IdentityInv
<1> HIDE DEF new
<1>6. ASSUME NEW m \in met'
      PROVE  \/ m[2].id = m[3].id
             \/ \E q \in ToSet(peers'[m[1]]) : q.id = m[3].id /\ q.key >= m[3].key
  <2>1. CASE m = new
    BY <1>4, <1>5, <2>1
  <2>2. CASE m \in met
    <3>1. m[1] \in MeshNodes /\ m[3].key \in Nat
      BY <1>5, <2>2 DEF PeerIds
    <3>2. CASE m[2].id = m[3].id
      BY <3>2
    <3>3. CASE m[2].id # m[3].id /\ m[1] # n
      BY <1>4, <2>2, <3>1, <3>3 DEF IdentityInv
    <3>4. CASE m[2].id # m[3].id /\ m[1] = n
      <4>1. PICK q \in ToSet(ps) : q.id = m[3].id /\ q.key >= m[3].key
        BY <2>2, <3>4 DEF IdentityInv, ps
      <4>2. PICK r \in ToSet(peers'[n]) : r.id = q.id /\ r.key >= q.key
        BY <1>4
      <4>3. q.key \in Nat /\ r.key \in Nat
        <5>1. q.key \in Nat
          BY <1>1 DEF ToSet
        <5>2. peers'[n] \in Seq(PeerIds)
          BY <1>4 DEF PeersKept
        <5>3. r \in PeerIds
          BY <4>2, <5>2, LenProperties, ElementOfSeq DEF ToSet
        <5> QED  BY <5>1, <5>3 DEF PeerIds
      <4> QED  BY <3>1, <3>4, <4>1, <4>2, <4>3
    <3> QED  BY <3>2, <3>3, <3>4
  <2> QED  BY <1>2, <2>1, <2>2
<1>7. ASSUME NEW m \in met', m[2] = local'[m[1]], m[3].id = m[2].id, m[3] = m[2] \/ m[3].key > m[2].key
      PROVE  m[1] \in lost'
  <2>1. CASE m = new
    BY <1>2, <1>4, <1>5, <1>7, <2>1
  <2>2. CASE m \in met
    BY <1>2, <1>7, <2>2 DEF IdentityInv
  <2> QED  BY <1>2, <2>1, <2>2
<1>8. \A m \in MeshNodes : PeersKept(peers'[m], local[m])
  BY <1>4 DEF IdentityInv
<1> QED  BY <1>2, <1>4, <1>5, <1>6, <1>7, <1>8 DEF IdentityInv

\* The new id is none that a known peer holds.
LEMMA RekeyKeeps ==
    ASSUME IdentityInv, NEW n \in MeshNodes, rekey_after_collision(n), RekeysAreNew
    PROVE  IdentityInv'
<1> DEFINE free == {a \in 0..MaxAttempt :
                       \A q \in ToSet(peers[n]) : q.id # RekeySeed(local[n].id, a).id}
           own == RekeySeed(local[n].id, Min(free))
<1>1. /\ n \in lost /\ free # {} /\ local' = [local EXCEPT ![n] = own]
      /\ lost' = lost \ {n} /\ UNCHANGED <<peers, routing, met>>
  BY DEF rekey_after_collision
<1>2. Min(free) \in free
  <2>1. free \subseteq Nat
    OBVIOUS
  <2> HIDE DEF free
  <2> QED  BY <1>1, <2>1, MinIsLeast
<1>3. own \in PeerIds
  <2>1. local[n].id \in NodeIds /\ Min(free) \in 0..MaxAttempt
    BY <1>2 DEF IdentityInv, PeerIds
  <2> HIDE DEF free
  <2> QED  BY <2>1, IdentityAssumption DEF IdentityAssumption
<1>4. \A q \in ToSet(peers[n]) : q.id # own.id
  BY <1>2
<1> HIDE DEF own, free
<1>5. /\ local' \in [MeshNodes -> PeerIds] /\ local'[n] = own
      /\ \A m \in MeshNodes \ {n} : local'[m] = local[m]
  BY <1>1, <1>3 DEF IdentityInv
<1>6. ASSUME NEW m \in MeshNodes PROVE PeersKept(peers[m], local'[m])
  <2>1. PeersKept(peers[m], local[m])
    BY DEF IdentityInv
  <2>2. CASE m # n
    BY <1>5, <2>1, <2>2
  <2>3. CASE m = n
    <3> DEFINE ps == peers[n]
    <3>1. ps \in Seq(PeerIds)
      BY <2>1, <2>3 DEF PeersKept
    <3>2. DOMAIN ps = 1..Len(ps)
      BY <3>1, LenProperties
    <3>3. \A k \in 1..Len(ps) : ps[k].id # own.id
      BY <1>4, <3>2 DEF ToSet
    <3> QED  BY <1>5, <2>1, <2>3, <3>3 DEF PeersKept
  <2> QED  BY <2>2, <2>3
<1>7. ASSUME NEW m \in met', m[2] = local'[m[1]], m[3].id = m[2].id, m[3] = m[2] \/ m[3].key > m[2].key
      PROVE  m[1] \in lost'
  <2>1. m \in met /\ m[1] \in MeshNodes
    BY <1>1 DEF IdentityInv
  <2>2. m[1] # n
    BY <1>1, <1>7, <2>1 DEF RekeysAreNew
  <2>3. m[2] = local[m[1]]
    BY <1>5, <1>7, <2>1, <2>2
  <2>4. m[1] \in lost
    BY <1>7, <2>1, <2>3 DEF IdentityInv
  <2> QED  BY <1>1, <2>2, <2>4
<1> QED  BY <1>1, <1>5, <1>6, <1>7 DEF IdentityInv

\* Peers are copied into the table,
LEMMA SyncKeeps ==
    ASSUME IdentityInv, NEW n \in MeshNodes, sync_peers_into_table(n)
    PROVE  IdentityInv'
<1> DEFINE base == IF routing[n].local_id = local[n].id THEN routing[n] ELSE NewTable(local[n].id)
           after == SyncedTable(base, peers[n])
<1>1. routing' = [routing EXCEPT ![n] = after] /\ UNCHANGED <<local, peers, lost, met>>
  BY DEF sync_peers_into_table, SyncedTable
<1>2. RoutesKept(base)
  <2>1. local[n].id \in NodeIds
    BY DEF IdentityInv, PeerIds
  <2> QED  BY <2>1, NewTableKept DEF IdentityInv
<1>3. peers[n] \in Seq(PeerIds)
  BY DEF IdentityInv, PeersKept
<1> HIDE DEF base
<1>4. RoutesKept(after)
  BY <1>2, <1>3, SyncKeepsRoutes
<1> HIDE DEF after
<1>5. DOMAIN routing' = MeshNodes /\ \A m \in MeshNodes : RoutesKept(routing'[m])
  BY <1>1, <1>4 DEF IdentityInv
<1> QED  BY <1>1, <1>5 DEF IdentityInv

\* or inserted one by one.
LEMMA InsertKeeps ==
    ASSUME IdentityInv, NEW n \in MeshNodes, NEW id \in NodeIds, NEW alive, insert_peer(n, id, alive)
    PROVE  IdentityInv'
<1> DEFINE after == insert_with_probe(routing[n], id, alive)
<1>1. routing' = [routing EXCEPT ![n] = after] /\ UNCHANGED <<local, peers, lost, met>>
  BY DEF insert_peer
<1>2. RoutesKept(after)
  BY InsertKeepsRoutes DEF IdentityInv
<1> HIDE DEF after
<1>3. DOMAIN routing' = MeshNodes /\ \A m \in MeshNodes : RoutesKept(routing'[m])
  BY <1>1, <1>2 DEF IdentityInv
<1> QED  BY <1>1, <1>3 DEF IdentityInv

\* Every step keeps the invariant.
LEMMA IdentityStepKeeps ==
    ASSUME IdentityInv, [IdentityNext \/ \E n \in MeshNodes : TableNext(n)]_identityVars,
           [RekeysAreNew]_identityVars
    PROVE  IdentityInv'
<1>1. CASE UNCHANGED identityVars
  BY <1>1 DEF identityVars, IdentityInv
<1>2. ASSUME NEW n \in MeshNodes, NEW p \in Strangers \union {local[m] : m \in MeshNodes \ {n}},
             add_peer_checked(n, p)
      PROVE  IdentityInv'
  <2>1. p \in PeerIds
    BY IdentityAssumption DEF IdentityAssumption, IdentityInv
  <2> QED  BY <1>2, <2>1, AddPeerKeeps
<1>3. ASSUME NEW n \in MeshNodes, rekey_after_collision(n), ~UNCHANGED identityVars
      PROVE  IdentityInv'
  BY <1>3, RekeyKeeps
<1>4. ASSUME NEW n \in MeshNodes, sync_peers_into_table(n) PROVE IdentityInv'
  BY <1>4, SyncKeeps
<1>5. ASSUME NEW n \in MeshNodes, TableNext(n) PROVE IdentityInv'
  <2>1. PICK id \in Newcomers, alive \in BOOLEAN : insert_peer(n, id, alive)
    BY <1>5 DEF TableNext
  <2>2. id \in NodeIds
    BY IdentityAssumption DEF IdentityAssumption
  <2> QED  BY <2>1, <2>2, InsertKeeps
<1> QED  BY <1>1, <1>2, <1>3, <1>4, <1>5 DEF IdentityNext

\* PeersAreKnown, whatever is announced by whom and in whatever order, unless a
\* node is given an identity a second time (add_peer_checked,
\* rekey_after_collision, insert_with_probe).
THEOREM PeersStayKnown == IdentitySpec /\ [][RekeysAreNew]_identityVars => []PeersAreKnown
<1>1. IdentityInv /\ [IdentityNext \/ \E n \in MeshNodes : TableNext(n)]_identityVars
        /\ [RekeysAreNew]_identityVars => IdentityInv'
  BY IdentityStepKeeps
<1>2. IdentityInv => PeersAreKnown
  BY IdentitiesAreSettled, BucketsInOrder DEF PeersAreKnown
<1> QED  BY <1>1, <1>2, IdentityStarts, PTL DEF IdentitySpec

-----------------------------------------------------------------------------
(***************************************************************************)
(* Who works on a job.  Where no two keys are equal, the place of a worker *)
(* depends on the set of the candidates alone.                             *)
(***************************************************************************)

Workers == DOMAIN Metrics

\* What VrfAssumption says of a worker and its hash.
LEMMA WorkersAreMeasured ==
    /\ PRIMARY_COUNT \in Nat /\ STANDBY_COUNT \in Nat /\ MaxCandidates \in Nat
    /\ \A w \in Workers : /\ Metrics[w].active_jobs \in Nat /\ Metrics[w].temperature_c \in Nat
                          /\ Metrics[w].battery_percent \in Nat
    /\ \A seed \in Seeds, job \in VrfJobs, w \in Workers : TieBreak(seed, job, w) \in Nat
BY VrfAssumption DEF VrfAssumption, Workers

\* No two workers have the same key: neither their scores nor their hashes differ.
KeysDiffer ==
    \A seed \in Seeds, job \in VrfJobs, v, w \in Workers :
        score(Metrics[v]) = score(Metrics[w]) /\ TieBreak(seed, job, v) = TieBreak(seed, job, w) => v = w

\* The bounds of the parts of a score.
Hundreds == {100 * n : n \in Nat}

LEMMA PartsAreBounded ==
    ASSUME NEW w \in Workers
    PROVE  /\ thermal_penalty(Metrics[w].temperature_c) <= 1000
           /\ thermal_penalty(Metrics[w].temperature_c) \in Nat
           /\ battery_capacity_score(Metrics[w].battery_percent) \in Nat
           /\ battery_capacity_score(Metrics[w].battery_percent) <= 1000
           /\ load_penalty(Metrics[w].active_jobs) \in Nat
           /\ load_penalty(Metrics[w].active_jobs) \in Hundreds
<1> DEFINE t == Metrics[w].temperature_c
           p == Metrics[w].battery_percent
           n == Metrics[w].active_jobs
<1>1. t \in Nat /\ p \in Nat /\ n \in Nat
  BY WorkersAreMeasured
<1> HIDE DEF t, p, n
<1>2. thermal_penalty(t) \in Nat /\ thermal_penalty(t) <= 1000
  BY <1>1 DEF thermal_penalty
<1>3. battery_capacity_score(p) \in Nat /\ battery_capacity_score(p) <= 1000
  <2> DEFINE diff == p - 20
             size == IF diff < 0 THEN -diff ELSE diff
             bend == (size * 1000) \div (2 * (1 + size))
  <2>1. CASE diff <= -10 \/ diff >= 10
    <3>1. battery_capacity_score(p) = 0 \/ battery_capacity_score(p) = 1000
      <4> HIDE DEF size, bend
      <4>1. battery_capacity_score(p) = CASE diff <= -10 -> 0 [] diff >= 10 -> 1000
                                          [] OTHER -> IF diff < 0 THEN 500 - bend ELSE 500 + bend
        BY DEF battery_capacity_score, size, bend
      <4>2. diff \in Int
        BY <1>1
      <4> HIDE DEF diff
      <4> QED  BY <2>1, <4>1, <4>2
    <3> QED  BY <3>1
  <2>2. CASE ~(diff <= -10 \/ diff >= 10)
    <3>1. size \in 0..9
      BY <1>1, <2>2
    <3> HIDE DEF size
    <3>2. bend \in 0..500
      <4> SUFFICES ASSUME NEW z \in 0..9 PROVE (z * 1000) \div (2 * (1 + z)) \in 0..500
        BY <3>1
      <4>1. z = 0 \/ z = 1 \/ z = 2 \/ z = 3 \/ z = 4 \/ z = 5 \/ z = 6 \/ z = 7 \/ z = 8 \/ z = 9
        OBVIOUS
      <4> QED  BY <4>1
    <3> HIDE DEF bend
    <3>3. battery_capacity_score(p) = IF diff < 0 THEN 500 - bend ELSE 500 + bend
      BY <1>1, <2>2 DEF battery_capacity_score, bend, size
    <3> QED  BY <1>1, <3>2, <3>3
  <2> QED  BY <2>1, <2>2
<1>4. \E m \in Nat : load_penalty(n) = 100 * m
  <2>1. CASE n > 100
    BY <1>1, <2>1 DEF load_penalty
  <2>2. CASE n <= 100
    BY <1>1, <2>2 DEF load_penalty
  <2> QED  BY <1>1, <2>1, <2>2
<1>5. load_penalty(n) \in Nat
  BY <1>4
<1> QED  BY <1>2, <1>3, <1>4, <1>5 DEF t, p, n, Hundreds

\* A score of its three parts is a number,
Scored(l, t, b) == l * 1000000 + t * 1000 + (1000 - b)

LEMMA ScoredIsNumber ==
    ASSUME NEW l \in Nat, NEW t \in Nat, NEW b \in Nat, t <= 1000, b <= 1000
    PROVE  Scored(l, t, b) \in Nat
BY SMT DEF Scored

\* in which the load outweighs all the rest,
LEMMA LoadOutweighs ==
    ASSUME NEW k \in Hundreds, NEW l \in Hundreds,
           NEW p \in Nat, NEW q \in Nat, NEW b \in Nat, NEW c \in Nat,
           p <= 1000, q <= 1000, b <= 1000, c <= 1000, Scored(l, q, c) <= Scored(k, p, b)
    PROVE  l <= k
<1>2. PICK m \in Nat, n \in Nat : k = 100 * m /\ l = 100 * n
  BY DEF Hundreds
<1>3. k \in Nat /\ l \in Nat
  BY <1>2
<1>1. ASSUME n >= m + 1 PROVE FALSE
  <2>1. l >= k + 100
    BY <1>1, <1>2, SMT
  <2>2. l * 1000000 >= k * 1000000 + 100000000
    BY <1>3, <2>1, SMT
  <2>3. Scored(l, q, c) >= k * 1000000 + 100000000
    BY <1>3, <2>2, SMT DEF Scored
  <2>4. Scored(k, p, b) <= k * 1000000 + 1001000
    BY <1>3, SMT DEF Scored
  <2>5. k * 1000000 \in Nat /\ Scored(l, q, c) \in Nat /\ Scored(k, p, b) \in Nat
    BY <1>3, ScoredIsNumber, SMT
  <2> QED  BY <2>3, <2>4, <2>5, SMT
<1> QED  BY <1>1, <1>2, SMT

\* and the temperature a battery that is no better.
LEMMA HeatOutweighs ==
    ASSUME NEW l \in Nat, NEW p \in Nat, NEW q \in Nat, NEW b \in Nat, NEW c \in Nat,
           p <= 1000, q <= 1000, b <= 1000, c <= 1000,
           b >= c, Scored(l, q, c) <= Scored(l, p, b)
    PROVE  p >= q
<1>1. l * 1000000 \in Int
  BY SMT
<1>2. q * 1000 + (1000 - c) <= p * 1000 + (1000 - b)
  BY <1>1, SMT DEF Scored
<1> QED  BY <1>2, SMT

\* The parts of a worker's score.
LEMMA ScoreTyped == \A w \in Workers : score(Metrics[w]) \in Nat
<1> SUFFICES ASSUME NEW w \in Workers PROVE score(Metrics[w]) \in Nat
  OBVIOUS
<1> DEFINE l == load_penalty(Metrics[w].active_jobs)
           t == thermal_penalty(Metrics[w].temperature_c)
           b == battery_capacity_score(Metrics[w].battery_percent)
<1>1. l \in Nat /\ t \in Nat /\ t <= 1000 /\ b \in Nat /\ b <= 1000
  BY PartsAreBounded
<1>2. score(Metrics[w]) = Scored(l, t, b)
  BY SMT DEF score, Scored
<1> HIDE DEF l, t, b
<1> QED  BY <1>1, <1>2, ScoredIsNumber

\* So of two workers the one ahead is no more loaded, nor hotter for a battery
\* that is no better.
LEMMA ScoreWeighs ==
    ASSUME NEW v \in Workers, NEW w \in Workers, score(Metrics[w]) <= score(Metrics[v])
    PROVE  /\ load_penalty(Metrics[v].active_jobs) >= load_penalty(Metrics[w].active_jobs)
           /\ load_penalty(Metrics[v].active_jobs) = load_penalty(Metrics[w].active_jobs)
              /\ battery_capacity_score(Metrics[v].battery_percent)
                    >= battery_capacity_score(Metrics[w].battery_percent)
              => thermal_penalty(Metrics[v].temperature_c) >= thermal_penalty(Metrics[w].temperature_c)
<1> DEFINE l(x) == load_penalty(Metrics[x].active_jobs)
           t(x) == thermal_penalty(Metrics[x].temperature_c)
           b(x) == battery_capacity_score(Metrics[x].battery_percent)
<1>1. /\ l(v) \in Nat /\ t(v) \in Nat /\ t(v) <= 1000 /\ b(v) \in Nat /\ b(v) <= 1000
      /\ l(w) \in Nat /\ t(w) \in Nat /\ t(w) <= 1000 /\ b(w) \in Nat /\ b(w) <= 1000
  BY PartsAreBounded
<1>2. l(v) \in Hundreds /\ l(w) \in Hundreds
  BY PartsAreBounded
<1>3. Scored(l(w), t(w), b(w)) <= Scored(l(v), t(v), b(v))
  BY SMT DEF score, Scored
<1> HIDE DEF l, t, b
<1>4. l(w) <= l(v)
  BY <1>1, <1>2, <1>3, LoadOutweighs
<1>5. l(v) >= l(w)
  BY <1>1, <1>4
<1>6. ASSUME l(v) = l(w), b(v) >= b(w) PROVE t(v) >= t(w)
  BY <1>1, <1>3, <1>6, HeatOutweighs
<1> QED  BY <1>5, <1>6 DEF l, t, b

\* The order of the candidates, as a set of pairs.
KeyOrder(seed, job, W) == {p \in W \X W : RankedBefore(seed, job, p[1], p[2])}

\* Where no two keys are equal they order any set of workers.
LEMMA KeysOrder ==
    ASSUME KeysDiffer, NEW seed \in Seeds, NEW job \in VrfJobs, NEW W, W \subseteq Workers
    PROVE  Ordering(W, KeyOrder(seed, job, W))
<1> DEFINE s(w) == score(Metrics[w])
           h(w) == TieBreak(seed, job, w)
<1>1. \A w \in W : s(w) \in Int /\ h(w) \in Int
  BY ScoreTyped, WorkersAreMeasured
<1>2. \A v, w \in W : s(v) = s(w) /\ h(v) = h(w) => v = w
  BY DEF KeysDiffer
<1>3. \A v, w \in W : <<v, w>> \in KeyOrder(seed, job, W) <=>
                        s(v) < s(w) \/ (s(v) = s(w) /\ h(v) < h(w))
  BY DEF KeyOrder, RankedBefore
<1> HIDE DEF s, h
<1> QED  BY <1>1, <1>2, <1>3 DEF Ordering

\* A list without repetitions: as many candidates as places.
LEMMA ListsAreFinite ==
    ASSUME NEW n \in Nat, NEW c \in [1..n -> Workers], IsInjective(c)
    PROVE  /\ DOMAIN c = 1..n /\ ToSet(c) \subseteq Workers
           /\ \A i \in 1..n : c[i] \in ToSet(c)
           /\ \A w \in ToSet(c) : \E i \in 1..n : c[i] = w
           /\ \A i, j \in 1..n : c[i] = c[j] => i = j
           /\ IsFiniteSet(ToSet(c)) /\ Cardinality(ToSet(c)) = n
<1>1. /\ DOMAIN c = 1..n /\ ToSet(c) \subseteq Workers
      /\ \A i \in 1..n : c[i] \in ToSet(c)
      /\ \A w \in ToSet(c) : \E i \in 1..n : c[i] = w
  BY DEF ToSet
<1>2. \A i, j \in 1..n : c[i] = c[j] => i = j
  BY <1>1 DEF IsInjective
<1>3. c \in Bijection(1..n, ToSet(c))
  <2> DEFINE W == ToSet(c)
             D == 1..n
  <2>1. /\ c \in [D -> W] /\ \A w \in W : \E i \in D : c[i] = w
        /\ \A i, j \in D : c[i] = c[j] => i = j
    BY <1>1, <1>2
  <2> HIDE DEF W, D
  <2> QED  BY <2>1 DEF Bijection, Injection, Surjection, IsInjective, W, D
<1>4. IsFiniteSet(1..n) /\ Cardinality(1..n) = n
  BY FS_Interval
<1>5. IsFiniteSet(ToSet(c)) /\ Cardinality(ToSet(c)) = n
  BY <1>3, <1>4, FS_Bijection DEF ExistsBijection
<1> QED  BY <1>1, <1>2, <1>5

\* As many places come before one as workers come before the one at it.
LEMMA AheadInTheOrder ==
    ASSUME KeysDiffer, NEW seed \in Seeds, NEW job \in VrfJobs,
           NEW n \in Nat, NEW c \in [1..n -> Workers], IsInjective(c), NEW i \in 1..n
    PROVE  Cardinality(Ahead(seed, job, c, i))
             = Cardinality(Under(ToSet(c), KeyOrder(seed, job, ToSet(c)), c[i]))
<1> DEFINE W == ToSet(c)
           lt == KeyOrder(seed, job, W)
           A == Ahead(seed, job, c, i)
           U == Under(W, lt, c[i])
           f == [j \in A |-> c[j]]
<1>1. /\ DOMAIN c = 1..n /\ W \subseteq Workers /\ IsFiniteSet(W)
      /\ \A j \in 1..n : c[j] \in W
      /\ \A w \in W : \E j \in 1..n : c[j] = w
      /\ \A j, k \in 1..n : c[j] = c[k] => j = k
  BY ListsAreFinite
<1>2. Ordering(W, lt)
  BY <1>1, KeysOrder
<1>3. \A j, k \in 1..n : RankedBefore(seed, job, c[j], c[k]) <=> <<c[j], c[k]>> \in lt
  BY <1>1 DEF KeyOrder
<1>4. \A j \in 1..n : j \in A <=> <<c[j], c[i]>> \in lt
  <2> SUFFICES ASSUME NEW j \in 1..n PROVE j \in A <=> <<c[j], c[i]>> \in lt
    OBVIOUS
  <2> HIDE DEF lt
  <2>1. CASE j = i
    <3>1. ~RankedBefore(seed, job, c[i], c[i]) /\ <<c[i], c[i]>> \notin lt
      BY <1>1, <1>2, <1>3 DEF Ordering
    <3> QED  BY <1>1, <2>1, <3>1 DEF Ahead, ListedBefore
  <2>2. CASE j # i
    <3>1. c[i] # c[j]
      BY <1>1, <2>2
    <3>2. <<c[j], c[i]>> \in lt \/ <<c[i], c[j]>> \in lt
      BY <1>1, <1>2, <3>1 DEF Ordering
    <3> QED  BY <1>1, <1>3, <3>2 DEF Ahead, ListedBefore
  <2> QED  BY <2>1, <2>2
<1>5. A \subseteq 1..n
  BY <1>1 DEF Ahead
<1>6. U = {w \in W : <<w, c[i]>> \in lt}
  BY DEF Under
<1>7. IsFiniteSet(A)
  BY <1>5, FS_Subset, FS_Interval
<1> HIDE DEF W, lt, A, U
<1>8. f \in [A -> U] /\ \A w \in U : \E j \in A : f[j] = w
  BY <1>1, <1>4, <1>5, <1>6
<1>9. \A j, k \in A : f[j] = f[k] => j = k
  BY <1>1, <1>5
<1> HIDE DEF f
<1>10. f \in Bijection(A, U)
  BY <1>8, <1>9 DEF Bijection, Injection, Surjection, IsInjective
<1>11. Cardinality(U) = Cardinality(A)
  BY <1>7, <1>10, FS_Bijection DEF ExistsBijection
<1> QED  BY <1>11 DEF A, U, W, lt

\* So the worker ranked k-th is the one with k - 1 workers ahead of it.
LEMMA RankedByKeys ==
    ASSUME KeysDiffer, NEW seed \in Seeds, NEW job \in VrfJobs,
           NEW n \in Nat, NEW c \in [1..n -> Workers], IsInjective(c)
    PROVE  /\ DOMAIN Ranked(seed, job, c) = 1..n
           /\ \A k \in 1..n :
                LET w == Ranked(seed, job, c)[k]
                IN  /\ w \in ToSet(c)
                    /\ Cardinality(Under(ToSet(c), KeyOrder(seed, job, ToSet(c)), w)) = k - 1
<1> DEFINE W == ToSet(c)
           lt == KeyOrder(seed, job, W)
           A(i) == Cardinality(Ahead(seed, job, c, i))
           U(w) == Cardinality(Under(W, lt, w))
<1>1. /\ DOMAIN c = 1..n /\ W \subseteq Workers /\ IsFiniteSet(W) /\ Cardinality(W) = n
      /\ \A i \in 1..n : c[i] \in W
      /\ \A w \in W : \E i \in 1..n : c[i] = w
  BY ListsAreFinite
<1>2. Ordering(W, lt)
  BY <1>1, KeysOrder
<1>3. \A i \in 1..n : A(i) = U(c[i])
  BY AheadInTheOrder
<1>4. DOMAIN Ranked(seed, job, c) = 1..n
  BY <1>1 DEF Ranked
<1>5. ASSUME NEW k \in 1..n
      PROVE  /\ Ranked(seed, job, c)[k] \in W
             /\ U(Ranked(seed, job, c)[k]) = k - 1
  <2>1. \E w \in W : U(w) = k - 1
    <3>1. k - 1 \in 0..(Cardinality(W) - 1)
      BY <1>1
    <3> HIDE DEF lt
    <3> QED  BY <1>1, <1>2, <3>1, EveryPlaceIsTaken
  <2>2. \E i \in 1..n : A(i) = k - 1
    <3> HIDE DEF A, U, W
    <3> QED  BY <1>1, <1>3, <2>1
  <2>3. Ranked(seed, job, c)[k] = c[CHOOSE i \in 1..n : A(i) = k - 1]
    BY <1>1 DEF Ranked
  <2> HIDE DEF A, U, W
  <2>4. \E i \in 1..n : A(i) = k - 1 /\ Ranked(seed, job, c)[k] = c[i]
    BY <2>2, <2>3
  <2> QED  BY <1>1, <1>3, <2>4
<1> QED  BY <1>4, <1>5

\* Two lists of the same candidates are ranked alike.
LEMMA ListsRankAlike ==
    ASSUME KeysDiffer, NEW seed \in Seeds, NEW job \in VrfJobs,
           NEW m \in Nat, NEW c \in [1..m -> Workers], IsInjective(c),
           NEW n \in Nat, NEW d \in [1..n -> Workers], IsInjective(d), ToSet(c) = ToSet(d)
    PROVE  Ranked(seed, job, c) = Ranked(seed, job, d)
<1> DEFINE W == ToSet(c)
           lt == KeyOrder(seed, job, W)
           U(w) == Cardinality(Under(W, lt, w))
           a == Ranked(seed, job, c)
           b == Ranked(seed, job, d)
<1>1. W \subseteq Workers /\ IsFiniteSet(W) /\ m = n
  BY ListsAreFinite
<1>2. Ordering(W, lt)
  BY <1>1, KeysOrder
<1>3. \A v, w \in W : U(v) = U(w) => v = w
  <2> SUFFICES ASSUME NEW v \in W, NEW w \in W, v # w PROVE U(v) # U(w)
    OBVIOUS
  <2> HIDE DEF lt, W
  <2>1. <<v, w>> \in lt \/ <<w, v>> \in lt
    BY <1>2 DEF Ordering
  <2>2. U(v) < U(w) \/ U(w) < U(v)
    BY <1>1, <1>2, <2>1, LaterHasMoreAhead
  <2>3. U(v) \in Int /\ U(w) \in Int
    BY <1>1, <1>2, LaterHasMoreAhead
  <2> HIDE DEF U
  <2> QED  BY <2>2, <2>3
<1>4. DOMAIN a = 1..n /\ DOMAIN b = 1..n
  BY <1>1, RankedByKeys
<1>5. \A k \in 1..n : a[k] \in W /\ b[k] \in W /\ U(a[k]) = k - 1 /\ U(b[k]) = k - 1
  BY <1>1, RankedByKeys
<1>6. a = [k \in 1..n |-> a[k]] /\ b = [k \in 1..n |-> b[k]]
  BY <1>4 DEF Ranked
<1> HIDE DEF a, b, U, W
<1>7. \A k \in 1..n : a[k] = b[k]
  BY <1>3, <1>5
<1> QED  BY <1>6, <1>7 DEF a, b

\* The team of a ranking is what it has up to the last place for a standby.
FirstOf(r, n, m) == {r[k] : k \in {j \in 1..n : j <= m}}

LEMMA TeamIsTheFirst ==
    ASSUME NEW W, NEW r, r \in Seq(W), NEW p \in Nat, NEW q \in Nat,
           NEW next, next = p + 1, NEW last, last = p + q
    PROVE  ToSet(Upto(r, 1, p) \o Upto(r, next, last)) = FirstOf(r, Len(r), last)
<1> DEFINE n == Len(r)
           a == IF n < p THEN n ELSE p
           b == IF n < p + q THEN n ELSE p + q
           x == SubSeq(r, 1, a)
           y == SubSeq(r, p + 1, b)
           la == a
           lb == IF p + 1 <= b THEN b - p ELSE 0
<1>1. /\ r \in Seq(W) /\ Len(r) = n /\ n \in Nat /\ DOMAIN r = 1..n
      /\ \A i \in 1..n : r[i] \in W
  BY LenProperties, ElementOfSeq
<1> HIDE DEF n
<1>2. n \in Nat /\ a \in Nat /\ a <= n /\ a <= p /\ b \in Nat /\ b <= n /\ b <= p + q
  BY <1>1
<1>3. Upto(r, 1, p) = x /\ Upto(r, p + 1, p + q) = y
  BY <1>1 DEF Upto, n
<1>4. \A i \in 1..n : r[i] \in W
  BY <1>1
<1> HIDE DEF a, b
<1>5. x \in Seq(W) /\ Len(x) = la /\ \A i \in 1..la : x[i] = r[i]
  <2>1. \A i \in 1..a : r[i] \in W
    BY <1>2, <1>4
  <2>2. /\ x \in Seq(W) /\ Len(x) = IF 1 <= a THEN a - 1 + 1 ELSE 0
        /\ \A i \in 1..(a - 1 + 1) : x[i] = r[1 + i - 1]
    BY <1>2, <2>1, SubSeqProperties
  <2> HIDE DEF x
  <2> QED  BY <1>2, <2>2
<1>6. y \in Seq(W) /\ Len(y) = lb /\ \A i \in 1..lb : y[i] = r[p + i]
  <2>1. \A i \in (p + 1)..b : r[i] \in W
    BY <1>2, <1>4
  <2>2. /\ y \in Seq(W) /\ Len(y) = IF p + 1 <= b THEN b - (p + 1) + 1 ELSE 0
        /\ \A i \in 1..(b - (p + 1) + 1) : y[i] = r[p + 1 + i - 1]
    <3> DEFINE from == p + 1
    <3>1. from \in Int /\ \A i \in from..b : r[i] \in W
      BY <2>1
    <3>2. b \in Int
      BY <1>2
    <3> HIDE DEF from
    <3>3. /\ SubSeq(r, from, b) \in Seq(W)
          /\ Len(SubSeq(r, from, b)) = IF from <= b THEN b - from + 1 ELSE 0
          /\ \A i \in 1..(b - from + 1) : SubSeq(r, from, b)[i] = r[from + i - 1]
      BY <3>1, <3>2, SubSeqProperties
    <3> QED  BY <3>3 DEF from
  <2> HIDE DEF y
  <2>3. \A i \in 1..lb : i \in 1..(b - (p + 1) + 1) /\ r[p + 1 + i - 1] = r[p + i]
    BY <1>2
  <2>4. Len(y) = lb
    BY <1>2, <2>2
  <2> QED  BY <2>2, <2>3, <2>4
<1> HIDE DEF x, y
<1>7. lb \in Nat /\ la \in Nat
  BY <1>2
<1>11. \A k \in 1..n : k <= p => k \in 1..la
  BY <1>2 DEF a
<1>12. \A k \in 1..n : k > p /\ k <= p + q => la = p /\ k - p \in 1..lb
  BY <1>2 DEF a, b
<1>13. \A j \in 1..lb : p + j \in 1..n /\ p + j <= p + q
  BY <1>2
<1>14. \A j \in 1..la : j \in 1..n /\ j <= p + q
  BY <1>2
<1>15. lb > 0 => la = p
  BY <1>2 DEF a, b
<1> HIDE DEF la, lb
<1>8. /\ x \o y \in Seq(W) /\ Len(x \o y) = la + lb
      /\ \A i \in 1..(la + lb) : (x \o y)[i] = IF i <= la THEN x[i] ELSE y[i - la]
  BY <1>5, <1>6, <1>7, ConcatProperties
<1>9. DOMAIN (x \o y) = 1..(la + lb)
  BY <1>7, <1>8, LenProperties
<1>10. ASSUME NEW w PROVE w \in ToSet(x \o y) <=> \E k \in 1..n : k <= p + q /\ r[k] = w
  <2>1. w \in ToSet(x \o y) <=> \E i \in 1..(la + lb) : (x \o y)[i] = w
    BY <1>9 DEF ToSet
  <2>2. ASSUME NEW i \in 1..(la + lb)
        PROVE  \E k \in 1..n : k <= p + q /\ r[k] = (x \o y)[i]
    <3>1. CASE i <= la
      <4>1. i \in 1..la
        BY <1>7, <3>1
      <4>2. (x \o y)[i] = r[i]
        BY <1>5, <1>7, <1>8, <3>1, <4>1
      <4> QED  BY <1>14, <4>1, <4>2
    <3>2. CASE ~(i <= la)
      <4>1. i - la \in 1..lb /\ lb > 0
        BY <1>7, <3>2
      <4>5. la = p
        BY <1>15, <4>1
      <4>2. (x \o y)[i] = r[p + (i - la)]
        BY <1>6, <1>7, <1>8, <3>2, <4>1
      <4>3. p + (i - la) \in 1..n /\ p + (i - la) <= p + q
        BY <1>13, <4>1
      <4> QED  BY <4>2, <4>3
    <3> QED  BY <3>1, <3>2
  <2>3. ASSUME NEW k \in 1..n, k <= p + q
        PROVE  \E i \in 1..(la + lb) : (x \o y)[i] = r[k]
    <3>1. CASE k <= p
      <4>1. k \in 1..la
        BY <1>11, <3>1
      <4>2. k \in 1..(la + lb) /\ k <= la
        BY <1>7, <4>1
      <4> QED  BY <1>5, <1>8, <4>1, <4>2
    <3>2. CASE ~(k <= p)
      <4>1. la = p /\ k - p \in 1..lb
        BY <1>12, <2>3, <3>2
      <4>2. k \in 1..(la + lb) /\ ~(k <= la) /\ k - la = k - p
        BY <1>7, <3>2, <4>1
      <4>3. (x \o y)[k] = y[k - p] /\ y[k - p] = r[p + (k - p)] /\ p + (k - p) = k
        BY <1>6, <1>8, <4>1, <4>2
      <4> QED  BY <4>2, <4>3
    <3> QED  BY <3>1, <3>2
  <2> QED  BY <2>1, <2>2, <2>3
<1> QED  BY <1>3, <1>10 DEF FirstOf, n

LEMMA TeamOfSequence ==
    ASSUME NEW W, NEW r, r \in Seq(W)
    PROVE  ToSet(Upto(r, 1, PRIMARY_COUNT) \o Upto(r, PRIMARY_COUNT + 1, PRIMARY_COUNT + STANDBY_COUNT))
             = FirstOf(r, Len(r), PRIMARY_COUNT + STANDBY_COUNT)
<1>1. PRIMARY_COUNT \in Nat /\ STANDBY_COUNT \in Nat
  BY WorkersAreMeasured
<1>2. PICK next, last : next = PRIMARY_COUNT + 1 /\ last = PRIMARY_COUNT + STANDBY_COUNT
  OBVIOUS
<1>3. ToSet(Upto(r, 1, PRIMARY_COUNT) \o Upto(r, next, last)) = FirstOf(r, Len(r), last)
  BY <1>1, <1>2, TeamIsTheFirst
<1> QED  BY <1>2, <1>3

LEMMA TeamOfRanked ==
    ASSUME KeysDiffer, NEW seed \in Seeds, NEW job \in VrfJobs,
           NEW n \in Nat, NEW c \in [1..n -> Workers], IsInjective(c),
           NEW team, team = assign_workers(seed, job, c)
    PROVE  ToSet(team.primaries \o team.standbys)
             = FirstOf(Ranked(seed, job, c), n, PRIMARY_COUNT + STANDBY_COUNT)
<1> DEFINE W == ToSet(c)
           r == Ranked(seed, job, c)
<1>1. DOMAIN r = 1..n /\ \A k \in 1..n : r[k] \in W
  BY RankedByKeys
<1>2. r \in Seq(W) /\ Len(r) = n
  <2>1. r = [k \in 1..n |-> r[k]]
    BY <1>1 DEF Ranked
  <2> HIDE DEF r, W
  <2>2. r \in [1..n -> W]
    BY <1>1, <2>1
  <2>3. r \in Seq(W)
    BY <2>2, SeqDef
  <2> QED  BY <1>1, <2>3, LenProperties
<1>3. /\ team.primaries = Upto(r, 1, PRIMARY_COUNT)
      /\ team.standbys = Upto(r, PRIMARY_COUNT + 1, PRIMARY_COUNT + STANDBY_COUNT)
  BY DEF assign_workers
<1> HIDE DEF r, W
<1>4. ToSet(Upto(r, 1, PRIMARY_COUNT) \o Upto(r, PRIMARY_COUNT + 1, PRIMARY_COUNT + STANDBY_COUNT))
        = FirstOf(r, Len(r), PRIMARY_COUNT + STANDBY_COUNT)
  BY <1>2, TeamOfSequence
<1> QED  BY <1>2, <1>3, <1>4 DEF r

\* Who is left out comes after all who are in.
LEMMA LeftOutComeAfter ==
    ASSUME KeysDiffer, NEW seed \in Seeds, NEW job \in VrfJobs,
           NEW n \in Nat, NEW c \in [1..n -> Workers], IsInjective(c),
           NEW team, team = assign_workers(seed, job, c),
           NEW v \in ToSet(c), v \notin ToSet(team.primaries \o team.standbys),
           NEW w \in ToSet(team.primaries \o team.standbys)
    PROVE  w \in Workers /\ v \in Workers /\ score(Metrics[w]) <= score(Metrics[v])
<1> DEFINE W == ToSet(c)
           lt == KeyOrder(seed, job, W)
           U(x) == Cardinality(Under(W, lt, x))
           r == Ranked(seed, job, c)
           P == PRIMARY_COUNT
           S == STANDBY_COUNT
<1>1. W \subseteq Workers /\ IsFiniteSet(W) /\ Cardinality(W) = n
  BY ListsAreFinite
<1>2. Ordering(W, lt)
  BY <1>1, KeysOrder
<1>3. DOMAIN r = 1..n /\ \A k \in 1..n : r[k] \in W /\ U(r[k]) = k - 1
  BY RankedByKeys
<1>6. P \in Nat /\ S \in Nat
  BY WorkersAreMeasured
<1> HIDE DEF r, W, P, S, lt
<1>7. \A x : x \in ToSet(team.primaries \o team.standbys) <=> \E k \in 1..n : k <= P + S /\ r[k] = x
  <2>1. ToSet(team.primaries \o team.standbys) = FirstOf(r, n, P + S)
    BY TeamOfRanked DEF r, P, S
  <2> QED  BY <2>1 DEF FirstOf
<1>8. PICK k \in 1..n : k <= P + S /\ r[k] = w
  BY <1>7
<1>9. w \in W /\ U(w) = k - 1
  BY <1>3, <1>8
<1>10. v \in W
  BY DEF W
<1>11. U(v) \in 0..(n - 1)
  BY <1>1, <1>2, <1>10, LaterHasMoreAhead
<1>12. ~(U(v) < U(w))
  <2> SUFFICES ASSUME U(v) < U(w) PROVE FALSE
    OBVIOUS
  <2> DEFINE m == U(v) + 1
  <2>1. m \in 1..n /\ U(r[m]) = U(v) /\ r[m] \in W /\ m <= P + S
    <3> HIDE DEF U
    <3>1. m \in 1..n /\ m - 1 = U(v) /\ m <= P + S
      BY <1>6, <1>8, <1>9, <1>11
    <3> QED  BY <1>3, <3>1
  <2>2. r[m] # v
    BY <1>7, <2>1
  <2>3. <<r[m], v>> \in lt \/ <<v, r[m]>> \in lt
    BY <1>2, <1>10, <2>1, <2>2 DEF Ordering
  <2> HIDE DEF m
  <2>4. U(r[m]) < U(v) \/ U(v) < U(r[m])
    BY <1>1, <1>2, <1>10, <2>1, <2>3, LaterHasMoreAhead
  <2> HIDE DEF U
  <2> QED  BY <1>11, <2>1, <2>4
<1>13. v # w
  BY <1>8, <1>7
<1>14. <<w, v>> \in lt
  <2> SUFFICES ASSUME <<v, w>> \in lt PROVE FALSE
    BY <1>2, <1>9, <1>10, <1>13 DEF Ordering
  <2> QED  BY <1>1, <1>2, <1>9, <1>10, <1>12, LaterHasMoreAhead
<1>15. RankedBefore(seed, job, w, v)
  BY <1>14 DEF lt, KeyOrder
<1>16. score(Metrics[w]) \in Nat /\ score(Metrics[v]) \in Nat
  BY <1>1, <1>9, <1>10, ScoreTyped
<1> QED  BY <1>1, <1>9, <1>10, <1>15, <1>16 DEF RankedBefore

-----------------------------------------------------------------------------
\* Commitments and assignments.
VrfSpec == VrfInit /\ [][VrfNext]_vrfVars

\* A job has one seed at most, and a team is what its seed makes of the list.
VrfInv ==
    /\ commitments \in [VrfJobs -> SUBSET Seeds]
    /\ \A job \in VrfJobs : \A s, t \in commitments[job] : s = t
    /\ \A a \in assignments :
          /\ a.job \in VrfJobs /\ a.seed \in commitments[a.job]
          /\ \E n \in Nat : a.candidates \in [1..n -> Workers] /\ IsInjective(a.candidates)
          /\ a.team = assign_workers(a.seed, a.job, a.candidates)

LEMMA VrfStarts == VrfInit => VrfInv
BY DEF VrfInit, VrfInv

LEMMA VrfStepKeeps == VrfInv /\ [VrfNext]_vrfVars => VrfInv'
<1> SUFFICES ASSUME VrfInv, [VrfNext]_vrfVars PROVE VrfInv'
  OBVIOUS
<1>1. ASSUME NEW job \in VrfJobs, NEW seed \in Seeds, commit_seed(job, seed) PROVE VrfInv'
  <2>1. /\ commitments[job] = {} /\ commitments' = [commitments EXCEPT ![job] = {seed}]
        /\ assignments' = assignments
    BY <1>1 DEF commit_seed
  <2>2. commitments' \in [VrfJobs -> SUBSET Seeds]
    BY <2>1 DEF VrfInv
  <2>3. \A j \in VrfJobs : \A s, t \in commitments'[j] : s = t
    BY <2>1 DEF VrfInv
  <2>4. \A j \in VrfJobs : commitments[j] \subseteq commitments'[j]
    BY <2>1 DEF VrfInv
  <2>5. ASSUME NEW a \in assignments
        PROVE  /\ a.job \in VrfJobs /\ a.seed \in commitments'[a.job]
               /\ \E n \in Nat : a.candidates \in [1..n -> Workers] /\ IsInjective(a.candidates)
               /\ a.team = assign_workers(a.seed, a.job, a.candidates)
    BY <2>4 DEF VrfInv
  <2> QED  BY <2>1, <2>2, <2>3, <2>5 DEF VrfInv
<1>2. ASSUME NEW job \in VrfJobs, NEW seed \in Seeds,
             NEW n \in 0..MaxCandidates, NEW c \in [1..n -> DOMAIN Metrics], IsInjective(c),
             assign_from_commit_reveal(job, seed, c)
      PROVE  VrfInv'
  <2> DEFINE new == [job |-> job, seed |-> seed, candidates |-> c,
                     team |-> assign_workers(seed, job, c)]
  <2>1. seed \in commitments[job] /\ assignments' = assignments \union {new} /\ commitments' = commitments
    BY <1>2 DEF assign_from_commit_reveal
  <2>2. n \in Nat
    BY WorkersAreMeasured
  <2>3. /\ new.job \in VrfJobs /\ new.seed \in commitments[new.job]
        /\ \E m \in Nat : new.candidates \in [1..m -> Workers] /\ IsInjective(new.candidates)
        /\ new.team = assign_workers(new.seed, new.job, new.candidates)
    <3>1. new.job = job /\ new.seed = seed /\ new.candidates = c /\ new.team = assign_workers(seed, job, c)
      OBVIOUS
    <3> HIDE DEF new
    <3> QED  BY <1>2, <2>1, <2>2, <3>1 DEF Workers
  <2> HIDE DEF new
  <2>4. ASSUME NEW a \in assignments'
        PROVE  /\ a.job \in VrfJobs /\ a.seed \in commitments[a.job]
               /\ \E m \in Nat : a.candidates \in [1..m -> Workers] /\ IsInjective(a.candidates)
               /\ a.team = assign_workers(a.seed, a.job, a.candidates)
    BY <2>1, <2>3 DEF VrfInv
  <2> QED  BY <2>1, <2>4 DEF VrfInv
<1>3. CASE VrfNext
  BY <1>1, <1>2, <1>3 DEF VrfNext
<1>4. CASE UNCHANGED vrfVars
  BY <1>4 DEF vrfVars, VrfInv
<1> QED  BY <1>3, <1>4

LEMMA TeamsFollowKeys == KeysDiffer /\ VrfInv => TeamsAgree
<1> SUFFICES ASSUME KeysDiffer, VrfInv, NEW a \in assignments, NEW b \in assignments
             PROVE  /\ a.job = b.job /\ ToSet(a.candidates) = ToSet(b.candidates) => a.team = b.team
                    /\ \A v \in ToSet(a.candidates) \ Team(a), w \in Team(a) :
                          LET x == Metrics[v]
                              y == Metrics[w]
                          IN  /\ load_penalty(x.active_jobs) >= load_penalty(y.active_jobs)
                              /\ load_penalty(x.active_jobs) = load_penalty(y.active_jobs)
                                 /\ battery_capacity_score(x.battery_percent)
                                       >= battery_capacity_score(y.battery_percent)
                                 => thermal_penalty(x.temperature_c) >= thermal_penalty(y.temperature_c)
  BY DEF TeamsAgree
<1>1. /\ a.job \in VrfJobs /\ b.job \in VrfJobs /\ a.seed \in Seeds /\ b.seed \in Seeds
      /\ a.job = b.job => a.seed = b.seed
      /\ a.team = assign_workers(a.seed, a.job, a.candidates)
      /\ b.team = assign_workers(b.seed, b.job, b.candidates)
  BY DEF VrfInv
<1>2. PICK n \in Nat : a.candidates \in [1..n -> Workers] /\ IsInjective(a.candidates)
  BY DEF VrfInv
<1>3. PICK m \in Nat : b.candidates \in [1..m -> Workers] /\ IsInjective(b.candidates)
  BY DEF VrfInv
<1>4. ASSUME a.job = b.job, ToSet(a.candidates) = ToSet(b.candidates) PROVE a.team = b.team
  <2>1. Ranked(a.seed, a.job, a.candidates) = Ranked(b.seed, b.job, b.candidates)
    BY <1>1, <1>2, <1>3, <1>4, ListsRankAlike
  <2> QED  BY <1>1, <2>1 DEF assign_workers
<1>5. ASSUME NEW v \in ToSet(a.candidates) \ Team(a), NEW w \in Team(a)
      PROVE  w \in Workers /\ v \in Workers /\ score(Metrics[w]) <= score(Metrics[v])
  BY <1>1, <1>2, LeftOutComeAfter DEF Team
<1> QED  BY <1>4, <1>5, ScoreWeighs

\* Nodes that assign a job by its seed come to one team, whatever the order of
\* their lists, and nobody is passed over for one who is more loaded
\* (assign_from_commit_reveal, assign_workers).
THEOREM TeamsAreOne == KeysDiffer => (VrfSpec => []TeamsAgree)
<1>1. KeysDiffer /\ VrfInv => TeamsAgree
  BY TeamsFollowKeys
<1>2. SUFFICES ASSUME KeysDiffer PROVE VrfSpec => []TeamsAgree
  OBVIOUS
<1>3. VrfInv => TeamsAgree
  BY <1>1, <1>2
<1> QED  BY <1>3, VrfStarts, VrfStepKeeps, PTL DEF VrfSpec

-----------------------------------------------------------------------------
(***************************************************************************)
(* Cheapest paths.  The costs of the walks of at most n hops (Walked) are  *)
(* what a search is measured against: each distance it holds is the cost   *)
(* of a walk, and every walk is as long as the distance of its end, or of  *)
(* a node that is still to be visited.                                     *)
(***************************************************************************)

\* What is assumed of the constants.
LEMMA IslandFacts ==
    /\ Peers \subseteq Nat \ {0} /\ IsFiniteSet(Peers) /\ Cardinality(Peers) \in Nat
    /\ \A n \in Peers : IdOf(n) \in NodeIds
    /\ \A m, n \in Peers : IdOf(m) = IdOf(n) => m = n
    /\ LinkTypes \subseteq {"LoRa", "Ble", "Wifi"} /\ Qualities \subseteq 0..255
    /\ K \in Nat /\ ALPHA \in Nat /\ K >= 1 /\ ALPHA >= 1 /\ MaxRounds \in Nat /\ K <= MaxRounds
BY IslandAssumption, TableAssumption, FS_CardinalityType

\* What is true of the links.
LinksKept ==
    /\ edges \subseteq [from : Peers, to : Peers, link : LinkTypes, quality : Qualities, cost : Nat]
    /\ \A e \in edges : e.cost > 0 /\ e.from # e.to
    /\ \A a, b \in Peers : b \in Neighbours(a) => a \in Neighbours(b)

\* A link leads from a node to another and costs something.
LEMMA LinkFields ==
    ASSUME LinksKept, NEW e \in edges
    PROVE  /\ e.from \in Peers /\ e.to \in Peers /\ e.link \in LinkTypes
           /\ e.cost \in Nat /\ e.cost > 0 /\ e.from # e.to
BY DEF LinksKept

\* Between neighbours the best link is one of theirs, and none is cheaper.
LEMMA BestOfLinks ==
    ASSUME LinksKept, NEW u, NEW v \in Neighbours(u)
    PROVE  /\ BestEdge(u, v) \in edges /\ BestEdge(u, v).from = u /\ BestEdge(u, v).to = v
           /\ \A f \in edges : f.from = u /\ f.to = v => BestEdge(u, v).cost <= f.cost
<1> DEFINE E == {e \in edges : e.from = u /\ e.to = v}
           C == {e.cost : e \in E}
<1>1. E # {}
  BY DEF Neighbours
<1>2. \A e \in E : e.cost \in Nat /\ LinkRank(e.link) \in Nat
  BY LinkFields, IslandFacts DEF LinkRank
<1>3. PICK c \in C : \A d \in C : c <= d
  <2>1. C \subseteq Nat /\ C # {}
    BY <1>1, <1>2
  <2> HIDE DEF C
  <2> QED  BY <2>1, LeastNumber
<1> DEFINE F == {e \in E : e.cost = c}
           R == {LinkRank(e.link) : e \in F}
<1>4. PICK r \in R : \A d \in R : r <= d
  <2>1. R \subseteq Nat /\ R # {}
    BY <1>2, <1>3
  <2> HIDE DEF R
  <2> QED  BY <2>1, LeastNumber
<1>5. PICK b \in F : r = LinkRank(b.link)
  BY <1>4
<1>6. b \in edges /\ b.from = u /\ b.to = v /\ b.cost = c
  BY <1>5
<1>7. ASSUME NEW f \in edges, f.from = u, f.to = v
      PROVE  b.cost < f.cost \/ (b.cost = f.cost /\ LinkRank(b.link) <= LinkRank(f.link))
  <2>1. f \in E /\ f.cost \in Nat /\ c \in Nat
    BY <1>2, <1>3, <1>7
  <2>2. c <= f.cost
    BY <1>3, <2>1
  <2>3. f.cost = c => r <= LinkRank(f.link)
    BY <1>4, <2>1
  <2> QED  BY <1>5, <1>6, <2>1, <2>2, <2>3
<1>8. /\ BestEdge(u, v) \in edges /\ BestEdge(u, v).from = u /\ BestEdge(u, v).to = v
      /\ \A f \in edges : f.from = u /\ f.to = v =>
            \/ BestEdge(u, v).cost < f.cost
            \/ BestEdge(u, v).cost = f.cost /\ LinkRank(BestEdge(u, v).link) <= LinkRank(f.link)
  BY <1>6, <1>7 DEF BestEdge
<1>9. \A f \in edges : f.from = u /\ f.to = v => BestEdge(u, v).cost <= f.cost
  BY <1>8, LinkFields
<1> QED  BY <1>8, <1>9

\* Values that follow from one another, from start, up to n.
Following(f, X, step, start, n) ==
    f \in [0..n -> X] /\ f[0] = start /\ \A i \in 1..n : f[i] = step[f[i - 1]]

\* There are such values.
LEMMA ValuesFollow ==
    ASSUME NEW n \in Nat, NEW X, NEW step \in [X -> X], NEW start \in X
    PROVE  \E f : Following(f, X, step, start, n)
<1>1. PICK L : Levels(L, X, step, start)
  BY LevelsExist
<1> DEFINE f == [i \in 0..n |-> L[i]]
<1>2. L \in [Nat -> X] /\ L[0] = start /\ \A m \in Nat : L[m + 1] = step[L[m]]
  BY <1>1 DEF Levels
<1>3. ASSUME NEW i \in 1..n PROVE f[i] = step[f[i - 1]]
  <2>1. i - 1 \in Nat /\ i - 1 \in 0..n /\ i \in 0..n /\ (i - 1) + 1 = i
    OBVIOUS
  <2>2. L[(i - 1) + 1] = step[L[i - 1]]
    BY <1>2, <2>1
  <2> QED  BY <2>1, <2>2
<1>4. f \in [0..n -> X] /\ f[0] = start
  BY <1>2
<1> HIDE DEF f
<1> QED  BY <1>3, <1>4 DEF Following

\* What the walks to v cost, given what those to every node did: one hop more.
Longer(W) == [v \in Peers |-> W[v] \union UNION {{c + e.cost : c \in W[e.from]} :
                                                    e \in {f \in edges : f.to = v}}]

\* The walk of no hops ends where it starts and costs nothing.
AtHome(src) == [v \in Peers |-> IF v = src THEN {0} ELSE {}]

\* W[n][v]: what the walks of at most n hops from src to v cost.
Walked(W, src) ==
    /\ W \in [0..Cardinality(Peers) -> [Peers -> SUBSET Nat]]
    /\ W[0] = AtHome(src)
    /\ \A n \in 1..Cardinality(Peers) : W[n] = Longer(W[n - 1])

\* Costs are numbers.
LEMMA LongerTyped ==
    ASSUME LinksKept, NEW V \in [Peers -> SUBSET Nat]
    PROVE  Longer(V) \in [Peers -> SUBSET Nat]
<1>1. ASSUME NEW v \in Peers, NEW c \in Longer(V)[v] PROVE c \in Nat
  <2>1. c \in V[v] \/ \E e \in edges : e.to = v /\ \E d \in V[e.from] : c = d + e.cost
    BY <1>1 DEF Longer
  <2>2. \A e \in edges : e.from \in Peers /\ e.cost \in Nat
    BY LinkFields
  <2> QED  BY <2>1, <2>2
<1> QED  BY <1>1 DEF Longer

\* What Cheapest looks at are the costs of the walks of one hop less than
\* there are nodes.
LEMMA CheapestWalks ==
    ASSUME LinksKept, NEW src \in Peers
    PROVE  \E W : /\ Walked(W, src)
                  /\ \A dst \in Peers : Cheapest(src, dst) = W[Cardinality(Peers) - 1][dst]
<1> DEFINE N == Cardinality(Peers)
           X == [Peers -> SUBSET Nat]
           step == [V \in X |-> Longer(V)]
           Rec(f) == [n \in 0..N |-> IF n = 0 THEN AtHome(src) ELSE Longer(f[n - 1])]
           W == CHOOSE f : f = Rec(f)
<1>1. N \in Nat /\ AtHome(src) \in X /\ step \in [X -> X] /\ \A V \in X : step[V] = Longer(V)
  BY IslandFacts, LongerTyped DEF AtHome
<1> HIDE DEF N, X, step
<1>2. PICK f : f \in [0..N -> X] /\ f[0] = AtHome(src) /\ \A i \in 1..N : f[i] = step[f[i - 1]]
  <2> DEFINE start == AtHome(src)
  <2>1. N \in Nat /\ step \in [X -> X] /\ start \in X
    BY <1>1
  <2> HIDE DEF start
  <2>2. \E f : Following(f, X, step, start, N)
    BY <2>1, ValuesFollow
  <2> QED  BY <2>2 DEF start, Following
<1>3. f = Rec(f)
  <2>1. \A n \in 0..N : f[n] = IF n = 0 THEN AtHome(src) ELSE Longer(f[n - 1])
    <3> SUFFICES ASSUME NEW n \in 0..N PROVE f[n] = IF n = 0 THEN AtHome(src) ELSE Longer(f[n - 1])
      OBVIOUS
    <3>1. CASE n = 0
      BY <1>2, <3>1
    <3>2. CASE n # 0
      <4>1. n \in 1..N /\ n - 1 \in 0..N
        BY <1>1, <3>2
      <4>2. f[n - 1] \in X
        BY <1>2, <4>1
      <4> QED  BY <1>1, <1>2, <3>2, <4>1, <4>2
    <3> QED  BY <3>1, <3>2
  <2>2. f = [n \in 0..N |-> f[n]]
    BY <1>2
  <2> QED  BY <2>1, <2>2
<1>4. W = Rec(W)
  BY <1>3
<1>5. ASSUME NEW dst \in Peers PROVE Cheapest(src, dst) = W[N - 1][dst]
  BY DEF Cheapest, N, AtHome, Longer
<1> HIDE DEF W
<1>6. W[0] = AtHome(src) /\ \A n \in 1..N : W[n] = Longer(W[n - 1])
  <2>1. 0 \in 0..N /\ \A n \in 1..N : n \in 0..N /\ n # 0
    BY <1>1
  <2> QED  BY <1>4, <2>1
<1>7. \A n \in 0..N : W[n] \in X
  <2>1. W[0] \in X
    BY <1>1, <1>6
  <2>2. \A i \in 1..N : W[i - 1] \in X => W[i] \in X
    BY <1>1, <1>6
  <2> QED  BY <1>1, <2>1, <2>2, StepByStep
<1>8. W = [n \in 0..N |-> W[n]]
  BY <1>4
<1>9. W \in [0..N -> X]
  BY <1>7, <1>8
<1>10. Walked(W, src)
  BY <1>6, <1>9 DEF Walked, N, X
<1> QED  BY <1>5, <1>10 DEF N

\* The states of a search are such records.
Searches == [dist : UNION {[D -> Nat] : D \in SUBSET Peers},
             prev : UNION {[D -> edges] : D \in SUBSET Peers},
             visited : SUBSET Peers]

\* What is true of a search from src. Visited nodes are closer than the others
\* and have handed their distance on; a distance is that of the node it came
\* from and a hop, and the cost of a walk with a hop per node visited at most.
SearchKept(s, src, W) ==
    LET D == DOMAIN s.dist
        n == Cardinality(s.visited)
    IN  /\ s \in Searches
        /\ s.visited \subseteq D /\ DOMAIN s.prev = D \ {src}
        /\ src \in D /\ s.dist[src] = 0
        /\ \A v \in D \ {src} : /\ s.prev[v].to = v /\ s.prev[v].from \in s.visited
                                /\ s.dist[v] = s.dist[s.prev[v].from] + s.prev[v].cost
        /\ \A u \in s.visited, w \in D \ s.visited : s.dist[u] <= s.dist[w]
        /\ \A e \in edges : e.from \in s.visited =>
              e.to \in D /\ s.dist[e.to] <= s.dist[e.from] + e.cost
        /\ \A v \in D : s.dist[v] \in W[n][v]
        /\ \A v \in s.visited : s.dist[v] \in W[n - 1][v]

\* The parts of such a record.
LEMMA SearchFields ==
    ASSUME NEW s \in Searches
    PROVE  /\ DOMAIN s.dist \subseteq Peers /\ s.dist \in [DOMAIN s.dist -> Nat]
           /\ \A v \in DOMAIN s.dist : s.dist[v] \in Nat
           /\ DOMAIN s.prev \subseteq Peers /\ s.prev \in [DOMAIN s.prev -> edges]
           /\ \A v \in DOMAIN s.prev : s.prev[v] \in edges
           /\ s.visited \subseteq Peers
           /\ IsFiniteSet(s.visited) /\ Cardinality(s.visited) \in Nat
           /\ Cardinality(s.visited) <= Cardinality(Peers)
<1>1. PICK D \in SUBSET Peers : s.dist \in [D -> Nat]
  BY DEF Searches
<1>2. PICK E \in SUBSET Peers : s.prev \in [E -> edges]
  BY DEF Searches
<1>3. s.visited \subseteq Peers
  BY DEF Searches
<1>4. /\ IsFiniteSet(s.visited) /\ Cardinality(s.visited) \in Nat
      /\ Cardinality(s.visited) <= Cardinality(Peers)
  BY <1>3, IslandFacts, FS_Subset, FS_CardinalityType
<1> QED  BY <1>1, <1>2, <1>3, <1>4

\* Walks of more hops can only be more.
LEMMA WalksGrow ==
    ASSUME NEW src \in Peers, NEW W, Walked(W, src),
           NEW m \in 0..Cardinality(Peers), NEW n \in 0..Cardinality(Peers), m <= n,
           NEW v \in Peers
    PROVE  W[m][v] \subseteq W[n][v]
<1> DEFINE N == Cardinality(Peers)
           X == {i \in Nat : m <= i => W[m][v] \subseteq W[i][v]}
           g == [i \in 0..N |-> i]
<1>1. N \in Nat
  BY IslandFacts
<1>2. ASSUME NEW i \in 1..N PROVE W[i - 1][v] \subseteq W[i][v]
  <2>1. W[i] = Longer(W[i - 1])
    BY DEF Walked
  <2> QED  BY <2>1 DEF Longer
<1> HIDE DEF N
<1>3. g[0] \in X
  <2>1. m <= 0 => m = 0
    BY <1>1 DEF N
  <2>2. g[0] = 0
    BY <1>1
  <2> HIDE DEF g
  <2> QED  BY <2>1, <2>2
<1>4. \A i \in 1..N : g[i - 1] \in X => g[i] \in X
  <2> SUFFICES ASSUME NEW i \in 1..N, i - 1 \in X PROVE i \in X
    BY <1>1
  <2>1. CASE m <= i - 1
    BY <1>2, <2>1
  <2>2. CASE ~(m <= i - 1)
    <3>1. m \in Nat /\ m <= i => m = i
      BY <1>1, <2>2 DEF N
    <3> QED  BY <1>1, <3>1 DEF N
  <2> QED  BY <2>1, <2>2
<1>5. \A i \in 0..N : g[i] \in X
  <2> HIDE DEF g, X
  <2> QED  BY <1>1, <1>3, <1>4, StepByStep
<1>6. n \in X
  BY <1>1, <1>5 DEF N
<1> QED  BY <1>6

\* A link at the end of a walk makes a walk.
LEMMA OneHopMore ==
    ASSUME NEW src \in Peers, NEW W, Walked(W, src), LinksKept,
           NEW n \in 1..Cardinality(Peers), NEW e \in edges, NEW c \in W[n - 1][e.from]
    PROVE  c + e.cost \in W[n][e.to]
<1>1. W[n] = Longer(W[n - 1]) /\ e.to \in Peers
  BY LinkFields DEF Walked
<1> QED  BY <1>1 DEF Longer

\* The nearest node is still to be visited, and none that is has less distance.
LEMMA NearestIsNear ==
    ASSUME NEW s \in Searches, ~(DOMAIN s.dist \subseteq s.visited)
    PROVE  /\ Nearest(s) \in DOMAIN s.dist \ s.visited
           /\ \A v \in DOMAIN s.dist \ s.visited : s.dist[Nearest(s)] <= s.dist[v]
<1> DEFINE U == DOMAIN s.dist \ s.visited
           C == {s.dist[v] : v \in U}
<1>1. U # {} /\ U \subseteq Peers /\ U \subseteq Nat /\ \A v \in U : s.dist[v] \in Nat
  BY SearchFields, IslandFacts
<1>2. PICK c \in C : \A d \in C : c <= d
  <2>1. C \subseteq Nat /\ C # {}
    BY <1>1
  <2> HIDE DEF C
  <2> QED  BY <2>1, LeastNumber
<1> DEFINE R == {v \in U : s.dist[v] = c}
<1>3. PICK u \in R : \A v \in R : u <= v
  <2>1. R \subseteq Nat /\ R # {}
    BY <1>1, <1>2
  <2> HIDE DEF R
  <2> QED  BY <2>1, LeastNumber
<1>4. u \in U /\ \A v \in U : s.dist[u] < s.dist[v] \/ (s.dist[u] = s.dist[v] /\ u <= v)
  <2> SUFFICES ASSUME NEW v \in U PROVE s.dist[u] < s.dist[v] \/ (s.dist[u] = s.dist[v] /\ u <= v)
    BY <1>3
  <2>1. c <= s.dist[v] /\ s.dist[u] = c /\ s.dist[v] \in Nat /\ c \in Nat
    BY <1>1, <1>2, <1>3
  <2>2. s.dist[v] = c => u <= v
    BY <1>3
  <2> QED  BY <2>1, <2>2
<1>5. Nearest(s) \in U /\ \A v \in U : s.dist[Nearest(s)] < s.dist[v] \/ (s.dist[Nearest(s)] = s.dist[v] /\ Nearest(s) <= v)
  BY <1>4 DEF Nearest
<1> QED  BY <1>1, <1>5

-----------------------------------------------------------------------------
\* Visiting the nearest node keeps all that.
LEMMA RelaxFields ==
    ASSUME LinksKept, NEW src \in Peers, NEW W, NEW s, SearchKept(s, src, W),
           ~(DOMAIN s.dist \subseteq s.visited), NEW u, u = Nearest(s),
           NEW t, t = Relax(s, u)
    PROVE  /\ t.visited = s.visited \union {u} /\ u \in DOMAIN s.dist \ s.visited
           /\ t \in Searches
           /\ \E better \in SUBSET (Neighbours(u) \ t.visited) :
                 /\ DOMAIN t.dist = better \union DOMAIN s.dist
                 /\ DOMAIN t.prev = better \union DOMAIN s.prev
                 /\ src \notin better
                 /\ \A v \in better :
                       /\ t.dist[v] = s.dist[u] + BestEdge(u, v).cost /\ t.prev[v] = BestEdge(u, v)
                       /\ v \in DOMAIN s.dist => t.dist[v] <= s.dist[v]
                 /\ \A v \in DOMAIN s.dist \ better : t.dist[v] = s.dist[v]
                 /\ \A v \in DOMAIN s.prev \ better : t.prev[v] = s.prev[v]
                 /\ \A v \in (Neighbours(u) \ t.visited) \ better :
                       v \in DOMAIN s.dist /\ s.dist[v] <= s.dist[u] + BestEdge(u, v).cost
<1> DEFINE alt(v) == s.dist[u] + BestEdge(u, v).cost
           better == {v \in Neighbours(u) \ (s.visited \union {u}) : Better(s, v, alt(v), u)}
           D == DOMAIN s.dist
<1>1. s \in Searches /\ src \in D /\ s.dist[src] = 0 /\ DOMAIN s.prev = D \ {src}
  BY DEF SearchKept
<1>2. u \in D \ s.visited /\ u \in Peers /\ s.dist[u] \in Nat /\ \A v \in D : s.dist[v] \in Nat
  BY <1>1, NearestIsNear, SearchFields
<1>3. t = [dist |-> [v \in better \union D |-> IF v \in better THEN alt(v) ELSE s.dist[v]],
           prev |-> [v \in better \union DOMAIN s.prev |-> IF v \in better THEN BestEdge(u, v) ELSE s.prev[v]],
           visited |-> s.visited \union {u}]
  BY DEF Relax
<1>4. \A v \in Neighbours(u) : /\ v \in Peers /\ BestEdge(u, v) \in edges
                               /\ BestEdge(u, v).cost \in Nat /\ BestEdge(u, v).cost > 0
                               /\ alt(v) \in Nat /\ alt(v) > 0
  <2> SUFFICES ASSUME NEW v \in Neighbours(u)
               PROVE  /\ v \in Peers /\ BestEdge(u, v) \in edges
                      /\ BestEdge(u, v).cost \in Nat /\ BestEdge(u, v).cost > 0
                      /\ alt(v) \in Nat /\ alt(v) > 0
    OBVIOUS
  <2>1. BestEdge(u, v) \in edges /\ BestEdge(u, v).to = v
    BY BestOfLinks
  <2>2. v \in Peers /\ BestEdge(u, v).cost \in Nat /\ BestEdge(u, v).cost > 0
    BY <2>1, LinkFields
  <2> QED  BY <1>2, <2>1, <2>2
<1>5. /\ better \subseteq Neighbours(u) \ (s.visited \union {u}) /\ better \subseteq Peers
      /\ \A v \in better : Better(s, v, alt(v), u)
      /\ \A v \in (Neighbours(u) \ (s.visited \union {u})) \ better : ~Better(s, v, alt(v), u)
  BY <1>4
<1>6. src \notin better
  <2> SUFFICES ASSUME src \in better PROVE FALSE
    OBVIOUS
  <2>1. Better(s, src, alt(src), u) /\ alt(src) \in Nat /\ alt(src) > 0
    BY <1>4, <1>5
  <2> HIDE DEF alt
  <2> QED  BY <1>1, <2>1 DEF Better
<1>7. \A v \in better \intersect D : alt(v) <= s.dist[v]
  <2> SUFFICES ASSUME NEW v \in better, v \in D PROVE alt(v) <= s.dist[v]
    OBVIOUS
  <2>1. Better(s, v, alt(v), u) /\ alt(v) \in Nat
    BY <1>4, <1>5
  <2> HIDE DEF alt
  <2> QED  BY <1>2, <2>1 DEF Better
<1>8. \A v \in (Neighbours(u) \ (s.visited \union {u})) \ better : v \in D /\ s.dist[v] <= alt(v)
  <2> SUFFICES ASSUME NEW v \in (Neighbours(u) \ (s.visited \union {u})) \ better
               PROVE  v \in D /\ s.dist[v] <= alt(v)
    OBVIOUS
  <2>1. ~Better(s, v, alt(v), u) /\ alt(v) \in Nat
    BY <1>4, <1>5
  <2> HIDE DEF alt
  <2> QED  BY <1>2, <2>1 DEF Better
<1>9. D \subseteq Peers /\ DOMAIN s.prev \subseteq Peers /\ s.visited \subseteq Peers
      /\ \A v \in DOMAIN s.prev : s.prev[v] \in edges
  BY <1>1, SearchFields
<1> HIDE DEF better, D
<1>10. t \in Searches
  <2> DEFINE d == [v \in better \union D |-> IF v \in better THEN alt(v) ELSE s.dist[v]]
             p == [v \in better \union DOMAIN s.prev |-> IF v \in better THEN BestEdge(u, v) ELSE s.prev[v]]
  <2>1. d \in [better \union D -> Nat]
    BY <1>2, <1>4, <1>5
  <2>2. p \in [better \union DOMAIN s.prev -> edges]
    BY <1>4, <1>5, <1>9
  <2>3. better \union D \in SUBSET Peers /\ better \union DOMAIN s.prev \in SUBSET Peers
        /\ s.visited \union {u} \in SUBSET Peers
    BY <1>2, <1>5, <1>9
  <2>4. t = [dist |-> d, prev |-> p, visited |-> s.visited \union {u}]
    BY <1>3
  <2> HIDE DEF d, p
  <2> QED  BY <2>1, <2>2, <2>3, <2>4 DEF Searches
<1> HIDE DEF alt
<1>11. /\ t.visited = s.visited \union {u}
       /\ DOMAIN t.dist = better \union D /\ DOMAIN t.prev = better \union DOMAIN s.prev
       /\ \A v \in better : t.dist[v] = alt(v) /\ t.prev[v] = BestEdge(u, v)
       /\ \A v \in D \ better : t.dist[v] = s.dist[v]
       /\ \A v \in DOMAIN s.prev \ better : t.prev[v] = s.prev[v]
  BY <1>3
<1>12. better \in SUBSET (Neighbours(u) \ t.visited)
  BY <1>5, <1>11
<1>13. \A v \in better : v \in D => t.dist[v] <= s.dist[v]
  BY <1>7, <1>11
<1>14. \A v \in (Neighbours(u) \ t.visited) \ better : v \in D /\ s.dist[v] <= alt(v)
  BY <1>8, <1>11
<1> QED  BY <1>2, <1>6, <1>10, <1>11, <1>12, <1>13, <1>14 DEF D, alt

LEMMA RelaxKeeps ==
    ASSUME LinksKept, NEW src \in Peers, NEW W, Walked(W, src), NEW s, SearchKept(s, src, W),
           ~(DOMAIN s.dist \subseteq s.visited)
    PROVE  /\ SearchKept(Relax(s, Nearest(s)), src, W)
           /\ Cardinality(Relax(s, Nearest(s)).visited) = Cardinality(s.visited) + 1
<1> DEFINE u == Nearest(s)
           t == Relax(s, u)
           D == DOMAIN s.dist
           E == DOMAIN t.dist
           n == Cardinality(s.visited)
           N == Cardinality(Peers)
<1>1. t.visited = s.visited \union {u} /\ u \in D \ s.visited /\ t \in Searches
  BY RelaxFields
<1>2. PICK better \in SUBSET (Neighbours(u) \ t.visited) :
         /\ E = better \union D
         /\ DOMAIN t.prev = better \union DOMAIN s.prev
         /\ src \notin better
         /\ \A v \in better :
               /\ t.dist[v] = s.dist[u] + BestEdge(u, v).cost /\ t.prev[v] = BestEdge(u, v)
               /\ v \in D => t.dist[v] <= s.dist[v]
         /\ \A v \in D \ better : t.dist[v] = s.dist[v]
         /\ \A v \in DOMAIN s.prev \ better : t.prev[v] = s.prev[v]
         /\ \A v \in (Neighbours(u) \ t.visited) \ better :
               v \in D /\ s.dist[v] <= s.dist[u] + BestEdge(u, v).cost
  BY RelaxFields
<1>3. /\ s \in Searches /\ s.visited \subseteq D /\ DOMAIN s.prev = D \ {src} /\ src \in D
      /\ s.dist[src] = 0
  BY DEF SearchKept
<1>4. /\ \A v \in D : s.dist[v] \in Nat
      /\ \A v \in E : t.dist[v] \in Nat
      /\ D \subseteq Peers /\ E \subseteq Peers
      /\ n \in Nat /\ N \in Nat /\ IsFiniteSet(s.visited)
      /\ Cardinality(t.visited) <= N
  BY <1>1, <1>3, SearchFields, IslandFacts, ZenonT(40)
<1>5. \A v \in D \ s.visited : s.dist[u] <= s.dist[v]
  BY <1>3, NearestIsNear
<1> HIDE DEF u, t
<1>6. Cardinality(t.visited) = n + 1
  BY <1>1, <1>4, FS_AddElement
<1>7. n + 1 \in 1..N /\ n \in 0..N /\ n + 1 \in 0..N /\ (n + 1) - 1 = n
  BY <1>4, <1>6
<1>8. \A v \in better : /\ BestEdge(u, v) \in edges /\ BestEdge(u, v).from = u /\ BestEdge(u, v).to = v
                        /\ BestEdge(u, v).cost \in Nat
  <2> SUFFICES ASSUME NEW v \in better
               PROVE  /\ BestEdge(u, v) \in edges /\ BestEdge(u, v).from = u /\ BestEdge(u, v).to = v
                      /\ BestEdge(u, v).cost \in Nat
    OBVIOUS
  <2>1. BestEdge(u, v) \in edges /\ BestEdge(u, v).from = u /\ BestEdge(u, v).to = v
    BY BestOfLinks
  <2> QED  BY <2>1, LinkFields
\* Those that were visited keep their distances.
<1>9. \A v \in t.visited : v \in D /\ v \in E /\ v \notin better /\ t.dist[v] = s.dist[v]
  BY <1>1, <1>2, <1>3
<1>10. \A v \in D : t.dist[v] <= s.dist[v]
  <2> SUFFICES ASSUME NEW v \in D PROVE t.dist[v] <= s.dist[v]
    OBVIOUS
  <2>1. CASE v \in better
    BY <1>2, <2>1
  <2>2. CASE v \notin better
    BY <1>2, <1>4, <2>2
  <2> QED  BY <2>1, <2>2
<1>11. t.visited \subseteq E /\ DOMAIN t.prev = E \ {src} /\ src \in E /\ t.dist[src] = 0
  BY <1>2, <1>3, <1>9
<1>12. ASSUME NEW v \in E \ {src}
       PROVE  /\ t.prev[v].to = v /\ t.prev[v].from \in t.visited
              /\ t.dist[v] = t.dist[t.prev[v].from] + t.prev[v].cost
  <2>1. CASE v \in better
    BY <1>1, <1>2, <1>8, <1>9, <2>1
  <2>2. CASE v \notin better
    <3>1. v \in D \ {src} /\ v \in DOMAIN s.prev
      BY <1>2, <1>3, <1>12, <2>2
    <3>2. /\ s.prev[v].to = v /\ s.prev[v].from \in s.visited
          /\ s.dist[v] = s.dist[s.prev[v].from] + s.prev[v].cost
      BY <3>1 DEF SearchKept
    <3>3. t.prev[v] = s.prev[v] /\ t.dist[v] = s.dist[v]
      BY <1>2, <2>2, <3>1
    <3>4. t.dist[s.prev[v].from] = s.dist[s.prev[v].from] /\ s.prev[v].from \in t.visited
      BY <1>1, <1>9, <3>2
    <3> QED  BY <3>2, <3>3, <3>4
  <2> QED  BY <2>1, <2>2
<1>13. ASSUME NEW v \in E \ t.visited PROVE s.dist[u] <= t.dist[v]
  <2>1. CASE v \in better
    <3>1. t.dist[v] = s.dist[u] + BestEdge(u, v).cost /\ s.dist[u] \in Nat /\ BestEdge(u, v).cost \in Nat
      BY <1>1, <1>2, <1>4, <1>8, <2>1
    <3> QED  BY <3>1
  <2>2. CASE v \notin better
    BY <1>1, <1>2, <1>5, <1>13, <2>2
  <2> QED  BY <2>1, <2>2
<1>14. ASSUME NEW x \in t.visited, NEW w \in E \ t.visited PROVE t.dist[x] <= t.dist[w]
  <2>1. s.dist[x] <= s.dist[u]
    <3>1. CASE x = u
      BY <1>1, <1>4, <3>1
    <3>2. CASE x # u
      <4>1. x \in s.visited
        BY <1>1, <3>2
      <4> QED  BY <1>1, <4>1 DEF SearchKept
    <3> QED  BY <3>1, <3>2
  <2>2. s.dist[u] <= t.dist[w] /\ t.dist[x] = s.dist[x]
    BY <1>9, <1>13
  <2>3. s.dist[x] \in Nat /\ s.dist[u] \in Nat /\ t.dist[w] \in Nat
    BY <1>1, <1>4, <1>9
  <2> QED  BY <2>1, <2>2, <2>3
<1>15. ASSUME NEW e \in edges, e.from \in t.visited
       PROVE  e.to \in E /\ t.dist[e.to] <= t.dist[e.from] + e.cost
  <2>1. e.cost \in Nat /\ e.cost > 0 /\ e.from # e.to /\ t.dist[e.from] = s.dist[e.from]
    BY <1>9, <1>15, LinkFields
  <2>2. CASE e.from # u
    <3>1. e.to \in D /\ s.dist[e.to] <= s.dist[e.from] + e.cost
      <4>1. e.from \in s.visited
        BY <1>1, <1>15, <2>2
      <4> QED  BY <4>1 DEF SearchKept
    <3>2. e.to \in E /\ t.dist[e.to] <= s.dist[e.to] /\ t.dist[e.to] \in Nat /\ s.dist[e.to] \in Nat
      BY <1>2, <1>4, <1>10, <3>1
    <3>3. s.dist[e.from] \in Nat
      BY <1>4, <1>9, <1>15
    <3> QED  BY <2>1, <3>1, <3>2, <3>3
  <2>3. CASE e.from = u /\ e.to \in t.visited
    <3>1. e.to \in s.visited
      BY <1>1, <2>1, <2>3
    <3>2. s.dist[e.to] <= s.dist[u]
      BY <1>1, <3>1 DEF SearchKept
    <3>3. e.to \in E /\ t.dist[e.to] = s.dist[e.to] /\ s.dist[e.to] \in Nat /\ s.dist[u] \in Nat
      BY <1>1, <1>4, <1>9, <2>3
    <3> QED  BY <2>1, <2>3, <3>2, <3>3
  <2>4. CASE e.from = u /\ e.to \notin t.visited
    <3> DEFINE v == e.to
    <3>1. v \in Neighbours(u) \ t.visited
      BY <2>4 DEF Neighbours
    <3>2. BestEdge(u, v).cost <= e.cost /\ BestEdge(u, v).cost \in Nat
      <4>1. BestEdge(u, v) \in edges /\ BestEdge(u, v).cost <= e.cost
        BY <2>4, <3>1, BestOfLinks
      <4> QED  BY <4>1, LinkFields
    <3>3. v \in E /\ t.dist[v] <= s.dist[u] + BestEdge(u, v).cost
      <4>1. s.dist[u] + BestEdge(u, v).cost \in Nat
        BY <1>1, <1>4, <3>2
      <4>2. CASE v \in better
        <5>1. v \in E /\ t.dist[v] = s.dist[u] + BestEdge(u, v).cost
          BY <1>2, <4>2
        <5> QED  BY <4>1, <5>1
      <4>3. CASE v \notin better
        <5>1. v \in D /\ s.dist[v] <= s.dist[u] + BestEdge(u, v).cost /\ v \in E /\ t.dist[v] = s.dist[v]
          BY <1>2, <3>1, <4>3
        <5> QED  BY <5>1
      <4> QED  BY <4>2, <4>3
    <3>4. t.dist[v] \in Nat /\ s.dist[u] \in Nat
      BY <1>1, <1>4, <3>3
    <3> HIDE DEF v
    <3>5. t.dist[v] <= s.dist[u] + e.cost
      BY <2>1, <3>2, <3>3, <3>4
    <3> QED  BY <2>1, <2>4, <3>3, <3>5 DEF v
  <2> QED  BY <2>2, <2>3, <2>4
<1>16. ASSUME NEW v \in E PROVE t.dist[v] \in W[n + 1][v]
  <2>1. CASE v \in better
    <3>1. s.dist[u] \in W[n][u] /\ n + 1 \in 1..Cardinality(Peers) /\ W[(n + 1) - 1] = W[n]
      BY <1>1, <1>7 DEF SearchKept
    <3>2. BestEdge(u, v) \in edges /\ BestEdge(u, v).from = u /\ BestEdge(u, v).to = v
      BY <1>8, <2>1
    <3>3. s.dist[u] + BestEdge(u, v).cost \in W[n + 1][v]
      <4> DEFINE e == BestEdge(u, v)
                 c == s.dist[u]
                 m == n + 1
      <4>1. m \in 1..Cardinality(Peers) /\ e \in edges /\ c \in W[m - 1][e.from] /\ e.to = v
        BY <3>1, <3>2
      <4> HIDE DEF e, c, m
      <4>2. c + e.cost \in W[m][e.to]
        BY <4>1, OneHopMore
      <4> QED  BY <4>1, <4>2 DEF e, c, m
    <3> QED  BY <1>2, <2>1, <3>3
  <2>2. CASE v \notin better
    <3>1. v \in D /\ t.dist[v] = s.dist[v]
      BY <1>2, <2>2
    <3>2. s.dist[v] \in W[n][v] /\ v \in Peers
      BY <1>4, <3>1 DEF SearchKept
    <3>3. W[n][v] \subseteq W[n + 1][v]
      <4>1. n <= n + 1
        BY <1>4
      <4> QED  BY <1>7, <3>2, <4>1, WalksGrow
    <3> QED  BY <3>1, <3>2, <3>3
  <2> QED  BY <2>1, <2>2
<1>17. ASSUME NEW v \in t.visited PROVE t.dist[v] \in W[n][v]
  BY <1>9 DEF SearchKept
<1>18. SearchKept(t, src, W)
  <2>1. \A v \in E : t.dist[v] \in W[Cardinality(t.visited)][v]
    BY <1>6, <1>16
  <2>2. \A v \in t.visited : t.dist[v] \in W[Cardinality(t.visited) - 1][v]
    BY <1>6, <1>7, <1>17
  <2> HIDE DEF n
  <2> QED  BY <1>1, <1>11, <1>12, <1>14, <1>15, <2>1, <2>2 DEF SearchKept
<1> QED  BY <1>6, <1>18 DEF u, t

\* When nobody is left to visit, or the nearest is the one looked for.
Ended(s, dst) == DOMAIN s.dist \subseteq s.visited \/ Nearest(s) = dst

\* The state a search starts from.
Start(src) == [dist |-> [v \in {src} |-> 0], prev |-> << >>, visited |-> {}]

\* A round of the search.
Visit(s, dst) == IF Ended(s, dst) THEN s ELSE Relax(s, Nearest(s))

\* At the start the invariant holds.
LEMMA StartIsKept ==
    ASSUME NEW src \in Peers, NEW W, Walked(W, src)
    PROVE  SearchKept(Start(src), src, W) /\ Cardinality(Start(src).visited) = 0
<1> DEFINE s == Start(src)
           e == << >>
           d == [v \in {src} |-> 0]
<1>1. DOMAIN e = {} /\ e \in [{} -> edges]
  <2>1. e \in Seq(edges) /\ Len(e) = 0 /\ 1..0 = {}
    BY EmptySeq
  <2> HIDE DEF e
  <2>2. DOMAIN e = 1..Len(e) /\ e \in [1..Len(e) -> edges]
    BY <2>1, LenProperties
  <2> QED  BY <2>1, <2>2
<1>2. d \in [{src} -> Nat] /\ DOMAIN d = {src} /\ d[src] = 0
  OBVIOUS
<1>3. s = [dist |-> d, prev |-> e, visited |-> {}]
  BY DEF Start
<1> HIDE DEF s, d, e
<1>4. s.dist = d /\ s.prev = e /\ s.visited = {}
  BY <1>3
<1>5. s \in Searches
  <2>1. {src} \in SUBSET Peers /\ {} \in SUBSET Peers
    OBVIOUS
  <2> QED  BY <1>1, <1>2, <1>3, <2>1 DEF Searches
<1>6. Cardinality(s.visited) = 0
  BY <1>4, FS_EmptySet
<1>7. d[src] \in W[0][src]
  BY <1>2 DEF Walked, AtHome
<1>8. \A v \in DOMAIN s.dist : s.dist[v] \in W[Cardinality(s.visited)][v]
  BY <1>2, <1>4, <1>6, <1>7
<1>9. SearchKept(s, src, W)
  BY <1>1, <1>2, <1>4, <1>5, <1>8 DEF SearchKept
<1> QED  BY <1>6, <1>9 DEF s

\* The search keeps it, and with a round per node it has ended.
LEMMA ExploredEnds ==
    ASSUME LinksKept, NEW src \in Peers, NEW dst \in Peers, NEW W, Walked(W, src)
    PROVE  SearchKept(Explored(src, dst), src, W) /\ Ended(Explored(src, dst), dst)
<1> DEFINE N == Cardinality(Peers)
           X == {s \in Searches : SearchKept(s, src, W)}
           step == [s \in X |-> Visit(s, dst)]
           start == Start(src)
           Rec(f) == [n \in 0..N |->
                         IF n = 0 THEN Start(src)
                         ELSE LET s == f[n - 1]
                              IN  IF DOMAIN s.dist \subseteq s.visited \/ Nearest(s) = dst THEN s
                                  ELSE Relax(s, Nearest(s))]
           after == CHOOSE f : f = Rec(f)
<1>1. ASSUME NEW s \in X PROVE Visit(s, dst) \in X
  <2>1. CASE Ended(s, dst)
    BY <2>1 DEF Visit
  <2>2. CASE ~Ended(s, dst)
    <3>1. SearchKept(Relax(s, Nearest(s)), src, W)
      BY <2>2, RelaxKeeps DEF Ended
    <3>2. Relax(s, Nearest(s)) \in Searches
      BY <3>1 DEF SearchKept
    <3> QED  BY <2>2, <3>1, <3>2 DEF Visit
  <2> QED  BY <2>1, <2>2
<1>2. start \in X
  BY StartIsKept DEF SearchKept
<1>3. N \in Nat /\ step \in [X -> X] /\ \A s \in X : step[s] = Visit(s, dst)
  BY <1>1, IslandFacts
<1>4. \A s \in X : SearchKept(s, src, W)
  OBVIOUS
<1>5. Explored(src, dst) = after[N]
  BY DEF Explored, Start
<1> HIDE DEF N, X, step, start
<1>6. PICK f : f \in [0..N -> X] /\ f[0] = start /\ \A i \in 1..N : f[i] = step[f[i - 1]]
  <2>1. \E f : Following(f, X, step, start, N)
    BY <1>2, <1>3, ValuesFollow
  <2> QED  BY <2>1 DEF Following
<1>7. f = Rec(f)
  <2>1. \A n \in 0..N : f[n] = IF n = 0 THEN Start(src) ELSE Visit(f[n - 1], dst)
    <3> SUFFICES ASSUME NEW n \in 0..N PROVE f[n] = IF n = 0 THEN Start(src) ELSE Visit(f[n - 1], dst)
      OBVIOUS
    <3>1. CASE n = 0
      BY <1>6, <3>1 DEF start
    <3>2. CASE n # 0
      <4>1. n \in 1..N /\ n - 1 \in 0..N
        BY <1>3, <3>2
      <4>2. f[n - 1] \in X
        BY <1>6, <4>1
      <4> QED  BY <1>3, <1>6, <3>2, <4>1, <4>2
    <3> QED  BY <3>1, <3>2
  <2>2. f = [n \in 0..N |-> f[n]]
    BY <1>6
  <2>3. f = [n \in 0..N |-> IF n = 0 THEN Start(src) ELSE Visit(f[n - 1], dst)]
    BY <2>1, <2>2, Zenon
  <2> QED  BY <2>3 DEF Visit, Ended
<1>8. after = Rec(after)
  BY <1>7, Zenon
<1> HIDE DEF after
<1>9. after[0] = start /\ \A n \in 1..N : after[n] = Visit(after[n - 1], dst)
  <2>1. 0 \in 0..N /\ \A n \in 1..N : n \in 0..N /\ n # 0
    BY <1>3
  <2>2. after = [n \in 0..N |-> IF n = 0 THEN Start(src) ELSE Visit(after[n - 1], dst)]
    BY <1>8 DEF Visit, Ended
  <2> QED  BY <2>1, <2>2 DEF start
<1> HIDE DEF Rec
\* A round visits one more, or it is over.
<1> DEFINE Y == {y \in Nat \X X : Ended(y[2], dst) \/ Cardinality(y[2].visited) = y[1]}
           g == [n \in 0..N |-> <<n, after[n]>>]
<1>10. g[0] \in Y
  <2>1. Cardinality(start.visited) = 0
    BY StartIsKept DEF start
  <2>2. 0 \in 0..N
    BY <1>3
  <2> QED  BY <1>2, <1>9, <2>1, <2>2
<1>11. ASSUME NEW n \in 1..N, g[n - 1] \in Y PROVE g[n] \in Y
  <2> DEFINE s == after[n - 1]
             t == after[n]
  <2>1. n - 1 \in 0..N /\ n \in 0..N /\ n \in Nat /\ n - 1 \in Nat
    BY <1>3
  <2>2. s \in X /\ (Ended(s, dst) \/ Cardinality(s.visited) = n - 1)
    BY <1>11, <2>1
  <2>3. t = Visit(s, dst)
    BY <1>9
  <2>4. g[n] = <<n, t>>
    BY <2>1
  <2> HIDE DEF s, t, g
  <2>5. CASE Ended(s, dst)
    BY <2>1, <2>2, <2>3, <2>4, <2>5 DEF Visit
  <2>6. CASE ~Ended(s, dst)
    <3>1. t = Relax(s, Nearest(s)) /\ Cardinality(s.visited) = n - 1
      BY <2>2, <2>3, <2>6 DEF Visit
    <3>2. Cardinality(t.visited) = (n - 1) + 1
      BY <1>4, <2>2, <2>6, <3>1, RelaxKeeps DEF Ended
    <3>3. t \in X
      BY <1>1, <2>2, <2>3
    <3> QED  BY <2>1, <2>4, <3>2, <3>3
  <2> QED  BY <2>5, <2>6
<1>12. \A n \in 0..N : g[n] \in Y
  <2> HIDE DEF g, Y
  <2> QED  BY <1>3, <1>10, <1>11, StepByStep
<1> DEFINE s == after[N]
<1>13. s \in X /\ (Ended(s, dst) \/ Cardinality(s.visited) = N)
  <2>1. N \in 0..N /\ g[N] \in Y
    BY <1>3, <1>12
  <2> QED  BY <2>1
<1> HIDE DEF s, g
<1>14. SearchKept(s, src, W) /\ s \in Searches
  BY <1>4, <1>13 DEF SearchKept
<1>15. ASSUME Cardinality(s.visited) = N PROVE Ended(s, dst)
  <2>1. s.visited \subseteq Peers
    BY <1>14, SearchFields
  <2>2. s.visited = Peers
    BY <1>15, <2>1, IslandFacts, FS_Subset DEF N
  <2>3. DOMAIN s.dist \subseteq Peers
    BY <1>14, SearchFields
  <2> QED  BY <2>2, <2>3 DEF Ended
<1> QED  BY <1>5, <1>13, <1>14, <1>15 DEF s

\* No walk costs less than a search that has ended says.
LEMMA NoWalkIsShorter ==
    ASSUME LinksKept, NEW src \in Peers, NEW dst \in Peers, NEW W, Walked(W, src),
           NEW s, SearchKept(s, src, W), Ended(s, dst),
           NEW n \in 0..Cardinality(Peers), NEW c \in W[n][dst]
    PROVE  dst \in DOMAIN s.dist /\ s.dist[dst] <= c
<1> DEFINE N == Cardinality(Peers)
           D == DOMAIN s.dist
           Reached(v, d) == \/ v \in s.visited /\ s.dist[v] <= d
                            \/ \E w \in D \ s.visited : s.dist[w] <= d
           X == {i \in Nat : i <= N => \A v \in Peers : \A d \in W[i][v] : Reached(v, d)}
           g == [i \in 0..N |-> i]
<1>1. N \in Nat /\ s \in Searches /\ \A v \in D : s.dist[v] \in Nat
  BY IslandFacts, SearchFields DEF SearchKept
<1>2. \A v \in Peers, d \in Nat : v \in D /\ s.dist[v] <= d => Reached(v, d)
  OBVIOUS
<1>3. g[0] \in X
  <2> SUFFICES ASSUME NEW v \in Peers, NEW d \in W[0][v] PROVE Reached(v, d)
    BY <1>1
  <2>1. v = src /\ d = 0
    BY DEF Walked, AtHome
  <2>2. src \in D /\ s.dist[src] = 0
    BY DEF SearchKept
  <2> HIDE DEF Reached
  <2> QED  BY <1>2, <2>1, <2>2
<1> HIDE DEF N
<1>4. ASSUME NEW i \in 1..N, g[i - 1] \in X PROVE g[i] \in X
  <2>1. i - 1 \in X /\ i - 1 \in 0..N /\ i \in 0..N /\ i \in Nat /\ i - 1 <= N /\ g[i] = i
    BY <1>1, <1>4
  <2> SUFFICES ASSUME NEW v \in Peers, NEW d \in W[i][v] PROVE Reached(v, d)
    BY <2>1
  <2>2. \A w \in Peers : \A b \in W[i - 1][w] : Reached(w, b)
    BY <2>1
  <2>3. W[i] = Longer(W[i - 1])
    BY DEF Walked, N
  <2>4. CASE d \in W[i - 1][v]
    BY <2>2, <2>4
  <2>5. CASE d \notin W[i - 1][v]
    <3>1. PICK e \in edges : e.to = v /\ \E b \in W[i - 1][e.from] : d = b + e.cost
      BY <2>3, <2>5 DEF Longer
    <3>2. PICK b \in W[i - 1][e.from] : d = b + e.cost
      BY <3>1
    <3>3. e.from \in Peers /\ e.cost \in Nat
      BY LinkFields
    <3>4. b \in Nat
      <4>1. W[i - 1] \in [Peers -> SUBSET Nat]
        BY <2>1 DEF Walked, N
      <4> QED  BY <3>3, <4>1
    <3>5. Reached(e.from, b)
      BY <2>2, <3>3
    <3>6. CASE e.from \in s.visited /\ s.dist[e.from] <= b
      <4>1. v \in D /\ s.dist[v] <= s.dist[e.from] + e.cost
        BY <3>1, <3>6 DEF SearchKept
      <4>2. s.dist[v] \in Nat /\ s.dist[e.from] \in Nat
        <5>1. e.from \in D
          BY <3>6 DEF SearchKept
        <5> QED  BY <1>1, <4>1, <5>1
      <4>3. s.dist[v] <= d /\ d \in Nat
        BY <3>2, <3>3, <3>4, <3>6, <4>1, <4>2
      <4> HIDE DEF Reached
      <4> QED  BY <1>2, <4>1, <4>3
    <3>7. CASE \E w \in D \ s.visited : s.dist[w] <= b
      <4>1. PICK w \in D \ s.visited : s.dist[w] <= b
        BY <3>7
      <4>2. s.dist[w] <= d
        BY <1>1, <3>2, <3>3, <3>4, <4>1
      <4> QED  BY <4>1, <4>2
    <3> QED  BY <3>5, <3>6, <3>7
  <2> QED  BY <2>4, <2>5
<1>5. n \in X
  <2> HIDE DEF X
  <2>1. \A i \in 0..N : g[i] \in X
    <3> HIDE DEF g
    <3> QED  BY <1>1, <1>3, <1>4, StepByStep
  <2> QED  BY <2>1 DEF N
<1>6. Reached(dst, c)
  BY <1>1, <1>5 DEF N
<1>7. CASE D \subseteq s.visited
  <2>1. s.visited \subseteq D
    BY DEF SearchKept
  <2> QED  BY <1>6, <1>7, <2>1
<1>8. CASE ~(D \subseteq s.visited)
  <2>1. Nearest(s) = dst
    BY <1>8 DEF Ended
  <2>2. dst \in D \ s.visited /\ \A w \in D \ s.visited : s.dist[dst] <= s.dist[w]
    BY <1>1, <1>8, <2>1, NearestIsNear
  <2>3. PICK w \in D \ s.visited : s.dist[w] <= c
    BY <1>6, <2>2
  <2>4. c \in Nat
    BY DEF Walked
  <2>5. s.dist[dst] <= s.dist[w] /\ s.dist[dst] \in Nat /\ s.dist[w] \in Nat
    BY <1>1, <2>2
  <2> QED  BY <2>2, <2>3, <2>4, <2>5
<1> QED  BY <1>7, <1>8

\* What is found is the cost of a walk of one hop less than there are nodes.
LEMMA DistanceIsWalked ==
    ASSUME NEW src \in Peers, NEW W, Walked(W, src), NEW s, SearchKept(s, src, W),
           NEW v \in DOMAIN s.dist
    PROVE  s.dist[v] \in W[Cardinality(Peers) - 1][v]
<1> DEFINE N == Cardinality(Peers)
           n == Cardinality(s.visited)
<1>1. s \in Searches /\ s.visited \subseteq DOMAIN s.dist /\ v \in Peers
  BY SearchFields DEF SearchKept
<1>2. N \in Nat /\ n \in Nat /\ n <= N /\ s.visited \subseteq Peers /\ IsFiniteSet(s.visited)
  BY <1>1, SearchFields, IslandFacts
<1>3. N # 0
  BY IslandFacts, FS_EmptySet
<1>4. CASE v \in s.visited
  <2>1. n # 0
    BY <1>2, <1>4, FS_EmptySet
  <2>2. n - 1 \in 0..N /\ N - 1 \in 0..N /\ n - 1 <= N - 1
    BY <1>2, <1>3, <2>1
  <2>3. s.dist[v] \in W[n - 1][v]
    BY <1>4 DEF SearchKept
  <2> HIDE DEF n
  <2>4. W[n - 1][v] \subseteq W[N - 1][v]
    <3> DEFINE a == n - 1
               b == N - 1
    <3>1. a \in 0..Cardinality(Peers) /\ b \in 0..Cardinality(Peers) /\ a <= b
      BY <2>2
    <3> HIDE DEF a, b
    <3>2. W[a][v] \subseteq W[b][v]
      BY <1>1, <3>1, WalksGrow
    <3> QED  BY <3>2 DEF a, b
  <2> QED  BY <2>3, <2>4
<1>5. CASE v \notin s.visited
  <2>1. s.visited # Peers
    BY <1>1, <1>5
  <2>2. n # N
    BY <1>2, <2>1, IslandFacts, FS_Subset
  <2>3. n \in 0..N /\ N - 1 \in 0..N /\ n <= N - 1
    BY <1>2, <1>3, <2>2
  <2>4. s.dist[v] \in W[n][v]
    BY DEF SearchKept
  <2> HIDE DEF n
  <2>5. W[n][v] \subseteq W[N - 1][v]
    <3> DEFINE b == N - 1
    <3>1. b \in 0..Cardinality(Peers) /\ n \in 0..Cardinality(Peers) /\ n <= b
      BY <2>3
    <3> HIDE DEF b
    <3>2. W[n][v] \subseteq W[b][v]
      BY <1>1, <3>1, WalksGrow
    <3> QED  BY <3>2 DEF b
  <2> QED  BY <2>4, <2>5
<1> QED  BY <1>4, <1>5

-----------------------------------------------------------------------------
\* The hops back from dst that were gathered so far: each is the one by which
\* its end was reached, they follow on one another, and for each of them there
\* is one node less that is closer.
Begins(hops, dst) == IF hops = << >> THEN dst ELSE Head(hops).from

\* The nodes of less distance.
Closer(s, v) == {w \in DOMAIN s.dist : s.dist[w] < s.dist[v]}

HopsKept(s, dst, hops) ==
    /\ hops \in Seq(edges)
    /\ \A k \in 1..Len(hops) : hops[k].to \in DOMAIN s.prev /\ hops[k] = s.prev[hops[k].to]
    /\ \A k \in 2..Len(hops) : hops[k - 1].to = hops[k].from
    /\ hops # << >> => hops[Len(hops)].to = dst
    /\ Begins(hops, dst) \in DOMAIN s.dist
    /\ Cardinality(Closer(s, Begins(hops, dst))) + Len(hops) < Cardinality(Peers)

\* Fewer nodes are closer than a closer one.
LEMMA FewerAreCloser ==
    ASSUME NEW s \in Searches, NEW v \in DOMAIN s.dist, NEW w \in DOMAIN s.dist,
           s.dist[w] < s.dist[v]
    PROVE  Cardinality(Closer(s, w)) < Cardinality(Closer(s, v))
<1> DEFINE A == Closer(s, w)
           B == Closer(s, v)
<1>1. \A x \in DOMAIN s.dist : s.dist[x] \in Nat
  BY SearchFields
<1>2. A \subseteq B /\ w \in B /\ w \notin A
  BY <1>1 DEF Closer
<1>3. IsFiniteSet(B)
  <2>1. B \subseteq Peers
    BY SearchFields DEF Closer
  <2> QED  BY <2>1, IslandFacts, FS_Subset
<1> HIDE DEF A, B
<1>4. Cardinality(A) <= Cardinality(B) /\ (Cardinality(A) = Cardinality(B) => A = B)
  BY <1>2, <1>3, FS_Subset
<1>5. Cardinality(A) \in Nat /\ Cardinality(B) \in Nat
  BY <1>2, <1>3, FS_Subset, FS_CardinalityType
<1> QED  BY <1>2, <1>4, <1>5 DEF A, B

\* They are fewer than the nodes, for none is closer than itself.
LEMMA CloserAreFew ==
    ASSUME NEW s \in Searches, NEW v \in DOMAIN s.dist
    PROVE  /\ Cardinality(Closer(s, v)) \in Nat
           /\ Cardinality(Closer(s, v)) < Cardinality(Peers)
<1> DEFINE B == Closer(s, v)
<1>1. B \subseteq Peers /\ v \in Peers /\ v \notin B
  BY SearchFields DEF Closer
<1> HIDE DEF B
<1>2. Cardinality(B) <= Cardinality(Peers) /\ (Cardinality(B) = Cardinality(Peers) => B = Peers)
  BY <1>1, IslandFacts, FS_Subset
<1>3. Cardinality(B) \in Nat
  BY <1>1, IslandFacts, FS_Subset, FS_CardinalityType
<1> QED  BY <1>1, <1>2, <1>3, IslandFacts DEF B

\* The hop a node was reached by starts at one that is closer.
LEMMA HopBefore ==
    ASSUME NEW hops \in Seq(edges), NEW e \in edges
    PROVE  /\ <<e>> \o hops \in Seq(edges) /\ Len(<<e>> \o hops) = Len(hops) + 1
           /\ (<<e>> \o hops)[1] = e /\ Head(<<e>> \o hops) = e /\ <<e>> \o hops # << >>
           /\ \A k \in 1..Len(hops) : (<<e>> \o hops)[k + 1] = hops[k]
<1> DEFINE o == <<e>>
           r == o \o hops
<1>1. o \in Seq(edges) /\ Len(o) = 1 /\ o[1] = e
  OBVIOUS
<1>2. Len(hops) \in Nat
  BY LenProperties
<1> HIDE DEF o
<1>3. r \in Seq(edges) /\ Len(r) = 1 + Len(hops) /\ r[1] = e
      /\ \A k \in 1..Len(hops) : r[1 + k] = hops[k]
  <2>1. /\ r \in Seq(edges) /\ Len(r) = Len(o) + Len(hops)
        /\ \A k \in 1..(Len(o) + Len(hops)) : r[k] = IF k <= Len(o) THEN o[k] ELSE hops[k - Len(o)]
    BY <1>1, ConcatProperties
  <2> HIDE DEF r
  <2>2. 1 \in 1..(Len(o) + Len(hops)) /\ 1 <= Len(o)
    BY <1>1, <1>2
  <2>3. \A k \in 1..Len(hops) : 1 + k \in 1..(Len(o) + Len(hops)) /\ ~(1 + k <= Len(o)) /\ (1 + k) - Len(o) = k
    BY <1>1, <1>2
  <2> QED  BY <1>1, <1>2, <2>1, <2>2, <2>3
<1> HIDE DEF r
<1>4. r # << >> /\ Head(r) = e
  <2>1. r # << >>
    BY <1>2, <1>3, EmptySeq
  <2> QED  BY <1>3, <2>1, HeadTailProperties
<1> QED  BY <1>2, <1>3, <1>4 DEF r, o

\* Such a hop can be put before the others.
LEMMA HopsGoOn ==
    ASSUME LinksKept, NEW src \in Peers, NEW W, NEW s, SearchKept(s, src, W), NEW dst,
           NEW hops, HopsKept(s, dst, hops), Begins(hops, dst) # src
    PROVE  HopsKept(s, dst, <<s.prev[Begins(hops, dst)]>> \o hops)
<1> DEFINE a == Begins(hops, dst)
           e == s.prev[a]
           r == <<e>> \o hops
           n == Len(hops)
<1>1. s \in Searches /\ a \in DOMAIN s.prev /\ e \in edges
  BY SearchFields DEF SearchKept, HopsKept
<1>2. /\ e.to = a /\ e.from \in DOMAIN s.dist /\ s.dist[a] = s.dist[e.from] + e.cost
      /\ a \in DOMAIN s.dist /\ s.visited \subseteq DOMAIN s.dist
  BY DEF SearchKept, HopsKept
<1>3. s.dist[e.from] < s.dist[a]
  <2>1. e.cost \in Nat /\ e.cost > 0 /\ s.dist[e.from] \in Nat
    BY <1>1, <1>2, LinkFields, SearchFields
  <2> QED  BY <1>2, <2>1
<1>4. hops \in Seq(edges) /\ n \in Nat
  BY LenProperties DEF HopsKept
<1> HIDE DEF e, n
<1>5. /\ r \in Seq(edges) /\ Len(r) = n + 1 /\ r[1] = e /\ Head(r) = e /\ r # << >>
      /\ \A k \in 1..n : r[k + 1] = hops[k]
  BY <1>1, <1>4, HopBefore DEF n
<1> HIDE DEF r
<1>6. Begins(r, dst) = e.from
  BY <1>5 DEF Begins
<1>7. \A k \in 1..Len(r) : r[k].to \in DOMAIN s.prev /\ r[k] = s.prev[r[k].to]
  <2> SUFFICES ASSUME NEW k \in 1..(n + 1) PROVE r[k].to \in DOMAIN s.prev /\ r[k] = s.prev[r[k].to]
    BY <1>5
  <2>1. CASE k = 1
    BY <1>1, <1>2, <1>5, <2>1 DEF e
  <2>2. CASE k # 1
    <3> DEFINE j == k - 1
    <3>1. j \in 1..n /\ k = j + 1
      BY <1>4, <2>2
    <3> HIDE DEF j
    <3> QED  BY <1>5, <3>1 DEF HopsKept, n
  <2> QED  BY <2>1, <2>2
<1>8. ASSUME NEW k \in 2..Len(r) PROVE r[k - 1].to = r[k].from
  <2>1. CASE k = 2
    <3>1. 1 \in 1..n /\ hops # << >>
      <4>1. n >= 1
        BY <1>4, <1>5, <2>1
      <4> QED  BY <1>4, <4>1, EmptySeq DEF n
    <3>2. Head(hops) = hops[1] /\ r[2] = hops[1]
      BY <1>4, <1>5, <3>1, HeadTailProperties
    <3> QED  BY <1>2, <1>5, <2>1, <3>1, <3>2 DEF Begins
  <2>2. CASE k # 2
    <3> DEFINE j == k - 1
    <3>1. j \in 2..n /\ j \in 1..n /\ j - 1 \in 1..n /\ k = j + 1 /\ (j - 1) + 1 = j
      BY <1>4, <1>5, <2>2
    <3>2. r[k] = hops[j] /\ r[j] = hops[j - 1]
      <4> HIDE DEF j
      <4>1. r[j + 1] = hops[j] /\ r[(j - 1) + 1] = hops[j - 1]
        BY <1>5, <3>1
      <4> QED  BY <3>1, <4>1
    <3>3. hops[j - 1].to = hops[j].from
      <4> HIDE DEF j
      <4> QED  BY <3>1 DEF HopsKept, n
    <3> QED  BY <3>2, <3>3
  <2> QED  BY <2>1, <2>2
<1>9. r[Len(r)].to = dst
  <2>1. CASE n = 0
    <3>1. hops = << >>
      BY <1>4, <2>1, EmptySeq DEF n
    <3> QED  BY <1>2, <1>5, <2>1, <3>1 DEF Begins
  <2>2. CASE n # 0
    <3>1. n \in 1..n /\ hops # << >>
      BY <1>4, <2>2, EmptySeq DEF n
    <3>2. r[n + 1] = hops[n]
      BY <1>5, <3>1
    <3> QED  BY <1>5, <3>1, <3>2 DEF HopsKept, n
  <2> QED  BY <2>1, <2>2
<1>10. Cardinality(Closer(s, e.from)) + Len(r) < Cardinality(Peers)
  <2>1. Cardinality(Closer(s, e.from)) < Cardinality(Closer(s, a))
    BY <1>1, <1>2, <1>3, FewerAreCloser
  <2>2. Cardinality(Closer(s, e.from)) \in Nat /\ Cardinality(Closer(s, a)) \in Nat
    BY <1>1, <1>2, CloserAreFew
  <2>3. Cardinality(Closer(s, a)) + n < Cardinality(Peers)
    BY DEF HopsKept, n
  <2> QED  BY <1>4, <1>5, <2>1, <2>2, <2>3, IslandFacts
<1>11. HopsKept(s, dst, r)
  BY <1>2, <1>5, <1>6, <1>7, <1>8, <1>9, <1>10 DEF HopsKept
<1> QED  BY <1>11 DEF r, e

\* The hops of a path, gathered from its end.
Back(s, src, dst, hops) ==
    IF Begins(hops, dst) = src THEN hops ELSE <<s.prev[Begins(hops, dst)]>> \o hops

\* Gathered from the end, the hops lead back to where the search started.
LEMMA PathIsGathered ==
    ASSUME LinksKept, NEW src \in Peers, NEW dst \in Peers, NEW W,
           NEW s, s = Explored(src, dst), SearchKept(s, src, W), src # dst, dst \in DOMAIN s.dist
    PROVE  LET p == shortest_path(src, dst)
           IN  /\ p = [total_cost |-> s.dist[dst], hops |-> p.hops]
               /\ HopsKept(s, dst, p.hops) /\ Begins(p.hops, dst) = src
<1> DEFINE N == Cardinality(Peers)
           X == {hops \in Seq(edges) : HopsKept(s, dst, hops)}
           step == [hops \in X |-> Back(s, src, dst, hops)]
           start == << >>
           Rec(f) == [n \in 0..N |->
                         IF n = 0 THEN << >>
                         ELSE LET hops == f[n - 1]
                                  at == IF hops = << >> THEN dst ELSE Head(hops).from
                              IN  IF at = src THEN hops ELSE <<s.prev[at]>> \o hops]
           back == CHOOSE f : f = Rec(f)
<1>0. s \in Searches
  BY DEF SearchKept
<1>1. ASSUME NEW hops \in X PROVE Back(s, src, dst, hops) \in X
  <2>1. CASE Begins(hops, dst) = src
    BY <2>1 DEF Back
  <2>2. CASE Begins(hops, dst) # src
    <3>1. HopsKept(s, dst, Back(s, src, dst, hops))
      BY <2>2, HopsGoOn DEF Back
    <3> QED  BY <3>1 DEF HopsKept
  <2> QED  BY <2>1, <2>2
<1>2. start \in X
  <2>1. start \in Seq(edges) /\ Len(start) = 0 /\ start = << >> /\ 1..0 = {} /\ 2..0 = {}
    BY EmptySeq
  <2>2. Cardinality(Closer(s, dst)) \in Nat /\ Cardinality(Closer(s, dst)) < Cardinality(Peers)
    BY <1>0, CloserAreFew
  <2>3. Begins(start, dst) = dst
    BY DEF Begins
  <2> HIDE DEF start
  <2>4. HopsKept(s, dst, start)
    BY <2>1, <2>2, <2>3 DEF HopsKept
  <2> QED  BY <2>1, <2>4
<1>3. N \in Nat /\ step \in [X -> X] /\ \A hops \in X : step[hops] = Back(s, src, dst, hops)
  BY <1>1, IslandFacts
<1>4. \A hops \in X : HopsKept(s, dst, hops)
  OBVIOUS
<1>5. shortest_path(src, dst) = [total_cost |-> s.dist[dst], hops |-> back[N]]
  BY DEF shortest_path
<1> HIDE DEF N, X, step
<1>6. PICK f : f \in [0..N -> X] /\ f[0] = start /\ \A i \in 1..N : f[i] = step[f[i - 1]]
  <2> HIDE DEF start
  <2>1. \E f : Following(f, X, step, start, N)
    BY <1>2, <1>3, ValuesFollow
  <2> QED  BY <2>1, Zenon DEF Following
<1>7. f = Rec(f)
  <2>1. \A n \in 0..N : f[n] = IF n = 0 THEN start ELSE Back(s, src, dst, f[n - 1])
    <3> SUFFICES ASSUME NEW n \in 0..N PROVE f[n] = IF n = 0 THEN start ELSE Back(s, src, dst, f[n - 1])
      OBVIOUS
    <3>1. CASE n = 0
      BY <1>6, <3>1
    <3>2. CASE n # 0
      <4>1. n \in 1..N /\ n - 1 \in 0..N
        BY <1>3, <3>2
      <4>2. f[n - 1] \in X
        BY <1>6, <4>1
      <4> QED  BY <1>3, <1>6, <3>2, <4>1, <4>2
    <3> QED  BY <3>1, <3>2
  <2>2. f = [n \in 0..N |-> f[n]]
    BY <1>6
  <2>3. f = [n \in 0..N |-> IF n = 0 THEN start ELSE Back(s, src, dst, f[n - 1])]
    BY <2>1, <2>2, Zenon
  <2> QED  BY <2>3, Zenon DEF Back, Begins
<1>8. back = Rec(back)
  BY <1>7, Zenon
<1> HIDE DEF back
<1>9. back[0] = start /\ \A n \in 1..N : back[n] = Back(s, src, dst, back[n - 1])
  <2>1. 0 \in 0..N /\ \A n \in 1..N : n \in 0..N /\ n # 0
    BY <1>3
  <2>2. back = [n \in 0..N |-> IF n = 0 THEN start ELSE Back(s, src, dst, back[n - 1])]
    BY <1>8, Zenon DEF Back, Begins
  <2> QED  BY <2>1, <2>2, Zenon
<1> HIDE DEF Rec, start
\* There is one hop more each time, or the start is reached.
<1> DEFINE Y == {y \in Nat \X X : Begins(y[2], dst) = src \/ Len(y[2]) = y[1]}
           g == [n \in 0..N |-> <<n, back[n]>>]
<1>10. g[0] \in Y
  <2>1. Len(start) = 0 /\ 0 \in 0..N
    BY <1>3, EmptySeq DEF start
  <2> QED  BY <1>2, <1>9, <2>1
<1>11. ASSUME NEW n \in 1..N, g[n - 1] \in Y PROVE g[n] \in Y
  <2> DEFINE h == back[n - 1]
             t == back[n]
  <2>1. n - 1 \in 0..N /\ n \in 0..N /\ n \in Nat /\ n - 1 \in Nat
    BY <1>3
  <2>2. h \in X /\ (Begins(h, dst) = src \/ Len(h) = n - 1)
    BY <1>11, <2>1
  <2>3. t = Back(s, src, dst, h)
    BY <1>9
  <2>4. g[n] = <<n, t>>
    BY <2>1
  <2> HIDE DEF h, t, g
  <2>5. CASE Begins(h, dst) = src
    BY <2>1, <2>2, <2>3, <2>4, <2>5 DEF Back
  <2>6. CASE Begins(h, dst) # src
    <3>1. t = <<s.prev[Begins(h, dst)]>> \o h /\ Len(h) = n - 1
      BY <2>2, <2>3, <2>6 DEF Back
    <3>2. h \in Seq(edges) /\ s.prev[Begins(h, dst)] \in edges
      <4>1. HopsKept(s, dst, h)
        BY <1>4, <2>2
      <4>2. Begins(h, dst) \in DOMAIN s.prev
        BY <2>6, <4>1 DEF HopsKept, SearchKept
      <4> QED  BY <1>0, <4>1, <4>2, SearchFields DEF HopsKept
    <3>3. Len(t) = Len(h) + 1
      BY <3>1, <3>2, HopBefore
    <3>4. t \in X
      BY <1>1, <2>2, <2>3
    <3>5. Len(t) = n
      BY <2>1, <3>1, <3>3
    <3> QED  BY <2>1, <2>4, <3>4, <3>5
  <2> QED  BY <2>5, <2>6
<1>12. \A n \in 0..N : g[n] \in Y
  <2> HIDE DEF g, Y
  <2> QED  BY <1>3, <1>10, <1>11, StepByStep
<1> DEFINE r == back[N]
<1>13. r \in X /\ (Begins(r, dst) = src \/ Len(r) = N)
  <2>1. N \in 0..N /\ g[N] \in Y
    BY <1>3, <1>12
  <2> QED  BY <2>1
<1> HIDE DEF r, g
<1>14. HopsKept(s, dst, r)
  BY <1>4, <1>13
<1>15. Len(r) # N
  <2>1. Begins(r, dst) \in DOMAIN s.dist /\ Cardinality(Closer(s, Begins(r, dst))) + Len(r) < N
    BY <1>14 DEF HopsKept, N
  <2>2. Cardinality(Closer(s, Begins(r, dst))) \in Nat
    BY <1>0, <2>1, CloserAreFew
  <2> QED  BY <1>3, <2>1, <2>2
<1> QED  BY <1>5, <1>13, <1>14, <1>15 DEF r

\* The path found costs what the cheapest one does.
LEMMA CostIsLeast ==
    ASSUME LinksKept, NEW src \in Peers, NEW dst \in Peers
    PROVE  LET p == shortest_path(src, dst)
               there == Cheapest(src, dst)
           IN  /\ p = NoPath <=> there = {}
               /\ there # {} => p.total_cost = Min(there)
               /\ \A c \in there : p.total_cost \in Nat /\ c \in Nat /\ p.total_cost <= c
<1> DEFINE N == Cardinality(Peers)
           p == shortest_path(src, dst)
           there == Cheapest(src, dst)
           s == Explored(src, dst)
<1>1. PICK W : Walked(W, src) /\ there = W[N - 1][dst]
  BY CheapestWalks
<1>2. SearchKept(s, src, W) /\ Ended(s, dst) /\ s \in Searches
  BY <1>1, ExploredEnds DEF SearchKept
<1>3. N - 1 \in 0..N /\ 0 \in 0..N /\ 0 <= N - 1
  <2>1. N \in Nat /\ N # 0
    BY IslandFacts, FS_EmptySet
  <2> QED  BY <2>1
<1>4. there \subseteq Nat
  BY <1>1, <1>3 DEF Walked
<1>5. ASSUME NEW d \in there, \A c \in there : d <= c, p.total_cost = d
      PROVE  /\ p = NoPath <=> there = {}
             /\ there # {} => p.total_cost = Min(there)
             /\ \A c \in there : p.total_cost \in Nat /\ c \in Nat /\ p.total_cost <= c
  <2>1. p # NoPath /\ there # {}
    <3>1. d \in Nat /\ d # -1
      BY <1>4
    <3> QED  BY <1>5, <3>1 DEF NoPath
  <2>2. Min(there) \in there /\ \A c \in there : Min(there) <= c
    BY <1>4, <2>1, MinIsLeast
  <2>3. Min(there) = d
    <3>1. Min(there) \in Nat /\ d \in Nat /\ Min(there) <= d /\ d <= Min(there)
      BY <1>4, <1>5, <2>2
    <3> QED  BY <3>1
  <2> HIDE DEF there, p
  <2> QED  BY <1>4, <1>5, <2>1, <2>3
<1>6.ASSUME src = dst
      PROVE  /\ p = NoPath <=> there = {}
             /\ there # {} => p.total_cost = Min(there)
             /\ \A c \in there : p.total_cost \in Nat /\ c \in Nat /\ p.total_cost <= c
  <2>1. 0 \in there
    <3>1. 0 \in W[0][src]
      BY <1>1 DEF Walked, AtHome
    <3> DEFINE b == N - 1
               a == 0
    <3>2. a \in 0..Cardinality(Peers) /\ b \in 0..Cardinality(Peers) /\ a <= b
      BY <1>3
    <3> HIDE DEF a, b
    <3>3. W[a][src] \subseteq W[b][src]
      BY <1>1, <3>2, WalksGrow
    <3> QED  BY <1>1, <1>6, <3>1, <3>3 DEF a, b
  <2>2. \A c \in there : 0 <= c
    BY <1>4
  <2>3. p.total_cost = 0
    BY <1>6 DEF shortest_path
  <2> HIDE DEF there, p
  <2> QED  BY <1>5, <2>1, <2>2, <2>3
<1>7.ASSUME src # dst, dst \in DOMAIN s.dist
      PROVE  /\ p = NoPath <=> there = {}
             /\ there # {} => p.total_cost = Min(there)
             /\ \A c \in there : p.total_cost \in Nat /\ c \in Nat /\ p.total_cost <= c
  <2> DEFINE d == s.dist[dst]
  <2>1. d \in there
    BY <1>1, <1>2, <1>7, DistanceIsWalked
  <2>2. ASSUME NEW c \in there PROVE d <= c
    <3> DEFINE b == N - 1
    <3>1. b \in 0..Cardinality(Peers) /\ c \in W[b][dst]
      BY <1>1, <1>3
    <3> HIDE DEF b, s
    <3> QED  BY <1>1, <1>2, <3>1, NoWalkIsShorter
  <2>3. p.total_cost = d
    <3> HIDE DEF s
    <3>1. p = [total_cost |-> s.dist[dst], hops |-> p.hops]
      BY <1>2, <1>7, PathIsGathered DEF s
    <3> HIDE DEF p
    <3> QED  BY <3>1
  <2> HIDE DEF d, there, p
  <2> QED  BY <1>5, <2>1, <2>2, <2>3
<1>8.ASSUME src # dst, dst \notin DOMAIN s.dist
      PROVE  /\ p = NoPath <=> there = {}
             /\ there # {} => p.total_cost = Min(there)
             /\ \A c \in there : p.total_cost \in Nat /\ c \in Nat /\ p.total_cost <= c
  <2>1. p = NoPath
    BY <1>8 DEF shortest_path
  <2>2. ASSUME NEW c \in there PROVE FALSE
    <3> DEFINE b == N - 1
    <3>1. b \in 0..Cardinality(Peers) /\ c \in W[b][dst]
      BY <1>1, <1>3
    <3> HIDE DEF b, s
    <3>2. dst \in DOMAIN s.dist
      BY <1>1, <1>2, <3>1, NoWalkIsShorter
    <3> QED  BY <1>8, <3>2 DEF s
  <2> HIDE DEF there, p
  <2> QED  BY <2>1, <2>2
<1> HIDE DEF there, p
<1> QED  BY <1>6, <1>7, <1>8 DEF there, p

\* The hops of a path.
CostsOf(hops) == [k \in 1..Len(hops) |-> hops[k].cost]

\* They lead from the one node to the other.
LEMMA HopsLead ==
    ASSUME LinksKept, NEW src \in Peers, NEW dst \in Peers, NEW W,
           NEW s, SearchKept(s, src, W), src # dst,
           NEW hops, HopsKept(s, dst, hops), Begins(hops, dst) = src
    PROVE  /\ Len(hops) \in 1..(Cardinality(Peers) - 1)
           /\ hops[1] \in edges /\ hops[1].from = src /\ Head(hops) = hops[1]
           /\ hops[Len(hops)].to = dst
           /\ \A k \in 1..Len(hops) : /\ hops[k] \in edges /\ hops[k].to \in DOMAIN s.dist
                                      /\ hops[k].from \in DOMAIN s.dist
                                      /\ s.dist[hops[k].to] = s.dist[hops[k].from] + hops[k].cost
           /\ \A k \in 2..Len(hops) : hops[k - 1].to = hops[k].from
<1> DEFINE n == Len(hops)
           N == Cardinality(Peers)
<1>1. hops \in Seq(edges) /\ n \in Nat /\ DOMAIN hops = 1..n /\ \A k \in 1..n : hops[k] \in edges
  BY LenProperties, ElementOfSeq DEF HopsKept
<1>2. hops # << >> /\ n # 0 /\ Head(hops) = hops[1] /\ 1 \in 1..n /\ n \in 1..n
  <2>1. hops # << >>
    BY DEF Begins
  <2>2. n # 0
    BY <1>1, <2>1, EmptySeq
  <2> QED  BY <1>1, <2>1, <2>2, HeadTailProperties
<1>3. n \in 1..(N - 1)
  <2>1. Cardinality(Closer(s, Begins(hops, dst))) + n < N /\ Begins(hops, dst) \in DOMAIN s.dist
    BY DEF HopsKept
  <2>2. Cardinality(Closer(s, Begins(hops, dst))) \in Nat /\ N \in Nat
    BY <2>1, CloserAreFew, IslandFacts DEF SearchKept
  <2> QED  BY <1>1, <1>2, <2>1, <2>2
<1>4. hops[1].from = src /\ hops[n].to = dst /\ \A k \in 2..n : hops[k - 1].to = hops[k].from
  BY <1>2 DEF HopsKept, Begins
<1>5. ASSUME NEW k \in 1..n
      PROVE  /\ hops[k] \in edges /\ hops[k].to \in DOMAIN s.dist /\ hops[k].from \in DOMAIN s.dist
             /\ s.dist[hops[k].to] = s.dist[hops[k].from] + hops[k].cost
  <2>1. hops[k].to \in DOMAIN s.prev /\ hops[k] = s.prev[hops[k].to]
    BY DEF HopsKept
  <2> DEFINE v == hops[k].to
  <2>2. v \in DOMAIN s.dist \ {src}
    BY <2>1 DEF SearchKept
  <2>3. s.prev[v].from \in DOMAIN s.dist /\ s.dist[v] = s.dist[s.prev[v].from] + s.prev[v].cost
    <3> HIDE DEF v
    <3> QED  BY <2>2 DEF SearchKept
  <2> QED  BY <1>1, <2>1, <2>2, <2>3
<1> QED  BY <1>1, <1>2, <1>3, <1>4, <1>5 DEF n

\* And their costs add up.
LEMMA HopsAddUp ==
    ASSUME LinksKept, NEW src \in Peers, NEW dst \in Peers, NEW W,
           NEW s, SearchKept(s, src, W), src # dst,
           NEW hops, HopsKept(s, dst, hops), Begins(hops, dst) = src
    PROVE  MapThenSumSet(LAMBDA k : hops[k].cost, DOMAIN hops) = s.dist[dst]
<1> DEFINE n == Len(hops)
           h == CostsOf(hops)
           N == Cardinality(Peers)
<1>1. hops \in Seq(edges) /\ n \in Nat /\ DOMAIN hops = 1..n /\ \A k \in 1..n : hops[k] \in edges
  BY LenProperties, ElementOfSeq DEF HopsKept
<1>2. /\ n \in 1..(N - 1) /\ hops[1].from = src /\ hops[n].to = dst
      /\ \A k \in 2..n : hops[k - 1].to = hops[k].from
  BY HopsLead
<1>3. 1 \in 1..n /\ n \in 1..n
  BY <1>1, <1>2
<1>4. \A k \in 2..n : hops[k - 1].to = hops[k].from
  BY <1>2
<1>5. ASSUME NEW k \in 1..n
      PROVE  /\ hops[k] \in edges /\ hops[k].to \in DOMAIN s.dist /\ hops[k].from \in DOMAIN s.dist
             /\ s.dist[hops[k].to] = s.dist[hops[k].from] + hops[k].cost
  BY HopsLead
<1>6. \A k \in 1..n : h[k] = hops[k].cost /\ h[k] \in Nat /\ s.dist[hops[k].to] \in Nat
  <2> SUFFICES ASSUME NEW k \in 1..n
               PROVE  h[k] = hops[k].cost /\ h[k] \in Nat /\ s.dist[hops[k].to] \in Nat
    OBVIOUS
  <2>1. s \in Searches
    BY DEF SearchKept
  <2> QED  BY <1>5, <2>1, LinkFields, SearchFields DEF CostsOf
<1>7. MapThenSumSet(LAMBDA k : hops[k].cost, DOMAIN hops) = Total(h, 1..n)
  <2> DEFINE S == 1..n
             Rec(f) == [t \in SUBSET S |-> IF t = {} THEN 0 ELSE hops[Picked(t)].cost + f[t \ {Picked(t)}]]
             iter == CHOOSE f : f = Rec(f)
  <2>1. MapThenSumSet(LAMBDA k : hops[k].cost, DOMAIN hops) = iter[S]
    BY <1>1 DEF MapThenSumSet, MapThenFoldSet, Picked
  <2>2. \A t \in SUBSET S : t # {} => h[Picked(t)] = hops[Picked(t)].cost
    BY <1>6, PickedIsIn
  <2> HIDE DEF h
  <2>3. \A f : Summing(f, h, S) <=> f = Rec(f)
    BY <2>2 DEF Summing
  <2>4. IsFiniteSet(S)
    BY <1>1, FS_Interval
  <2>5. \E f : f = Rec(f)
    BY <2>3, <2>4, SummingExists
  <2>6. Summing(iter, h, S)
    BY <2>3, <2>5
  <2> HIDE DEF iter, S
  <2>7. iter[S] = Total(h, S)
    BY <2>4, <2>6, SumIsTotal
  <2> QED  BY <2>1, <2>7 DEF S
<1> HIDE DEF h, n
\* The distance grows by what each hop costs.
<1> DEFINE X == {k \in Nat : k >= 1 /\ k <= n => Total(h, 1..k) = s.dist[hops[k].to]}
           g == [k \in 0..n |-> k]
<1>8. ASSUME NEW k \in 1..n, g[k - 1] \in X PROVE g[k] \in X
  <2> DEFINE m == k - 1
  <2>1. m \in Nat /\ k = m + 1 /\ m <= n /\ g[m] = m /\ g[k] = k /\ k \in Nat
    BY <1>1, <1>8
  <2>2. Total(h, 1..k) = Total(h, 1..m) + h[k] /\ Total(h, 1..m) \in Nat
    <3>1. Counting(h, 1..m) /\ h[m + 1] \in Nat
      BY <1>1, <1>6, <2>1 DEF Counting
    <3> HIDE DEF m
    <3> QED  BY <2>1, <3>1, TotalAppends
  <2>3. CASE m = 0
    <3>1. Total(h, 1..0) = 0
      <4>1. 1..0 = {} /\ IsFiniteSet({})
        BY FS_EmptySet
      <4> QED  BY <4>1, TotalOfZeros
    <3>2. s.dist[hops[1].to] = s.dist[src] + h[1] /\ s.dist[src] = 0 /\ h[1] \in Nat
      BY <1>2, <1>3, <1>5, <1>6 DEF SearchKept
    <3>3. k = 1
      BY <2>1, <2>3
    <3>4. Total(h, 1..k) = 0 + h[1]
      BY <2>2, <2>3, <3>1, <3>3
    <3>5. Total(h, 1..k) = s.dist[hops[k].to]
      BY <3>2, <3>3, <3>4
    <3> QED  BY <2>1, <3>5
  <2>4. CASE m # 0
    <3>1. m \in 1..n /\ k \in 2..n
      BY <1>1, <2>1, <2>4
    <3>2. Total(h, 1..m) = s.dist[hops[m].to]
      BY <1>8, <2>1, <3>1
    <3>3. hops[m].to = hops[k].from
      BY <1>4, <3>1
    <3>4. s.dist[hops[k].to] = s.dist[hops[k].from] + h[k]
      BY <1>5, <1>6
    <3> QED  BY <2>1, <2>2, <3>2, <3>3, <3>4
  <2> QED  BY <2>3, <2>4
<1>9. n \in X
  <2>1. g[0] \in X
    BY <1>1
  <2>2. \A k \in 0..n : g[k] \in X
    <3> HIDE DEF g, X
    <3> QED  BY <1>1, <1>8, <2>1, StepByStep
  <2>3. n \in 0..n
    BY <1>1
  <2> HIDE DEF X
  <2> QED  BY <2>2, <2>3
<1>10. Total(h, 1..n) = s.dist[dst]
  BY <1>1, <1>2, <1>3, <1>9
<1> QED  BY <1>7, <1>10 DEF n

\* From the end of the first hop it is no further than the other hops say.
LEMMA NextHopIsCloser ==
    ASSUME LinksKept, NEW src \in Peers, NEW dst \in Peers, NEW W,
           NEW s, SearchKept(s, src, W), src # dst,
           NEW hops, HopsKept(s, dst, hops), Begins(hops, dst) = src
    PROVE  /\ hops[1].to \in Peers /\ dst \in DOMAIN s.dist
           /\ shortest_path(hops[1].to, dst).total_cost < s.dist[dst]
<1> DEFINE n == Len(hops)
           u == hops[1].to
           N == Cardinality(Peers)
           c == s.dist[dst] - s.dist[u]
<1>1. /\ n \in 1..(N - 1) /\ N \in Nat
      /\ hops[1] \in edges /\ hops[1].from = src /\ hops[n].to = dst
      /\ \A k \in 1..n : /\ hops[k] \in edges /\ hops[k].to \in DOMAIN s.dist
                         /\ hops[k].from \in DOMAIN s.dist
                         /\ s.dist[hops[k].to] = s.dist[hops[k].from] + hops[k].cost
      /\ \A k \in 2..n : hops[k - 1].to = hops[k].from
  BY HopsLead, IslandFacts
<1>2. u \in Peers /\ hops[1].cost \in Nat /\ hops[1].cost > 0
  BY <1>1, LinkFields
<1>3. s.dist[src] = 0 /\ s \in Searches /\ \A v \in DOMAIN s.dist : s.dist[v] \in Nat
  BY SearchFields DEF SearchKept
<1>4. 1 \in 1..n /\ n \in 1..n /\ n \in Nat /\ n - 1 \in 0..N /\ N - 1 \in 0..N /\ n - 1 <= N - 1
  BY <1>1
<1>5. s.dist[u] = hops[1].cost /\ dst \in DOMAIN s.dist /\ u \in DOMAIN s.dist
  <2>1. s.dist[u] = s.dist[src] + hops[1].cost /\ dst \in DOMAIN s.dist /\ u \in DOMAIN s.dist
    BY <1>1, <1>4
  <2> QED  BY <1>2, <1>3, <2>1
<1>6. PICK V : Walked(V, u) /\ Cheapest(u, dst) = V[N - 1][dst]
  BY <1>2, CheapestWalks
<1> HIDE DEF n, N
<1> DEFINE X == {k \in Nat : k >= 1 /\ k <= n => s.dist[hops[k].to] - s.dist[u] \in V[k - 1][hops[k].to]}
           g == [k \in 0..n |-> k]
<1>7. ASSUME NEW k \in 1..n, g[k - 1] \in X PROVE g[k] \in X
  <2> DEFINE m == k - 1
             d == s.dist[hops[k].to] - s.dist[u]
  <2>1. m \in Nat /\ k = m + 1 /\ m <= n /\ g[m] = m /\ g[k] = k /\ k \in Nat
    BY <1>4, <1>7
  <2>2. CASE m = 0
    <3>1. k = 1 /\ d = 0
      <4>1. k = 1
        BY <2>1, <2>2
      <4> QED  BY <1>3, <1>5, <4>1
    <3>2. 0 \in V[0][u]
      BY <1>2, <1>6 DEF Walked, AtHome
    <3> QED  BY <2>1, <2>2, <3>1, <3>2
  <2>3. CASE m # 0
    <3>1. m \in 1..n /\ k \in 2..n /\ m - 1 \in Nat
      BY <1>4, <2>1, <2>3
    <3> DEFINE b == s.dist[hops[m].to] - s.dist[u]
               e == hops[k]
    <3>2. b \in V[m - 1][hops[m].to]
      BY <1>7, <2>1, <3>1
    <3>3. hops[m].to = e.from /\ e \in edges
      BY <1>1, <3>1
    <3>4. d = b + e.cost
      <4>1. s.dist[e.to] = s.dist[e.from] + e.cost /\ e.from \in DOMAIN s.dist /\ e.to \in DOMAIN s.dist
        BY <1>1
      <4>2. s.dist[e.to] \in Nat /\ s.dist[e.from] \in Nat /\ s.dist[u] \in Nat /\ e.cost \in Nat
        BY <1>3, <1>5, <3>3, <4>1, LinkFields
      <4> HIDE DEF e
      <4> QED  BY <3>3, <4>1, <4>2 DEF e
    <3>5. m \in 1..Cardinality(Peers)
      BY <1>1, <3>1 DEF n, N
    <3> HIDE DEF b, e, m
    <3>6. b + e.cost \in V[m][e.to]
      BY <1>2, <1>6, <3>2, <3>3, <3>5, OneHopMore
    <3> QED  BY <2>1, <3>4, <3>6 DEF e, m
  <2> QED  BY <2>2, <2>3
<1>8. n \in X
  <2>1. g[0] \in X
    BY <1>4
  <2>2. \A k \in 0..n : g[k] \in X
    <3> HIDE DEF g, X
    <3> QED  BY <1>4, <1>7, <2>1, StepByStep
  <2>3. n \in 0..n
    BY <1>4
  <2> HIDE DEF X
  <2> QED  BY <2>2, <2>3
<1>9. c \in Cheapest(u, dst)
  <2>1. c \in V[n - 1][dst]
    BY <1>1, <1>4, <1>8
  <2> DEFINE a == n - 1
             b == N - 1
  <2>2. a \in 0..Cardinality(Peers) /\ b \in 0..Cardinality(Peers) /\ a <= b
    BY <1>4 DEF N
  <2> HIDE DEF a, b, c
  <2>3. V[a][dst] \subseteq V[b][dst]
    BY <1>2, <1>6, <2>2, WalksGrow
  <2> QED  BY <1>6, <2>1, <2>3 DEF a, b
<1> HIDE DEF c
<1>10. shortest_path(u, dst).total_cost \in Nat /\ shortest_path(u, dst).total_cost <= c /\ c \in Nat
  BY <1>2, <1>9, CostIsLeast
<1>11. c < s.dist[dst]
  BY <1>2, <1>3, <1>5 DEF c
<1>12. shortest_path(u, dst).total_cost < s.dist[dst]
  BY <1>3, <1>5, <1>10, <1>11
<1> QED  BY <1>2, <1>5, <1>12

\* PathIsCheapest says no more than that: every path found is a cheapest one.
LEMMA PathsAreCheapest ==
    ASSUME LinksKept, NEW src \in Peers, NEW dst \in Peers
    PROVE  PathIsCheapest(src, dst)
<1> DEFINE p == shortest_path(src, dst)
           there == Cheapest(src, dst)
           s == Explored(src, dst)
<1>1. /\ p = NoPath <=> there = {}
      /\ there # {} => p.total_cost = Min(there)
  BY CostIsLeast
<1>2. ASSUME p.total_cost > 0
      PROVE  /\ p.hops[1].from = src /\ Last(p.hops).to = dst
             /\ \A k \in 2..Len(p.hops) : p.hops[k - 1].to = p.hops[k].from
             /\ MapThenSumSet(LAMBDA k : p.hops[k].cost, DOMAIN p.hops) = p.total_cost
             /\ shortest_path(next_hop(src, dst), dst).total_cost < p.total_cost
  <2>1. src # dst
    <3> SUFFICES ASSUME src = dst PROVE FALSE
      OBVIOUS
    <3>1. p.total_cost = 0
      BY DEF shortest_path
    <3> HIDE DEF p
    <3> QED  BY <1>2, <3>1
  <2>2. dst \in DOMAIN s.dist
    <3> SUFFICES ASSUME dst \notin DOMAIN s.dist PROVE FALSE
      OBVIOUS
    <3>1. p.total_cost = -1
      BY <2>1 DEF shortest_path, NoPath
    <3> HIDE DEF p
    <3> QED  BY <1>2, <3>1
  <2>3. PICK W : Walked(W, src)
    BY CheapestWalks
  <2>4. SearchKept(s, src, W)
    BY <2>3, ExploredEnds
  <2>5. /\ p = [total_cost |-> s.dist[dst], hops |-> p.hops]
        /\ HopsKept(s, dst, p.hops) /\ Begins(p.hops, dst) = src
    BY <2>1, <2>2, <2>4, PathIsGathered
  <2> DEFINE hops == p.hops
  <2>6. p.total_cost = s.dist[dst]
    <3> HIDE DEF p
    <3> QED  BY <2>5
  <2>7. next_hop(src, dst) = Head(hops).to
    BY DEF next_hop
  <2> HIDE DEF s, hops, p
  <2>8. HopsKept(s, dst, hops) /\ Begins(hops, dst) = src
    BY <2>5 DEF hops
  <2>9. /\ hops[1].from = src /\ Head(hops) = hops[1] /\ hops[Len(hops)].to = dst
        /\ \A k \in 2..Len(hops) : hops[k - 1].to = hops[k].from
    BY <2>1, <2>4, <2>8, HopsLead
  <2>14. MapThenSumSet(LAMBDA k : hops[k].cost, DOMAIN hops) = s.dist[dst]
    BY <2>1, <2>4, <2>8, HopsAddUp
  <2>10. shortest_path(hops[1].to, dst).total_cost < s.dist[dst]
    BY <2>1, <2>4, <2>8, NextHopIsCloser
  <2>11. Last(hops) = hops[Len(hops)]
    BY DEF Last
  <2>12. MapThenSumSet(LAMBDA k : p.hops[k].cost, DOMAIN p.hops) = p.total_cost
    BY <2>6, <2>14 DEF hops
  <2>13. shortest_path(next_hop(src, dst), dst).total_cost < p.total_cost
    BY <2>6, <2>7, <2>9, <2>10
  <2> QED  BY <2>9, <2>11, <2>12, <2>13 DEF hops
<1> HIDE DEF p, there
<1>3. /\ p = NoPath <=> there = {}
      /\ there # {} => p.total_cost = Min(there)
      /\ p.total_cost > 0 =>
              /\ p.hops[1].from = src /\ Last(p.hops).to = dst
              /\ \A k \in 2..Len(p.hops) : p.hops[k - 1].to = p.hops[k].from
              /\ MapThenSumSet(LAMBDA k : p.hops[k].cost, DOMAIN p.hops) = p.total_cost
              /\ shortest_path(next_hop(src, dst), dst).total_cost < p.total_cost
  BY <1>1, <1>2
<1> QED  BY <1>3 DEF PathIsCheapest, p, there

-----------------------------------------------------------------------------
(***************************************************************************)
(* Lookups.  Of two ids the one that agrees with the target in the highest *)
(* bit they differ in is the closer one, so every set of ids has one closest*)
(* order and the closest of all are found among the closest of its parts.  A*)
(* lookup has heard what everybody it asked knows, and stays among the ids *)
(* that the tables lead to.                                                *)
(***************************************************************************)

\* The highest bit two ids differ in.
Differ(p, c, d) ==
    /\ p \in BitIndexes /\ ~(p \in c <=> p \in d)
    /\ \A x \in BitIndexes : x > p => (x \in c <=> x \in d)

\* Two ids differ somewhere, so in a highest bit.
LEMMA HighestBit ==
    ASSUME NEW c \in NodeIds, NEW d \in NodeIds, c # d
    PROVE  Differ(Max(xor_distance(c, d)), c, d)
<1> DEFINE e == xor_distance(c, d)
           T == {Bits - x : x \in e}
<1>1. e \subseteq BitIndexes /\ e # {} /\ c \subseteq BitIndexes /\ d \subseteq BitIndexes
  BY DEF xor_distance, NodeIds
<1>2. \A x : x \in e <=> ~(x \in c <=> x \in d)
  BY DEF xor_distance
<1> HIDE DEF e
<1>3. T \subseteq Nat /\ T # {}
  <2>1. \A z \in e : Bits - z \in Nat
    <3>1. \A z \in BitIndexes : Bits - z \in Nat
      BY TableSizes DEF BitIndexes
    <3> QED  BY <1>1, <3>1
  <2> QED  BY <1>1, <2>1
<1>4. PICK t \in T : \A u \in T : t <= u
  <2> HIDE DEF T
  <2> QED  BY <1>3, LeastNumber
<1>5. PICK x \in e : t = Bits - x
  OBVIOUS
<1>6. \A y \in e : x >= y
  <2> SUFFICES ASSUME NEW y \in e PROVE x >= y
    OBVIOUS
  <2>1. Bits - y \in T
    OBVIOUS
  <2>2. t <= Bits - y
    <3> HIDE DEF T
    <3> QED  BY <1>4, <2>1
  <2> QED  BY <1>1, <1>5, <2>2, TableSizes DEF BitIndexes
<1>7. Max(e) \in e /\ \A y \in e : Max(e) >= y
  BY <1>6 DEF Max
<1>8. ASSUME NEW y \in BitIndexes, y > Max(e) PROVE y \in c <=> y \in d
  <2>1. y \notin e
    <3> SUFFICES ASSUME y \in e PROVE FALSE
      OBVIOUS
    <3>1. Max(e) >= y /\ Max(e) \in Int /\ y \in Int
      <4>1. \A z \in BitIndexes : z \in Int
        BY TableSizes DEF BitIndexes
      <4> QED  BY <1>1, <1>7, <4>1
    <3> HIDE DEF e
    <3> QED  BY <1>8, <3>1
  <2> QED  BY <1>2, <2>1
<1>9. Max(e) \in BitIndexes /\ ~(Max(e) \in c <=> Max(e) \in d)
  BY <1>1, <1>2, <1>7
<1> QED  BY <1>8, <1>9 DEF Differ, e

\* There is one such bit.
LEMMA OneHighestBit ==
    ASSUME NEW c, NEW d, NEW p, NEW q, Differ(p, c, d), Differ(q, c, d)
    PROVE  p = q
<1>1. p \in Int /\ q \in Int
  BY TableSizes DEF Differ, BitIndexes
<1>2. ~(p > q) /\ ~(q > p)
  BY DEF Differ
<1> QED  BY <1>1, <1>2

\* The closer of two ids agrees with the target in that bit.
LEMMA CloserByBit ==
    ASSUME NEW t \in NodeIds, NEW c \in NodeIds, NEW d \in NodeIds
    PROVE  is_closer(t, c, d) <=> \E p : Differ(p, c, d) /\ (p \in c <=> p \in t)
<1> DEFINE a == xor_distance(t, c)
           b == xor_distance(t, d)
           e == xor_distance(c, d)
           p == Max(e)
<1>1. xor_distance(a, b) = e /\ (a = b <=> c = d)
  BY DEF xor_distance
<1>2. \A x : x \in b <=> ~(x \in t <=> x \in d)
  BY DEF xor_distance
<1> HIDE DEF a, b, e
<1>3. is_closer(t, c, d) <=> c # d /\ p \in b
  BY <1>1 DEF is_closer, cmp_distance, a, b
<1>4. CASE c = d
  BY <1>3, <1>4 DEF Differ
<1>5. CASE c # d
  <2>1. Differ(p, c, d)
    BY <1>5, HighestBit DEF e
  <2> HIDE DEF p
  <2>2. p \in b <=> (p \in c <=> p \in t)
    BY <1>2, <2>1 DEF Differ
  <2> QED  BY <1>3, <1>5, <2>1, <2>2, OneHighestBit
<1> QED  BY <1>4, <1>5

\* Being closer orders the ids.
LEMMA CloserOrders ==
    ASSUME NEW t \in NodeIds
    PROVE  /\ \A c \in NodeIds : ~is_closer(t, c, c) /\ ~is_closer(t, c, t)
           /\ \A c, d \in NodeIds : c # d => is_closer(t, c, d) \/ is_closer(t, d, c)
           /\ \A a, b, c \in NodeIds :
                 is_closer(t, a, b) /\ is_closer(t, b, c) => is_closer(t, a, c)
<1>1. ASSUME NEW c \in NodeIds PROVE ~is_closer(t, c, c) /\ ~is_closer(t, c, t)
  BY CloserByBit DEF Differ
<1>2. ASSUME NEW c \in NodeIds, NEW d \in NodeIds, c # d
      PROVE  is_closer(t, c, d) \/ is_closer(t, d, c)
  <2> DEFINE p == Max(xor_distance(c, d))
  <2>1. Differ(p, c, d)
    BY <1>2, HighestBit
  <2> HIDE DEF p
  <2>2. Differ(p, d, c)
    BY <2>1 DEF Differ
  <2>3. (p \in c <=> p \in t) \/ (p \in d <=> p \in t)
    BY <2>1 DEF Differ
  <2> QED  BY <2>1, <2>2, <2>3, CloserByBit
<1>3. ASSUME NEW a \in NodeIds, NEW b \in NodeIds, NEW c \in NodeIds,
             is_closer(t, a, b), is_closer(t, b, c)
      PROVE  is_closer(t, a, c)
  <2>1. PICK p : Differ(p, a, b) /\ (p \in a <=> p \in t)
    BY <1>3, CloserByBit
  <2>2. PICK q : Differ(q, b, c) /\ (q \in b <=> q \in t)
    BY <1>3, CloserByBit
  <2>3. p \in Int /\ q \in Int /\ p \in BitIndexes /\ q \in BitIndexes
    BY <2>1, <2>2, TableSizes DEF Differ, BitIndexes
  <2>4. p # q
    BY <2>1, <2>2 DEF Differ
  <2>5. CASE p > q
    <3>1. p \in b <=> p \in c
      BY <2>2, <2>3, <2>5 DEF Differ
    <3>2. \A x \in BitIndexes : x > p => (x \in b <=> x \in c)
      <4>1. \A x \in BitIndexes : x \in Int
        BY TableSizes DEF BitIndexes
      <4>2. \A x \in BitIndexes : x > p => x > q
        BY <2>3, <2>5, <4>1
      <4> QED  BY <2>2, <4>2 DEF Differ
    <3>3. Differ(p, a, c)
      BY <2>1, <2>3, <3>1, <3>2 DEF Differ
    <3> QED  BY <2>1, <3>3, CloserByBit
  <2>6. CASE q > p
    <3>1. q \in a <=> q \in b
      BY <2>1, <2>3, <2>6 DEF Differ
    <3>2. \A x \in BitIndexes : x > q => (x \in a <=> x \in b)
      <4>1. \A x \in BitIndexes : x \in Int
        BY TableSizes DEF BitIndexes
      <4>2. \A x \in BitIndexes : x > q => x > p
        BY <2>3, <2>6, <4>1
      <4> QED  BY <2>1, <4>2 DEF Differ
    <3>3. Differ(q, a, c)
      BY <2>2, <2>3, <3>1, <3>2 DEF Differ
    <3> QED  BY <2>2, <3>1, <3>3, CloserByBit
  <2> QED  BY <2>3, <2>4, <2>5, <2>6
<1> QED  BY <1>1, <1>2, <1>3

\* The ids of a set that are closer to the target than one.
Nearer(A, t, c) == {d \in A : is_closer(t, d, c)}

\* Sets of ids.
SomeIds(A) == A \subseteq NodeIds /\ IsFiniteSet(A)

\* They are finitely many.
LEMMA NearerAreFew ==
    ASSUME NEW A, SomeIds(A), NEW t, NEW c
    PROVE  IsFiniteSet(Nearer(A, t, c)) /\ Cardinality(Nearer(A, t, c)) \in Nat
<1>1. Nearer(A, t, c) \subseteq A
  BY DEF Nearer
<1> QED  BY <1>1, FS_Subset, FS_CardinalityType DEF SomeIds

\* In a set that is not empty one is the closest.
LEMMA OneIsClosest ==
    ASSUME NEW A, SomeIds(A), A # {}, NEW t \in NodeIds
    PROVE  \E x \in A : \A y \in A \ {x} : is_closer(t, x, y)
<1> DEFINE R == {z \in A \X A : is_closer(t, z[1], z[2])}
<1>1. \A x, y \in A : <<x, y>> \in R <=> is_closer(t, x, y)
  OBVIOUS
<1>2. Orders(R, A)
  <2> HIDE DEF R
  <2>1. A \subseteq NodeIds
    BY DEF SomeIds
  <2>2. \A x, y \in A : x # y => (<<x, y>> \in R \/ <<y, x>> \in R)
    BY <1>1, <2>1, CloserOrders
  <2>3. \A x, y, z \in A : <<x, y>> \in R /\ <<y, z>> \in R => <<x, z>> \in R
    BY <1>1, <2>1, CloserOrders
  <2> QED  BY <2>2, <2>3 DEF Orders
<1> HIDE DEF R
<1>3. \E x \in A : \A y \in A \ {x} : <<x, y>> \in R
  BY <1>2, GreatestExists DEF SomeIds
<1> QED  BY <1>1, <1>3

\* What ClosestOf keeps: of few all, of some at least one, and the target.
LEMMA ClosestKept ==
    ASSUME NEW A, SomeIds(A), NEW t \in NodeIds, NEW n \in Nat
    PROVE  /\ ClosestOf(A, t, n) \subseteq A /\ SomeIds(ClosestOf(A, t, n))
           /\ \A c \in A : c \in ClosestOf(A, t, n) <=> Cardinality(Nearer(A, t, c)) < n
           /\ Cardinality(A) <= n => ClosestOf(A, t, n) = A
           /\ n >= 1 /\ A # {} => ClosestOf(A, t, n) # {}
           /\ n >= 1 => (t \in A <=> t \in ClosestOf(A, t, n))
<1> DEFINE P == ClosestOf(A, t, n)
<1>1. P \subseteq A /\ \A c \in A : c \in P <=> Cardinality(Nearer(A, t, c)) < n
  BY DEF ClosestOf, Nearer
<1>2. A \subseteq NodeIds /\ IsFiniteSet(A) /\ Cardinality(A) \in Nat /\ IsFiniteSet({}) /\ Cardinality({}) = 0
  BY FS_CardinalityType, FS_EmptySet DEF SomeIds
<1>3. SomeIds(P)
  BY <1>1, <1>2, FS_Subset DEF SomeIds
<1> HIDE DEF P
<1>4. ASSUME Cardinality(A) <= n PROVE P = A
  <2> SUFFICES ASSUME NEW c \in A PROVE Cardinality(Nearer(A, t, c)) < n
    BY <1>1
  <2>1. Nearer(A, t, c) \subseteq A \ {c}
    BY <1>2, CloserOrders DEF Nearer
  <2>2. IsFiniteSet(A \ {c}) /\ Cardinality(A \ {c}) = Cardinality(A) - 1
    BY <1>2, FS_RemoveElement
  <2>3. Cardinality(Nearer(A, t, c)) <= Cardinality(A \ {c})
    BY <2>1, <2>2, FS_Subset
  <2> QED  BY <1>2, <1>4, <2>2, <2>3, NearerAreFew
<1>5. ASSUME n >= 1, A # {} PROVE P # {}
  <2>1. PICK x \in A : \A y \in A \ {x} : is_closer(t, x, y)
    BY <1>5, OneIsClosest
  <2>2. Nearer(A, t, x) = {}
    <3> SUFFICES ASSUME NEW y \in A, is_closer(t, y, x) PROVE FALSE
      BY DEF Nearer
    <3>1. y \in NodeIds /\ x \in NodeIds /\ y # x
      BY <1>2, CloserOrders
    <3> QED  BY <2>1, <3>1, CloserOrders
  <2> QED  BY <1>1, <1>2, <1>5, <2>2
<1>6. ASSUME n >= 1, t \in A PROVE t \in P
  <2>1. Nearer(A, t, t) = {}
    BY <1>2, CloserOrders DEF Nearer
  <2> QED  BY <1>1, <1>2, <1>6, <2>1
<1> QED  BY <1>1, <1>3, <1>4, <1>5, <1>6 DEF P

\* The closest of all are found among the closest of a part and the others.
LEMMA ClosestAddUp ==
    ASSUME NEW A, SomeIds(A), NEW B, SomeIds(B), NEW t \in NodeIds, NEW n \in Nat
    PROVE  ClosestOf(ClosestOf(A, t, n) \union B, t, n) = ClosestOf(A \union B, t, n)
<1> DEFINE P == ClosestOf(A, t, n)
           X == P \union B
           Y == A \union B
<1>1. /\ P \subseteq A /\ SomeIds(P)
      /\ \A c \in A : c \in P <=> Cardinality(Nearer(A, t, c)) < n
  BY ClosestKept
<1>2. SomeIds(X) /\ SomeIds(Y) /\ X \subseteq Y
  BY <1>1, FS_Union DEF SomeIds
<1> HIDE DEF P
<1>3. /\ ClosestOf(X, t, n) \subseteq X /\ ClosestOf(Y, t, n) \subseteq Y
      /\ \A c \in X : c \in ClosestOf(X, t, n) <=> Cardinality(Nearer(X, t, c)) < n
      /\ \A c \in Y : c \in ClosestOf(Y, t, n) <=> Cardinality(Nearer(Y, t, c)) < n
  <2> HIDE DEF X, Y
  <2> QED  BY <1>2, ClosestKept
<1>4. ASSUME NEW S, NEW T, SomeIds(T), S \subseteq T, NEW c
      PROVE  /\ Cardinality(Nearer(S, t, c)) <= Cardinality(Nearer(T, t, c))
             /\ Cardinality(Nearer(S, t, c)) \in Nat /\ Cardinality(Nearer(T, t, c)) \in Nat
  <2>1. Nearer(S, t, c) \subseteq Nearer(T, t, c) /\ IsFiniteSet(Nearer(T, t, c))
    BY <1>4, NearerAreFew DEF Nearer
  <2> QED  BY <2>1, FS_Subset, FS_CardinalityType
<1>5. \A c \in X : c \in ClosestOf(Y, t, n) => c \in ClosestOf(X, t, n)
  <2> SUFFICES ASSUME NEW c \in X, c \in ClosestOf(Y, t, n) PROVE c \in ClosestOf(X, t, n)
    OBVIOUS
  <2>1. Cardinality(Nearer(Y, t, c)) < n
    BY <1>2, <1>3
  <2>2. /\ Cardinality(Nearer(X, t, c)) <= Cardinality(Nearer(Y, t, c))
        /\ Cardinality(Nearer(X, t, c)) \in Nat /\ Cardinality(Nearer(Y, t, c)) \in Nat
    <3> HIDE DEF X, Y
    <3> QED  BY <1>2, <1>4
  <2>3. Cardinality(Nearer(X, t, c)) < n
    BY <2>1, <2>2
  <2> QED  BY <1>3, <2>3
<1>6. \A c \in Y : c \in ClosestOf(Y, t, n) => c \in X
  <2> SUFFICES ASSUME NEW c \in A, c \in ClosestOf(Y, t, n) PROVE c \in P
    OBVIOUS
  <2>1. Cardinality(Nearer(Y, t, c)) < n
    BY <1>3
  <2>2. /\ Cardinality(Nearer(A, t, c)) <= Cardinality(Nearer(Y, t, c))
        /\ Cardinality(Nearer(A, t, c)) \in Nat /\ Cardinality(Nearer(Y, t, c)) \in Nat
    <3>1. A \subseteq Y
      OBVIOUS
    <3> HIDE DEF Y
    <3> QED  BY <1>2, <1>4, <3>1
  <2>3. Cardinality(Nearer(A, t, c)) < n
    BY <2>1, <2>2
  <2> QED  BY <1>1, <2>3
<1>7. ASSUME NEW c \in ClosestOf(X, t, n) PROVE c \in ClosestOf(Y, t, n)
  <2>1. c \in X /\ Cardinality(Nearer(X, t, c)) < n
    BY <1>3
  <2> DEFINE out == {d \in A \ P : is_closer(t, d, c)}
  <2>2. out = {}
    <3> SUFFICES ASSUME out # {} PROVE FALSE
      OBVIOUS
    <3>1. SomeIds(out)
      <4>1. out \subseteq A
        OBVIOUS
      <4> HIDE DEF out
      <4> QED  BY <4>1, FS_Subset DEF SomeIds
    <3>2. PICK d \in out : \A y \in out \ {d} : is_closer(t, d, y)
      <4> HIDE DEF out
      <4> QED  BY <3>1, OneIsClosest
    <3>3. Nearer(A, t, d) \subseteq Nearer(X, t, c)
      <4> SUFFICES ASSUME NEW y \in A, is_closer(t, y, d) PROVE y \in X /\ is_closer(t, y, c)
        BY DEF Nearer
      <4>1. y \in NodeIds /\ d \in NodeIds /\ c \in NodeIds
        BY <1>2, <2>1 DEF SomeIds
      <4>2. is_closer(t, y, c)
        BY <4>1, CloserOrders
      <4>3. y # d /\ ~is_closer(t, d, y)
        BY <4>1, CloserOrders
      <4>4. y \notin out
        BY <3>2, <4>3
      <4> QED  BY <4>2, <4>4
    <3>4. /\ Cardinality(Nearer(A, t, d)) <= Cardinality(Nearer(X, t, c))
          /\ Cardinality(Nearer(A, t, d)) \in Nat /\ Cardinality(Nearer(X, t, c)) \in Nat
      <4> HIDE DEF X
      <4>1. IsFiniteSet(Nearer(X, t, c))
        BY <1>2, NearerAreFew
      <4> QED  BY <3>3, <4>1, FS_Subset, FS_CardinalityType
    <3>5. d \in A /\ d \notin P
      OBVIOUS
    <3> HIDE DEF out, X
    <3>6. Cardinality(Nearer(A, t, d)) < n
      BY <2>1, <3>4
    <3> QED  BY <1>1, <3>5, <3>6
  <2>3. Nearer(Y, t, c) = Nearer(X, t, c)
    BY <1>1, <2>2 DEF Nearer
  <2> QED  BY <1>2, <1>3, <2>1, <2>3
<1> HIDE DEF X, Y
<1>8. ClosestOf(X, t, n) = ClosestOf(Y, t, n)
  BY <1>3, <1>5, <1>6, <1>7
<1> QED  BY <1>8 DEF X, Y, P

\* The ids of the nodes; so few that a bucket holds all that a node can know.
IslandIds == {IdOf(n) : n \in Peers}
FewNodes == Cardinality(Peers) <= K + 1

\* There are as many ids as nodes.
LEMMA IdsAreFew ==
    /\ SomeIds(IslandIds) /\ Cardinality(IslandIds) = Cardinality(Peers)
    /\ \A n \in Peers : IdOf(n) \in IslandIds /\ NodeOf(IdOf(n)) = n
    /\ \A p \in IslandIds : NodeOf(p) \in Peers /\ IdOf(NodeOf(p)) = p
<1> DEFINE f == [n \in Peers |-> IdOf(n)]
<1>1. f \in Bijection(Peers, IslandIds)
  <2>1. f \in [Peers -> IslandIds] /\ \A p \in IslandIds : \E n \in Peers : f[n] = p
    BY DEF IslandIds
  <2>2. \A m, n \in Peers : f[m] = f[n] => m = n
    BY IslandFacts
  <2> HIDE DEF f
  <2> QED  BY <2>1, <2>2 DEF Bijection, Injection, Surjection, IsInjective
<1>2. IsFiniteSet(IslandIds) /\ Cardinality(IslandIds) = Cardinality(Peers)
  BY <1>1, IslandFacts, FS_Bijection DEF ExistsBijection
<1>3. IslandIds \subseteq NodeIds
  BY IslandFacts DEF IslandIds
<1>4. \A n \in Peers : NodeOf(IdOf(n)) = n
  BY IslandFacts DEF NodeOf
<1> QED  BY <1>2, <1>3, <1>4 DEF SomeIds, IslandIds

\* What is true of the tables.
TablesKept ==
    \A n \in Peers : /\ RoutesKept(tables[n]) /\ tables[n].local_id = IdOf(n)
                     /\ Contacts(tables[n]) \subseteq IslandIds

\* The contacts of the node with an id.
KnownAt(id) == Contacts(tables[NodeOf(id)])

\* No table holds its own node.
LEMMA KnownAreOthers ==
    ASSUME TablesKept, NEW p \in IslandIds
    PROVE  /\ KnownAt(p) \subseteq IslandIds \ {p} /\ SomeIds(KnownAt(p))
           /\ FewNodes => Cardinality(KnownAt(p)) <= K
<1> DEFINE t == tables[NodeOf(p)]
<1>1. RoutesKept(t) /\ t.local_id = p /\ KnownAt(p) \subseteq IslandIds
  BY IdsAreFew DEF TablesKept, KnownAt
<1> HIDE DEF t
<1>2. ASSUME NEW b \in BitIndexes, NEW c \in ToSet(t.buckets[b]) PROVE c.id # p
  <2> DEFINE s == t.buckets[b]
  <2>1. BucketKept(s, b, p, t.tick)
    BY <1>1 DEF RoutesKept
  <2> HIDE DEF s
  <2>2. \A k \in 1..Len(s) : s[k].id # p
    BY <2>1 DEF BucketKept
  <2>3. DOMAIN s = 1..Len(s)
    BY <2>1, LenProperties DEF BucketKept
  <2> QED  BY <2>2, <2>3 DEF ToSet, s
<1>3. p \notin Contacts(t)
  BY <1>2 DEF Contacts
<1>4. KnownAt(p) \subseteq IslandIds \ {p}
  BY <1>1, <1>3 DEF KnownAt, t
<1>5. SomeIds(IslandIds)
  BY IdsAreFew
<1> DEFINE o == IslandIds \ {p}
<1>6. IsFiniteSet(o) /\ Cardinality(o) = Cardinality(Peers) - 1
  BY <1>5, IdsAreFew, FS_RemoveElement DEF SomeIds
<1> HIDE DEF o
<1>7. IsFiniteSet(KnownAt(p)) /\ Cardinality(KnownAt(p)) <= Cardinality(o) /\ Cardinality(KnownAt(p)) \in Nat
  BY <1>4, <1>6, FS_Subset, FS_CardinalityType DEF o
<1>8. FewNodes => Cardinality(KnownAt(p)) <= K
  BY <1>6, <1>7, IslandFacts DEF FewNodes
<1> QED  BY <1>4, <1>5, <1>7, <1>8 DEF SomeIds

\* The states of a lookup are such records.
Lookups == [local : IslandIds, target : IslandIds, shortlist : SUBSET IslandIds,
            queried : SUBSET IslandIds, heard : SUBSET IslandIds, found : BOOLEAN,
            rounds : Nat, done : BOOLEAN]

\* A set of ids that the tables do not lead out of.
LeadsTo(R, a) == R \subseteq IslandIds /\ a \in R /\ \A p \in R : KnownAt(p) \subseteq R

\* What is true of a lookup.
LookupKept(l, R) ==
    /\ l \in Lookups
    /\ l.shortlist = ClosestOf(l.heard, l.target, K)
    /\ l.found <=> l.target \in l.heard
    /\ l.done /\ l.rounds <= MaxRounds => l.shortlist \subseteq l.queried
    /\ l.heard \subseteq R \ {l.local} /\ l.local \in l.queried
    /\ FewNodes => /\ \A p \in l.queried : KnownAt(p) \ {l.local} \subseteq l.heard
                   /\ l.done => l.shortlist \subseteq l.queried
                   /\ ~l.done => Cardinality(l.queried) >= l.rounds + 1

\* What the nodes answer when they are asked for a target, a round of a lookup
\* that hears these answers, and what is heard in it.
Answers(target) == [p \in IslandIds |-> closest(tables[NodeOf(p)], target, K)]
Asking(l, answers) == Round(l, [p \in Batch(l) |-> answers[p]])

AnswersFrom(b, target) == UNION {Answers(target)[p] : p \in b}

\* What is heard from those that are asked.
LEMMA AnswersOfAll ==
    ASSUME TablesKept, NEW t \in IslandIds, NEW b \in SUBSET IslandIds, NEW R, NEW a, LeadsTo(R, a),
           b \subseteq R
    PROVE  /\ AnswersFrom(b, t) \subseteq R
           /\ FewNodes => \A p \in b : KnownAt(p) \subseteq AnswersFrom(b, t)
<1> DEFINE r == Answers(t)
           h == AnswersFrom(b, t)
<1>1. ASSUME NEW p \in b
      PROVE  r[p] \subseteq KnownAt(p) /\ (FewNodes => r[p] = KnownAt(p))
  <2>1. r[p] = ClosestOf(KnownAt(p), t, K)
    BY DEF Answers, closest, KnownAt
  <2>2. SomeIds(KnownAt(p)) /\ (FewNodes => Cardinality(KnownAt(p)) <= K)
    BY KnownAreOthers
  <2>3. t \in NodeIds /\ K \in Nat
    BY IdsAreFew, IslandFacts DEF SomeIds
  <2> QED  BY <2>1, <2>2, <2>3, ClosestKept
<1>2. h = UNION {r[p] : p \in b}
  BY DEF AnswersFrom
<1> HIDE DEF r, h
<1>3. h \subseteq R
  BY <1>1, <1>2 DEF LeadsTo
<1>4. FewNodes => \A p \in b : KnownAt(p) \subseteq h
  BY <1>1, <1>2
<1> QED  BY <1>3, <1>4 DEF h

\* A round of a lookup.
LEMMA AskingKeeps ==
    ASSUME TablesKept, NEW R, NEW l, LeadsTo(R, l.local), LookupKept(l, R), ~l.done
    PROVE  LET m == Asking(l, Answers(l.target))
           IN  /\ LookupKept(m, R) /\ m.target = l.target /\ m.local = l.local
               /\ m.rounds = l.rounds + 1
<1> DEFINE a == l.local
           t == l.target
           b == Batch(l)
           r == [p \in b |-> Answers(t)[p]]
           h == (UNION {r[p] : p \in b}) \ {a}
           kept == ClosestOf(l.shortlist \union h, t, K)
           m == Asking(l, Answers(t))
           sofar == l.heard
           asked == l.queried
           listed == l.shortlist
<1>1. /\ l \in Lookups /\ a \in IslandIds /\ t \in IslandIds /\ t \in NodeIds
      /\ listed \subseteq IslandIds /\ asked \subseteq IslandIds /\ sofar \subseteq IslandIds
      /\ l.rounds \in Nat
  <2>1. l \in Lookups
    BY DEF LookupKept
  <2>2. /\ a \in IslandIds /\ t \in IslandIds /\ listed \subseteq IslandIds
        /\ asked \subseteq IslandIds /\ sofar \subseteq IslandIds /\ l.rounds \in Nat
    BY <2>1 DEF Lookups
  <2> QED  BY <2>1, <2>2, IdsAreFew DEF SomeIds
<1>2. /\ listed = ClosestOf(sofar, t, K) /\ (l.found <=> t \in sofar)
      /\ sofar \subseteq R \ {a} /\ a \in asked
      /\ FewNodes => /\ \A p \in asked : KnownAt(p) \ {a} \subseteq sofar
                     /\ Cardinality(asked) >= l.rounds + 1
  BY DEF LookupKept
<1>3. /\ SomeIds(IslandIds) /\ Cardinality(IslandIds) = Cardinality(Peers)
      /\ \A A : A \subseteq IslandIds => SomeIds(A) /\ Cardinality(A) \in Nat
  <2>1. SomeIds(IslandIds) /\ Cardinality(IslandIds) = Cardinality(Peers)
    BY IdsAreFew
  <2>2. ASSUME NEW A, A \subseteq IslandIds PROVE SomeIds(A) /\ Cardinality(A) \in Nat
    <3>1. IsFiniteSet(A) /\ A \subseteq NodeIds
      BY <2>1, <2>2, FS_Subset DEF SomeIds
    <3> QED  BY <3>1, FS_CardinalityType DEF SomeIds
  <2> QED  BY <2>1, <2>2
<1>4. K \in Nat /\ ALPHA \in Nat /\ K >= 1 /\ ALPHA >= 1 /\ MaxRounds \in Nat /\ K <= MaxRounds
      /\ Cardinality(Peers) \in Nat
  BY IslandFacts
<1> HIDE DEF sofar, asked, listed, t, a
<1>5. listed \subseteq sofar /\ b \subseteq listed \ asked /\ (b = {} => listed \subseteq asked)
  <2>1. listed \subseteq sofar
    BY <1>1, <1>2, <1>3, <1>4, ClosestKept
  <2> DEFINE u == listed \ asked
  <2>2. SomeIds(u)
    BY <1>1, <1>3
  <2>3. b = ClosestOf(u, t, ALPHA)
    BY DEF Batch, Unqueried, listed, asked, t
  <2> HIDE DEF u, b
  <2>4. b \subseteq u /\ (u # {} => b # {})
    BY <1>1, <1>4, <2>2, <2>3, ClosestKept
  <2> QED  BY <2>1, <2>4 DEF u
<1>6. b \subseteq R /\ b \subseteq IslandIds
  BY <1>1, <1>2, <1>5
<1>7. h \subseteq R \ {a} /\ (FewNodes => \A p \in b : KnownAt(p) \ {a} \subseteq h)
  <2> HIDE DEF b
  <2>1. /\ AnswersFrom(b, t) \subseteq R
        /\ FewNodes => \A p \in b : KnownAt(p) \subseteq AnswersFrom(b, t)
    BY <1>1, <1>6, AnswersOfAll
  <2>2. h = AnswersFrom(b, t) \ {a}
    <3> DEFINE f == Answers(t)
    <3> HIDE DEF f
    <3>1. \A p \in b : r[p] = f[p]
      BY DEF f
    <3> HIDE DEF r
    <3>2. {r[p] : p \in b} = {f[p] : p \in b}
      BY <3>1
    <3>3. AnswersFrom(b, t) = UNION {f[p] : p \in b}
      BY DEF AnswersFrom, f
    <3> QED  BY <3>2, <3>3
  <2> HIDE DEF h
  <2> QED  BY <2>1, <2>2
<1>8. m = IF b = {} THEN [l EXCEPT !.rounds = @ + 1, !.done = TRUE]
          ELSE [l EXCEPT !.rounds = @ + 1, !.queried = @ \union b, !.shortlist = kept,
                         !.heard = @ \union h, !.found = @ \/ t \in h,
                         !.done = \/ ~Improved(t, listed, kept) /\ kept \subseteq asked \union b
                                  \/ l.rounds + 1 > MaxRounds]
  BY DEF Asking, Round, t, a, listed, asked
<1> HIDE DEF b, h, kept, m
<1>9. CASE b = {}
  <2>1. m = [l EXCEPT !.rounds = l.rounds + 1, !.done = TRUE]
    BY <1>8, <1>9
  <2>2. /\ m \in Lookups /\ m.rounds = l.rounds + 1 /\ m.done /\ m.target = t /\ m.local = a
        /\ m.shortlist = listed /\ m.queried = asked /\ m.heard = sofar /\ m.found = l.found
    <3> DEFINE n == l.rounds + 1
    <3>1. n \in Nat /\ TRUE \in BOOLEAN /\ m = [l EXCEPT !.rounds = n, !.done = TRUE]
      BY <1>1, <2>1
    <3> HIDE DEF n
    <3>2. m \in Lookups /\ m.rounds = n /\ m.done = TRUE /\ m.target = l.target /\ m.local = l.local
      BY <1>1, <3>1 DEF Lookups
    <3>3. m.shortlist = l.shortlist /\ m.queried = l.queried /\ m.heard = l.heard /\ m.found = l.found
      BY <1>1, <3>1 DEF Lookups
    <3> QED  BY <3>2, <3>3 DEF n, listed, asked, sofar, t, a
  <2>3. LookupKept(m, R)
    BY <1>2, <1>5, <1>9, <2>2 DEF LookupKept
  <2> QED  BY <2>2, <2>3 DEF m, t, a
<1>10. CASE b # {}
  <2> DEFINE ends == \/ ~Improved(t, listed, kept) /\ kept \subseteq asked \union b
                     \/ l.rounds + 1 > MaxRounds
             names == l.found \/ t \in h
             found == IF names THEN TRUE ELSE FALSE
             done == IF ends THEN TRUE ELSE FALSE
  <2>1. R \subseteq IslandIds
    BY DEF LeadsTo
  <2>2. h \subseteq IslandIds
    BY <1>7, <2>1
  <2>3. kept = ClosestOf(sofar \union h, t, K) /\ kept \subseteq IslandIds
    <3>1. kept = ClosestOf(listed \union h, t, K)
      BY DEF kept, listed
    <3>2. SomeIds(sofar) /\ SomeIds(h) /\ SomeIds(sofar \union h) /\ sofar \union h \subseteq IslandIds
      BY <1>1, <1>3, <2>2
    <3>3. kept = ClosestOf(sofar \union h, t, K)
      BY <1>1, <1>2, <1>4, <3>1, <3>2, ClosestAddUp
    <3> DEFINE both == sofar \union h
    <3> HIDE DEF both
    <3>4. ClosestOf(both, t, K) \subseteq both
      BY <1>1, <1>4, <3>2, ClosestKept DEF both
    <3> QED  BY <3>2, <3>3, <3>4 DEF both
  <2>4. m = [l EXCEPT !.rounds = l.rounds + 1, !.queried = asked \union b, !.shortlist = kept,
                      !.heard = sofar \union h, !.found = found, !.done = done]
    <3>1. l.found \in BOOLEAN
      BY <1>1 DEF Lookups
    <3>2. found = (l.found \/ t \in h)
      BY <3>1
    <3>3. done = (\/ ~Improved(t, listed, kept) /\ kept \subseteq asked \union b
                  \/ l.rounds + 1 > MaxRounds)
      OBVIOUS
    <3> HIDE DEF found, done
    <3> QED  BY <1>8, <1>10, <3>2, <3>3 DEF asked, sofar
  <2>5. found \in BOOLEAN /\ done \in BOOLEAN /\ (found <=> l.found \/ t \in h) /\ (done <=> ends)
    OBVIOUS
  <2> HIDE DEF found, done
  <2>6. /\ m \in Lookups /\ m.rounds = l.rounds + 1 /\ m.done = done /\ m.target = t /\ m.local = a
        /\ m.shortlist = kept /\ m.queried = asked \union b /\ m.heard = sofar \union h
        /\ m.found = found
    <3> DEFINE n == l.rounds + 1
               q == asked \union b
               s == sofar \union h
    <3>1. n \in Nat /\ q \subseteq IslandIds /\ s \subseteq IslandIds
      BY <1>1, <1>6, <2>2
    <3>2. m = [l EXCEPT !.rounds = n, !.queried = q, !.shortlist = kept, !.heard = s,
                        !.found = found, !.done = done]
      BY <2>4
    <3> HIDE DEF n, q, s, ends
    <3>3. /\ m \in Lookups /\ m.rounds = n /\ m.done = done /\ m.target = t /\ m.local = a
          /\ m.shortlist = kept /\ m.queried = q /\ m.heard = s /\ m.found = found
      BY <1>1, <2>3, <2>5, <3>1, <3>2 DEF Lookups, t, a
    <3> QED  BY <3>3 DEF n, q, s
  <2>7. m.found <=> t \in sofar \union h
    BY <1>2, <2>5, <2>6
  <2>8. ends /\ l.rounds + 1 <= MaxRounds => kept \subseteq asked \union b
    BY <1>1, <1>4
  <2>9. ASSUME FewNodes
        PROVE  /\ \A p \in asked \union b : KnownAt(p) \ {a} \subseteq sofar \union h
               /\ l.rounds + 1 <= MaxRounds
               /\ Cardinality(asked \union b) >= l.rounds + 2
    <3>1. \A p \in asked \union b : KnownAt(p) \ {a} \subseteq sofar \union h
      BY <1>2, <1>7, <2>9
    <3> DEFINE q == asked \union b
    <3>2. q \subseteq IslandIds /\ asked \subseteq q /\ asked # q
      BY <1>1, <1>5, <1>6, <1>10
    <3> HIDE DEF q
    <3>3. Cardinality(asked) < Cardinality(q) /\ Cardinality(q) <= Cardinality(Peers)
      <4>1. IsFiniteSet(q) /\ IsFiniteSet(IslandIds)
        BY <1>3, <3>2 DEF SomeIds
      <4>2. Cardinality(asked) <= Cardinality(q) /\ (Cardinality(asked) = Cardinality(q) => asked = q)
        BY <3>2, <4>1, FS_Subset
      <4>3. Cardinality(asked) \in Nat /\ Cardinality(q) \in Nat
        BY <1>1, <1>3, <3>2
      <4>4. Cardinality(q) <= Cardinality(IslandIds)
        BY <3>2, <4>1, FS_Subset
      <4> QED  BY <1>3, <3>2, <4>2, <4>3, <4>4
    <3>4. Cardinality(asked) >= l.rounds + 1 /\ Cardinality(asked) \in Nat /\ Cardinality(q) \in Nat
      BY <1>1, <1>2, <1>3, <2>9, <3>2
    <3>5. l.rounds + 1 <= MaxRounds /\ Cardinality(q) >= l.rounds + 2
      BY <1>1, <1>4, <2>9, <3>3, <3>4 DEF FewNodes
    <3> QED  BY <3>1, <3>5 DEF q
  <2>10. FewNodes => /\ \A p \in m.queried : KnownAt(p) \ {m.local} \subseteq m.heard
                     /\ m.done => m.shortlist \subseteq m.queried
                     /\ ~m.done => Cardinality(m.queried) >= m.rounds + 1
    <3> SUFFICES ASSUME FewNodes
                 PROVE  /\ \A p \in m.queried : KnownAt(p) \ {m.local} \subseteq m.heard
                        /\ m.done => m.shortlist \subseteq m.queried
                        /\ ~m.done => Cardinality(m.queried) >= m.rounds + 1
      OBVIOUS
    <3>1. m.done => m.shortlist \subseteq m.queried
      BY <2>5, <2>6, <2>8, <2>9
    <3>2. Cardinality(m.queried) >= m.rounds + 1
      BY <1>1, <2>6, <2>9
    <3> QED  BY <2>6, <2>9, <3>1, <3>2
  <2>11. m.done /\ m.rounds <= MaxRounds => m.shortlist \subseteq m.queried
    BY <2>5, <2>6, <2>8
  <2>12. m.heard \subseteq R \ {m.local} /\ m.local \in m.queried
    BY <1>2, <1>7, <2>6
  <2>13. m.shortlist = ClosestOf(m.heard, m.target, K)
    BY <2>3, <2>6
  <2>14. LookupKept(m, R)
    <3> HIDE DEF ends
    <3> QED  BY <2>6, <2>7, <2>10, <2>11, <2>12, <2>13 DEF LookupKept
  <2> QED  BY <2>6, <2>14 DEF m, t, a
<1> QED  BY <1>9, <1>10

\* A lookup starts with what its own table holds.
LEMMA LookupStarts ==
    ASSUME TablesKept, NEW src \in Peers, NEW dst \in Peers, NEW R, LeadsTo(R, IdOf(src))
    PROVE  LET l == StartLookup(tables[src], IdOf(dst))
           IN  /\ LookupKept(l, R) /\ l.local = IdOf(src) /\ l.target = IdOf(dst)
               /\ l.rounds = 0 /\ l.done = FALSE
<1> DEFINE a == IdOf(src)
           t == IdOf(dst)
           s == tables[src]
           C == KnownAt(a)
           known == closest(s, t, K) \union get(s, t)
           l == StartLookup(s, t)
<1>1. /\ a \in IslandIds /\ t \in IslandIds /\ a \in NodeIds /\ t \in NodeIds /\ C = Contacts(s)
      /\ s.local_id = a
  BY IdsAreFew DEF SomeIds, KnownAt, TablesKept
<1>2. SomeIds(C) /\ C \subseteq IslandIds \ {a} /\ (FewNodes => Cardinality(C) <= K) /\ C \subseteq R
  BY <1>1, KnownAreOthers DEF LeadsTo
<1>3. K \in Nat /\ K >= 1
  BY IslandFacts
<1>4. get(s, t) \subseteq {t} \intersect C
  <2>1. bucket_for(a, t) \in BitIndexes
    BY <1>1, BucketExists
  <2>2. get(s, t) \subseteq {t} /\ get(s, t) \subseteq {c.id : c \in ToSet(s.buckets[bucket_for(a, t)])}
    BY <1>1 DEF get
  <2>3. {c.id : c \in ToSet(s.buckets[bucket_for(a, t)])} \subseteq Contacts(s)
    BY <2>1 DEF Contacts
  <2> QED  BY <1>1, <2>2, <2>3
<1>5. closest(s, t, K) = ClosestOf(C, t, K)
  BY <1>1 DEF closest
<1>6. l = [local |-> a, target |-> t, shortlist |-> known, queried |-> {a}, heard |-> known,
           found |-> t \in known, rounds |-> 0, done |-> FALSE]
  BY <1>1 DEF StartLookup
<1> HIDE DEF a, t, s, C, l
<1>7. known = ClosestOf(C, t, K) /\ known \subseteq C /\ (FewNodes => known = C)
  <2>1. ClosestOf(C, t, K) \subseteq C /\ (t \in C => t \in ClosestOf(C, t, K))
        /\ (FewNodes => ClosestOf(C, t, K) = C)
    BY <1>1, <1>2, <1>3, ClosestKept
  <2> QED  BY <1>4, <1>5, <2>1
<1> HIDE DEF known
<1>8. known = ClosestOf(known, t, K)
  <2> DEFINE e == {}
  <2>1. SomeIds(e)
    BY FS_EmptySet DEF SomeIds
  <2>2. C \union e = C /\ ClosestOf(C, t, K) \union e = ClosestOf(C, t, K)
    OBVIOUS
  <2> HIDE DEF e
  <2>3. ClosestOf(ClosestOf(C, t, K) \union e, t, K) = ClosestOf(C \union e, t, K)
    BY <1>1, <1>2, <1>3, <2>1, ClosestAddUp
  <2> QED  BY <1>7, <2>2, <2>3
<1>9. known \subseteq IslandIds /\ known \subseteq R \ {a}
  BY <1>2, <1>7
<1>10. l \in Lookups /\ l.local = a /\ l.target = t /\ l.shortlist = known /\ l.queried = {a}
       /\ l.heard = known /\ (l.found <=> t \in known) /\ l.rounds = 0 /\ l.done = FALSE
  <2> DEFINE q == {a}
             f == t \in known
  <2>1. q \subseteq IslandIds /\ f \in BOOLEAN
    BY <1>1
  <2>2. l = [local |-> a, target |-> t, shortlist |-> known, queried |-> q, heard |-> known,
             found |-> f, rounds |-> 0, done |-> FALSE]
    BY <1>6
  <2> HIDE DEF q, f
  <2>3. l \in Lookups /\ l.local = a /\ l.target = t /\ l.shortlist = known /\ l.queried = q
        /\ l.heard = known /\ l.found = f /\ l.rounds = 0 /\ l.done = FALSE
    BY <1>1, <1>9, <2>1, <2>2 DEF Lookups
  <2> QED  BY <2>1, <2>3 DEF q, f
<1>11. FewNodes => /\ \A p \in l.queried : KnownAt(p) \ {a} \subseteq l.heard
                   /\ Cardinality(l.queried) >= l.rounds + 1
  <2>1. Cardinality({a}) = 1
    BY FS_Singleton
  <2> QED  BY <1>7, <1>10, <2>1 DEF C
<1>12. LookupKept(l, R)
  BY <1>8, <1>9, <1>10, <1>11 DEF LookupKept
<1> QED  BY <1>10, <1>12 DEF l, a, t, s

\* So a lookup is complete, and among few nodes it ends.
LEMMA LookupEnds ==
    ASSUME TablesKept, NEW src \in Peers, NEW dst \in Peers, NEW R, LeadsTo(R, IdOf(src))
    PROVE  LET l == kad_find(src, dst)
           IN  /\ LookupKept(l, R) /\ l.local = IdOf(src) /\ l.target = IdOf(dst)
               /\ FewNodes => l.done
<1> DEFINE M == MaxRounds + 1
           a == IdOf(src)
           t == IdOf(dst)
           A == Answers(t)
           X == {l \in Lookups : LookupKept(l, R) /\ l.local = a /\ l.target = t}
           Next1(m) == IF m.done THEN m ELSE Asking(m, A)
           step == [m \in X |-> Next1(m)]
           start == StartLookup(tables[src], t)
           Rec(f) == [n \in 0..M |->
                         IF n = 0 THEN start
                         ELSE LET m == f[n - 1]
                              IN  IF m.done THEN m ELSE Round(m, [p \in Batch(m) |-> A[p]])]
           after == CHOOSE f : f = Rec(f)
<1>1. ASSUME NEW m \in X PROVE Next1(m) \in X
  <2>1. CASE m.done
    BY <2>1
  <2>2. CASE ~m.done
    <3> DEFINE z == Asking(m, Answers(m.target))
    <3>1. LookupKept(z, R) /\ z.target = m.target /\ z.local = m.local
      BY <2>2, AskingKeeps
    <3>2. z \in Lookups
      BY <3>1 DEF LookupKept
    <3>3. z = Next1(m)
      BY <2>2
    <3> HIDE DEF z
    <3>4. z \in X
      BY <3>1, <3>2
    <3> QED  BY <3>3, <3>4
  <2> QED  BY <2>1, <2>2
<1>2. start \in X /\ start.rounds = 0 /\ start.done = FALSE
  <2>1. /\ LookupKept(start, R) /\ start.local = a /\ start.target = t
        /\ start.rounds = 0 /\ start.done = FALSE
    BY LookupStarts
  <2> HIDE DEF start, a, t
  <2> QED  BY <2>1 DEF LookupKept
<1>3. M \in Nat /\ MaxRounds \in Nat /\ step \in [X -> X] /\ \A m \in X : step[m] = Next1(m)
  BY <1>1, IslandFacts
<1>4. \A m \in X : LookupKept(m, R) /\ m.local = a /\ m.target = t /\ m \in Lookups
  OBVIOUS
<1>5. kad_find(src, dst) = after[M]
  BY DEF kad_find, FindNode, Answers, IslandIds
<1> HIDE DEF M, X, step, start, A, a, t
<1>6. PICK f : f \in [0..M -> X] /\ f[0] = start /\ \A i \in 1..M : f[i] = step[f[i - 1]]
  <2>1. \E f : Following(f, X, step, start, M)
    BY <1>2, <1>3, ValuesFollow
  <2> QED  BY <2>1 DEF Following
<1>7. f = Rec(f)
  <2>1. \A n \in 0..M : f[n] = IF n = 0 THEN start ELSE Next1(f[n - 1])
    <3> SUFFICES ASSUME NEW n \in 0..M PROVE f[n] = IF n = 0 THEN start ELSE Next1(f[n - 1])
      OBVIOUS
    <3> HIDE DEF Next1
    <3>1. CASE n = 0
      BY <1>6, <3>1
    <3>2. CASE n # 0
      <4>1. n \in 1..M /\ n - 1 \in 0..M
        BY <1>3, <3>2
      <4>2. f[n - 1] \in X
        BY <1>6, <4>1
      <4> QED  BY <1>3, <1>6, <3>2, <4>1, <4>2
    <3> QED  BY <3>1, <3>2
  <2>2. f = [n \in 0..M |-> f[n]]
    BY <1>6
  <2>3. f = [n \in 0..M |-> IF n = 0 THEN start ELSE Next1(f[n - 1])]
    BY <2>1, <2>2, Zenon
  <2> QED  BY <2>3 DEF Asking
<1>8. after = Rec(after)
  BY <1>7, Zenon
<1> HIDE DEF after
<1>9. after[0] = start /\ \A n \in 1..M : after[n] = Next1(after[n - 1])
  <2>1. 0 \in 0..M /\ \A n \in 1..M : n \in 0..M /\ n # 0
    BY <1>3
  <2>2. after = [n \in 0..M |-> IF n = 0 THEN start ELSE Next1(after[n - 1])]
    BY <1>8 DEF Asking
  <2> QED  BY <2>1, <2>2
<1> HIDE DEF Rec
<1> DEFINE Y == {y \in Nat \X X : y[2].done \/ y[2].rounds = y[1]}
           g == [n \in 0..M |-> <<n, after[n]>>]
<1>10. g[0] \in Y
  <2>1. 0 \in 0..M
    BY <1>3
  <2> QED  BY <1>2, <1>9, <2>1
<1>11. ASSUME NEW n \in 1..M, g[n - 1] \in Y PROVE g[n] \in Y
  <2> DEFINE m == after[n - 1]
             z == after[n]
  <2>1. n - 1 \in 0..M /\ n \in 0..M /\ n \in Nat /\ n - 1 \in Nat
    BY <1>3
  <2>2. m \in X /\ (m.done \/ m.rounds = n - 1)
    BY <1>11, <2>1
  <2>3. z = Next1(m) /\ z \in X
    <3>1. z = Next1(m)
      BY <1>9
    <3> HIDE DEF m, z, Next1
    <3> QED  BY <1>1, <2>2, <3>1
  <2>4. g[n] = <<n, z>>
    BY <2>1
  <2> HIDE DEF m, z, g
  <2>5. CASE m.done
    BY <2>1, <2>2, <2>3, <2>4, <2>5
  <2>6. CASE ~m.done
    <3>1. z = Asking(m, Answers(m.target)) /\ m.rounds = n - 1
      BY <1>4, <2>2, <2>3, <2>6 DEF A
    <3>2. z.rounds = m.rounds + 1
      BY <1>4, <2>2, <2>6, <3>1, AskingKeeps DEF a
    <3>3. z.rounds = n
      BY <2>1, <3>1, <3>2
    <3> QED  BY <2>1, <2>3, <2>4, <3>3
  <2> QED  BY <2>5, <2>6
<1>12. \A n \in 0..M : g[n] \in Y
  <2> HIDE DEF g, Y
  <2> QED  BY <1>3, <1>10, <1>11, StepByStep
<1> DEFINE l == after[M]
<1>13. l \in X /\ (l.done \/ l.rounds = M)
  <2>1. M \in 0..M /\ g[M] \in Y
    BY <1>3, <1>12
  <2> QED  BY <2>1
<1> HIDE DEF l, g
<1>14. LookupKept(l, R) /\ l.local = a /\ l.target = t /\ l \in Lookups
  BY <1>4, <1>13
<1>15. ASSUME FewNodes PROVE l.done
  <2> SUFFICES ASSUME ~l.done PROVE FALSE
    OBVIOUS
  <2> DEFINE q == l.queried
  <2>1. q \subseteq IslandIds /\ Cardinality(q) >= M + 1
    BY <1>13, <1>14, <1>15 DEF LookupKept, Lookups
  <2> HIDE DEF q
  <2>2. IsFiniteSet(IslandIds) /\ Cardinality(IslandIds) = Cardinality(Peers)
    BY IdsAreFew DEF SomeIds
  <2>3. Cardinality(q) <= Cardinality(Peers) /\ Cardinality(q) \in Nat
    BY <2>1, <2>2, FS_Subset, FS_CardinalityType
  <2> QED  BY <1>3, <1>15, <2>1, <2>3, IslandFacts DEF FewNodes, M
<1> QED  BY <1>5, <1>14, <1>15 DEF l, a, t

\* LookupIsComplete of every lookup a node can start.
LEMMA LookupsAreComplete ==
    ASSUME TablesKept, NEW src \in Peers, NEW dst \in Peers
    PROVE  LookupIsComplete(kad_find(src, dst))
<1> DEFINE l == kad_find(src, dst)
           R == IslandIds
           t == IdOf(dst)
<1>1. LeadsTo(R, IdOf(src))
  BY IdsAreFew, KnownAreOthers DEF LeadsTo
<1> HIDE DEF R
<1>2. LookupKept(l, R) /\ l.target = t
  BY <1>1, LookupEnds
<1> HIDE DEF l
<1>3. l.heard \subseteq IslandIds /\ l.shortlist = ClosestOf(l.heard, t, K) /\ (l.found <=> t \in l.heard)
  BY <1>2 DEF LookupKept, Lookups
<1> DEFINE H == l.heard
<1>4. SomeIds(H) /\ t \in NodeIds /\ K \in Nat /\ K >= 1
  <2>1. SomeIds(IslandIds) /\ t \in IslandIds
    BY IdsAreFew
  <2> QED  BY <1>3, <2>1, IslandFacts, FS_Subset DEF SomeIds
<1> HIDE DEF H, t
<1>5. t \in H <=> t \in ClosestOf(H, t, K)
  BY <1>4, ClosestKept
<1> QED  BY <1>2, <1>3, <1>5 DEF LookupIsComplete, LookupKept, l, H

\* Where a path leads, it leads on.
LEMMA PathsGoOn ==
    ASSUME LinksKept, NEW src \in Peers, NEW v \in Peers, Cheapest(src, v) # {}, NEW w \in Neighbours(v)
    PROVE  w \in Peers /\ Cheapest(src, w) # {}
<1> DEFINE N == Cardinality(Peers)
           b == N - 1
<1>1. PICK W : Walked(W, src) /\ \A dst \in Peers : Cheapest(src, dst) = W[N - 1][dst]
  BY CheapestWalks
<1>2. PICK e \in edges : e.from = v /\ e.to = w
  BY DEF Neighbours
<1>3. w \in Peers
  BY <1>2, LinkFields
<1>4. N \in Nat /\ N \in 1..N /\ N \in 0..N /\ b \in 0..N
  <2>1. N \in Nat /\ N # 0
    BY IslandFacts, FS_EmptySet
  <2> QED  BY <2>1
<1>5. PICK c \in W[N - 1][e.from] : TRUE
  BY <1>1, <1>2
<1> HIDE DEF N
<1>6. c + e.cost \in W[N][w]
  BY <1>1, <1>2, <1>4, <1>5, OneHopMore DEF N
<1> DEFINE s == Explored(src, w)
           d == c + e.cost
<1>7. SearchKept(s, src, W) /\ Ended(s, w)
  BY <1>1, <1>3, ExploredEnds
<1> HIDE DEF s, d
<1>8. d \in W[N][w]
  BY <1>6 DEF d
<1>9. w \in DOMAIN s.dist
  BY <1>1, <1>3, <1>4, <1>7, <1>8, NoWalkIsShorter DEF N
<1>10. s.dist[w] \in W[N - 1][w]
  BY <1>1, <1>7, <1>9, DistanceIsWalked DEF N
<1> QED  BY <1>1, <1>3, <1>10

\* Every set that no link leads out of holds where the paths from it lead.
LEMMA PathsStayInside ==
    ASSUME LinksKept, NEW src \in Peers, NEW U \in SUBSET Peers, src \in U,
           \A v \in U : Neighbours(v) \subseteq U,
           NEW dst \in Peers, Cheapest(src, dst) # {}
    PROVE  dst \in U
<1> DEFINE N == Cardinality(Peers)
           g == [k \in 0..N |-> k]
<1>1. PICK W : Walked(W, src) /\ Cheapest(src, dst) = W[N - 1][dst]
  BY CheapestWalks
<1>2. N \in Nat /\ N # 0
  BY IslandFacts, FS_EmptySet
<1>3. W[0] = AtHome(src) /\ \A n \in 1..N : W[n] = Longer(W[n - 1])
  BY <1>1 DEF Walked
<1> HIDE DEF N
<1> DEFINE Y == {k \in Nat : k <= N => \A v \in Peers : W[k][v] # {} => v \in U}
<1>4. g[0] \in Y
  BY <1>2, <1>3 DEF AtHome
<1>5. ASSUME NEW k \in 1..N, g[k - 1] \in Y PROVE g[k] \in Y
  <2> DEFINE m == k - 1
  <2>1. m \in Nat /\ m <= N /\ g[m] = m /\ g[k] = k /\ k \in Nat /\ k <= N
    BY <1>2, <1>5
  <2>2. \A v \in Peers : W[m][v] # {} => v \in U
    BY <1>5, <2>1
  <2>3. W[k] = Longer(W[m])
    BY <1>3
  <2> HIDE DEF m
  <2>4. ASSUME NEW v \in Peers, NEW c \in W[k][v] PROVE v \in U
    <3>1. c \in W[m][v] \/ \E e \in edges : e.to = v /\ \E d \in W[m][e.from] : c = d + e.cost
      BY <2>3, <2>4 DEF Longer
    <3>2. ASSUME NEW e \in edges, e.to = v, W[m][e.from] # {} PROVE v \in U
      <4>1. e.from \in Peers /\ v \in Neighbours(e.from)
        BY <3>2, LinkFields DEF Neighbours
      <4> QED  BY <2>2, <3>2, <4>1
    <3> QED  BY <2>2, <3>1, <3>2
  <2> QED  BY <2>1, <2>4
<1>6. \A k \in 0..N : g[k] \in Y
  <2> HIDE DEF g, Y
  <2> QED  BY <1>2, <1>4, <1>5, StepByStep
<1>7. N - 1 \in 0..N /\ g[N - 1] = N - 1 /\ N - 1 <= N
  BY <1>2
<1>8. \A v \in Peers : W[N - 1][v] # {} => v \in U
  BY <1>6, <1>7
<1> QED  BY <1>1, <1>8

\* The tables show the links.
TablesShow == \A n \in Peers : Contacts(tables[n]) = {IdOf(m) : m \in Neighbours(n)}

\* Among few nodes the tables lead to whom the paths lead to.
LEMMA PeersAreFound ==
    ASSUME LinksKept, TablesKept, TablesShow, FewNodes,
           NEW src \in Peers, NEW dst \in Peers, src # dst
    PROVE  kad_find(src, dst).found <=> shortest_path(src, dst) # NoPath
<1> DEFINE l == kad_find(src, dst)
           a == IdOf(src)
           t == IdOf(dst)
           V == {n \in Peers : Cheapest(src, n) # {}}
           R == {IdOf(n) : n \in V}
<1>1. \A n \in Peers : shortest_path(src, n) = NoPath <=> Cheapest(src, n) = {}
  BY CostIsLeast
<1>2. \A n \in Peers : KnownAt(IdOf(n)) = {IdOf(m) : m \in Neighbours(n)}
  BY IdsAreFew DEF KnownAt, TablesShow
<1>3. \A n \in Peers : Neighbours(n) \subseteq Peers
  BY LinkFields DEF Neighbours
<1>4. \A m, n \in Peers : IdOf(m) = IdOf(n) => m = n
  BY IslandFacts
<1>5. LeadsTo(R, a)
  <2>1. src \in V
    <3>1. shortest_path(src, src) # NoPath
      BY DEF shortest_path, NoPath
    <3> QED  BY <1>1, <3>1
  <2>2. \A n \in V : Neighbours(n) \subseteq V
    BY <1>3, PathsGoOn
  <2>3. \A n \in V : KnownAt(IdOf(n)) \subseteq R
    <3> SUFFICES ASSUME NEW n \in V PROVE KnownAt(IdOf(n)) \subseteq R
      OBVIOUS
    <3>1. KnownAt(IdOf(n)) = {IdOf(m) : m \in Neighbours(n)} /\ Neighbours(n) \subseteq V
      BY <1>2, <2>2
    <3> HIDE DEF V
    <3> QED  BY <3>1
  <2>4. R \subseteq IslandIds
    BY DEF IslandIds
  <2> HIDE DEF V
  <2> QED  BY <2>1, <2>3, <2>4 DEF LeadsTo
<1> HIDE DEF R
<1>6. LookupKept(l, R) /\ l.local = a /\ l.target = t /\ l.done
  BY <1>5, LookupEnds
<1> HIDE DEF l
<1>7. /\ l.heard \subseteq R \ {a} /\ l.heard \subseteq IslandIds /\ (l.found <=> t \in l.heard)
      /\ l.shortlist = ClosestOf(l.heard, t, K) /\ l.shortlist \subseteq l.queried /\ a \in l.queried
      /\ \A p \in l.queried : KnownAt(p) \ {a} \subseteq l.heard
  BY <1>6 DEF LookupKept, Lookups
<1>8. ASSUME l.found PROVE shortest_path(src, dst) # NoPath
  <2>1. t \in R
    BY <1>7, <1>8
  <2>2. dst \in V
    BY <1>4, <2>1 DEF R
  <2> QED  BY <1>1, <2>2
<1>9. ASSUME ~l.found PROVE shortest_path(src, dst) = NoPath
  <2> DEFINE H == l.heard
             U == {n \in Peers : IdOf(n) \in H \union {a}}
  <2>1. H \subseteq IslandIds \ {a} /\ t \notin H
    <3>1. H \subseteq R \ {a}
      BY <1>7
    <3> HIDE DEF H, a
    <3> QED  BY <1>7, <1>9, <3>1 DEF H
  <2>2. SomeIds(H) /\ Cardinality(H) <= K
    <3> DEFINE o == IslandIds \ {a}
    <3>1. SomeIds(IslandIds) /\ a \in IslandIds /\ Cardinality(IslandIds) = Cardinality(Peers)
      BY IdsAreFew
    <3>2. IsFiniteSet(o) /\ Cardinality(o) = Cardinality(Peers) - 1
      BY <3>1, FS_RemoveElement DEF SomeIds
    <3> HIDE DEF o, H
    <3>3. H \subseteq o
      BY <2>1 DEF o
    <3>4. IsFiniteSet(H) /\ Cardinality(H) <= Cardinality(o) /\ Cardinality(H) \in Nat
      BY <3>2, <3>3, FS_Subset, FS_CardinalityType
    <3>5. Cardinality(H) <= K
      BY <3>2, <3>4, IslandFacts DEF FewNodes
    <3> QED  BY <2>1, <3>1, <3>4, <3>5 DEF SomeIds
  <2>3. l.shortlist = H
    <3>1. t \in NodeIds /\ K \in Nat
      BY IslandFacts
    <3> HIDE DEF H, t
    <3>2. ClosestOf(H, t, K) = H
      BY <2>2, <3>1, ClosestKept
    <3> QED  BY <1>7, <3>2 DEF H
  <2>4. \A p \in H \union {a} : KnownAt(p) \subseteq H \union {a}
    BY <1>7, <2>3
  <2>5. src \in U /\ dst \notin U
    <3>1. t # a
      BY <1>4
    <3> HIDE DEF H
    <3> QED  BY <2>1, <3>1
  <2>6. \A n \in U : Neighbours(n) \subseteq U
    <3> SUFFICES ASSUME NEW n \in U, NEW m \in Neighbours(n) PROVE m \in U
      OBVIOUS
    <3>1. n \in Peers /\ m \in Peers /\ IdOf(n) \in H \union {a}
      BY <1>3
    <3> HIDE DEF H, a
    <3>2. IdOf(m) \in KnownAt(IdOf(n))
      BY <1>2, <3>1
    <3> QED  BY <2>4, <3>1, <3>2
  <2>7. U \in SUBSET Peers
    OBVIOUS
  <2> HIDE DEF U
  <2>8. Cheapest(src, dst) = {}
    BY <2>5, <2>6, <2>7, PathsStayInside
  <2> QED  BY <1>1, <2>8
<1> QED  BY <1>8, <1>9 DEF l

-----------------------------------------------------------------------------
(***************************************************************************)
(* Tables.  A seeding inserts the ids of the neighbours one after the other:*)
(* among few nodes every bucket has a place for them, and the contacts are *)
(* the neighbours.                                                         *)
(***************************************************************************)

\* As many places as values, and no value twice: every value has its place.
LEMMA PlacesForAll ==
    ASSUME NEW n \in Nat, NEW T, IsFiniteSet(T), Cardinality(T) <= n, NEW f \in [1..n -> T],
           \A i, j \in 1..n : f[i] = f[j] => i = j
    PROVE  \A y \in T : \E k \in 1..n : f[k] = y
<1> DEFINE D == 1..n
<1>1. IsFiniteSet(D) /\ Cardinality(D) = n
  BY FS_Interval
<1> HIDE DEF D
<1>2. f \in Injection(D, T)
  BY DEF D, Injection, IsInjective
<1>3. Cardinality(D) <= Cardinality(T) /\ Cardinality(T) \in Nat
      /\ (Cardinality(D) = Cardinality(T) <=> f \in Surjection(D, T))
  BY <1>2, FS_Injection, FS_CardinalityType
<1>4. f \in Surjection(D, T)
  BY <1>1, <1>3
<1> QED  BY <1>4 DEF Surjection, D

\* A set of numbers in a row.
LEMMA NamesInARow ==
    ASSUME NEW S, IsFiniteSet(S), S \subseteq Nat
    PROVE  /\ ByName(S) \in [1..Cardinality(S) -> S] /\ Cardinality(S) \in Nat
           /\ \A y \in S : \E k \in 1..Cardinality(S) : ByName(S)[k] = y
<1> DEFINE n == Cardinality(S)
           lt == {p \in S \X S : p[1] < p[2]}
           at(w) == Cardinality(Under(S, lt, w))
           s == [k \in 1..n |-> CHOOSE w \in S : at(w) = k - 1]
<1>1. n \in Nat
  BY FS_CardinalityType
<1>2. \A v, w \in S : <<v, w>> \in lt <=> v < w
  OBVIOUS
<1> HIDE DEF lt
<1>3. Ordering(S, lt)
  <2>1. \A w \in S : w \in Int
    OBVIOUS
  <2>2. \A v, w \in S : v = w \/ v < w \/ w < v
    BY <2>1
  <2>3. \A u, v, w \in S : u < v /\ v < w => u < w
    BY <2>1
  <2>4. \A v \in S : ~(v < v)
    BY <2>1
  <2> QED  BY <1>2, <2>2, <2>3, <2>4 DEF Ordering
<1>4. \A k \in 1..n : s[k] \in S /\ at(s[k]) = k - 1
  <2> SUFFICES ASSUME NEW k \in 1..n PROVE s[k] \in S /\ at(s[k]) = k - 1
    OBVIOUS
  <2> DEFINE j == k - 1
  <2>1. j \in 0..(Cardinality(S) - 1)
    BY <1>1
  <2> HIDE DEF j
  <2>2. \E w \in S : at(w) = j
    BY <1>3, <2>1, EveryPlaceIsTaken
  <2> HIDE DEF at
  <2> QED  BY <2>2 DEF j
<1>5. \A i, j \in 1..n : i < j => s[i] < s[j]
  <2> SUFFICES ASSUME NEW i \in 1..n, NEW j \in 1..n, i < j PROVE s[i] < s[j]
    OBVIOUS
  <2> DEFINE v == s[i]
             w == s[j]
  <2>1. v \in S /\ w \in S /\ at(v) = i - 1 /\ at(w) = j - 1
    BY <1>4
  <2> HIDE DEF v, w, n
  <2>2. \A x, y \in S : <<x, y>> \in lt => at(x) < at(y)
    BY <1>3, LaterHasMoreAhead
  <2> HIDE DEF at
  <2>3. v # w /\ ~(at(w) < at(v))
    BY <1>1, <2>1
  <2>4. <<w, v>> \notin lt
    BY <2>1, <2>2, <2>3
  <2>5. <<v, w>> \in lt
    BY <1>3, <2>1, <2>3, <2>4 DEF Ordering
  <2> QED  BY <1>2, <2>1, <2>5 DEF v, w
<1>6. s \in [1..n -> S] /\ DOMAIN s = 1..n
  BY <1>4
<1> HIDE DEF s, at
<1> DEFINE r == ByName(S)
<1>7. r \in [1..n -> S] /\ \A i, j \in DOMAIN r : i < j => r[i] < r[j]
  BY <1>5, <1>6 DEF ByName
<1> HIDE DEF r
<1>8. \A i, j \in 1..n : r[i] = r[j] => i = j
  <2> SUFFICES ASSUME NEW i \in 1..n, NEW j \in 1..n, r[i] = r[j], i # j PROVE FALSE
    OBVIOUS
  <2>1. r[i] \in Int /\ r[j] \in Int
    <3>1. r[i] \in S /\ r[j] \in S
      BY <1>7
    <3>2. \A w \in S : w \in Int
      OBVIOUS
    <3> QED  BY <3>1, <3>2
  <2>2. i < j \/ j < i
    BY <1>1
  <2>3. r[i] < r[j] \/ r[j] < r[i]
    BY <1>7, <2>2
  <2> QED  BY <2>1, <2>3
<1>9. \A y \in S : \E k \in 1..n : r[k] = y
  <2> HIDE DEF n
  <2> QED  BY <1>1, <1>7, <1>8, PlacesForAll DEF n
<1> QED  BY <1>1, <1>7, <1>9 DEF r

\* The ids that a bucket holds.
IdsIn(s) == {s[k].id : k \in 1..Len(s)}

\* The contacts of a table are the ids in its buckets.
LEMMA ContactsOfBuckets ==
    ASSUME NEW t, RoutesKept(t)
    PROVE  Contacts(t) = UNION {IdsIn(t.buckets[b]) : b \in BitIndexes}
<1>1. ASSUME NEW b \in BitIndexes
      PROVE  {c.id : c \in ToSet(t.buckets[b])} = IdsIn(t.buckets[b])
  <2> DEFINE s == t.buckets[b]
  <2>1. s \in Seq(Contact)
    BY DEF RoutesKept, BucketKept
  <2> HIDE DEF s
  <2>2. DOMAIN s = 1..Len(s)
    BY <2>1, LenProperties
  <2> QED  BY <2>2 DEF ToSet, IdsIn, s
<1> QED  BY <1>1 DEF Contacts

\* A contact goes to the tail.
LEMMA RefreshedHolds ==
    ASSUME NEW s \in Seq(Contact), NEW c \in Contact
    PROVE  IdsIn(Refreshed(s, c)) = IdsIn(s) \union {c.id}
<1> DEFINE n == Len(s)
           known == {k \in DOMAIN s : s[k].id = c.id}
           i == Min(known)
           r == RemoveAt(s, i)
<1>1. n \in Nat /\ DOMAIN s = 1..n
  BY LenProperties
<1>2. Refreshed(s, c) = Append(IF known = {} THEN s ELSE r, c)
  BY DEF Refreshed
<1>3. ASSUME NEW u \in Seq(Contact) PROVE IdsIn(Append(u, c)) = IdsIn(u) \union {c.id}
  <2> DEFINE m == Len(u)
             v == Append(u, c)
  <2>1. m \in Nat /\ Len(v) = m + 1 /\ (\A k \in 1..m : v[k] = u[k]) /\ v[m + 1] = c
    BY AppendProperties, LenProperties
  <2> HIDE DEF v
  <2>2. 1..Len(v) = (1..m) \union {m + 1}
    BY <2>1
  <2> HIDE DEF m
  <2> QED  BY <2>1, <2>2 DEF IdsIn, v, m
<1>4. CASE known = {}
  BY <1>2, <1>3, <1>4
<1>5. CASE known # {}
  <2>1. i \in 1..n /\ s[i].id = c.id
    <3>1. known \subseteq Nat
      BY <1>1
    <3>2. i \in known
      BY <1>5, <3>1, MinIsLeast
    <3> QED  BY <1>1, <3>2
  <2> HIDE DEF i
  <2>2. /\ r \in Seq(Contact) /\ Len(r) = n - 1
        /\ \A k \in 1..Len(r) : r[k] = s[IF k < i THEN k ELSE k + 1]
    BY <2>1, RemovedPlace DEF RemoveAt
  <2> HIDE DEF r, n
  <2>3. ASSUME NEW k \in 1..n, k # i PROVE \E j \in 1..Len(r) : r[j] = s[k]
    <3> DEFINE j == IF k < i THEN k ELSE k - 1
    <3>1. j \in 1..Len(r) /\ (IF j < i THEN j ELSE j + 1) = k
      BY <1>1, <2>1, <2>2, <2>3
    <3> HIDE DEF j
    <3> QED  BY <2>2, <3>1
  <2>4. \A j \in 1..Len(r) : \E k \in 1..n : r[j] = s[k]
    <3> SUFFICES ASSUME NEW j \in 1..Len(r) PROVE \E k \in 1..n : r[j] = s[k]
      OBVIOUS
    <3>1. (IF j < i THEN j ELSE j + 1) \in 1..n
      BY <1>1, <2>1, <2>2
    <3> QED  BY <2>2, <3>1
  <2>5. IdsIn(r) \union {c.id} = IdsIn(s) \union {c.id}
    <3>1. \A x : x \in IdsIn(r) => x \in IdsIn(s)
      BY <2>4 DEF IdsIn, n
    <3>2. \A x : x \in IdsIn(s) => x \in IdsIn(r) \/ x = c.id
      <4> SUFFICES ASSUME NEW k \in 1..n PROVE s[k].id \in IdsIn(r) \/ s[k].id = c.id
        BY DEF IdsIn, n
      <4> QED  BY <2>1, <2>3 DEF IdsIn
    <3> QED  BY <3>1, <3>2
  <2> QED  BY <1>2, <1>3, <1>5, <2>2, <2>5
<1> QED  BY <1>4, <1>5

\* Whether an insertion finds the contact, or room for it.
HasPlace(t, id) ==
    LET s == t.buckets[bucket_for(t.local_id, id)]
    IN  Len(s) < K \/ \E c \in ToSet(s) : c.id = id

\* An insertion adds the contact where there is a place, and drops none.
LEMMA InsertAdds ==
    ASSUME NEW t, RoutesKept(t), NEW id \in NodeIds
    PROVE  /\ Contacts(insert(t, id)) \subseteq Contacts(t) \union {id}
           /\ id # t.local_id /\ HasPlace(t, id) => Contacts(insert(t, id)) = Contacts(t) \union {id}
<1> DEFINE b == bucket_for(t.local_id, id)
           s == t.buckets[b]
           c == [id |-> id, last_seen |-> t.tick + 1]
           v == insert(t, id)
<1>1. /\ t \in Routes /\ t.tick \in Nat /\ b \in BitIndexes /\ s \in Seq(Contact)
      /\ t.buckets \in [BitIndexes -> Seq(Contact)]
  <2>1. t \in Routes /\ t.local_id \in NodeIds
    BY DEF RoutesKept, Routes
  <2>2. b \in BitIndexes
    BY <2>1, BucketExists
  <2> QED  BY <2>1, <2>2 DEF Routes
<1>2. c \in Contact /\ c.id = id
  BY <1>1 DEF Contact
<1>3. RoutesKept(v)
  BY InsertKeepsRoutes DEF insert
<1>4. v = CASE id = t.local_id -> t
            [] id # t.local_id /\ HasPlace(t, id) ->
                 [t EXCEPT !.tick = @ + 1, !.buckets[b] = Refreshed(@, c)]
            [] OTHER -> IF MayProbe(t, b) THEN Probed(t, b, c, TRUE) ELSE [t EXCEPT !.tick = @ + 1]
  BY DEF insert, insert_with_probe, HasPlace
<1>5. /\ Contacts(t) = UNION {IdsIn(t.buckets[x]) : x \in BitIndexes}
      /\ Contacts(v) = UNION {IdsIn(v.buckets[x]) : x \in BitIndexes}
  BY <1>3, ContactsOfBuckets
<1> HIDE DEF v, b, c, s
<1>6. CASE id = t.local_id
  BY <1>4, <1>6 DEF v
<1>7. CASE id # t.local_id /\ HasPlace(t, id)
  <2> DEFINE w == Refreshed(s, c)
             filled == [t.buckets EXCEPT ![b] = w]
  <2>1. v = [t EXCEPT !.tick = @ + 1, !.buckets = filled]
    <3>1. v = [t EXCEPT !.tick = @ + 1, !.buckets[b] = Refreshed(@, c)]
      BY <1>4, <1>7
    <3> QED  BY <3>1 DEF s
  <2>2. v.buckets = filled
    <3> HIDE DEF filled
    <3> QED  BY <1>1, <2>1 DEF Routes
  <2>3. \A x \in BitIndexes : v.buckets[x] = IF x = b THEN w ELSE t.buckets[x]
    <3> HIDE DEF w
    <3> QED  BY <1>1, <2>2
  <2>4. IdsIn(w) = IdsIn(s) \union {id}
    BY <1>1, <1>2, RefreshedHolds
  <2> HIDE DEF w, filled
  <2>5. \A x : x \in Contacts(v) <=> x \in Contacts(t) \/ x = id
    <3>1. \A x : x \in Contacts(v) <=> \E y \in BitIndexes : x \in IdsIn(v.buckets[y])
      BY <1>5
    <3>2. \A x : x \in Contacts(t) <=> \E y \in BitIndexes : x \in IdsIn(t.buckets[y])
      BY <1>5
    <3>3. \A y \in BitIndexes : y # b => v.buckets[y] = t.buckets[y]
      BY <2>3
    <3>4. \A x : x \in IdsIn(v.buckets[b]) <=> x \in IdsIn(t.buckets[b]) \/ x = id
      BY <1>1, <2>3, <2>4 DEF s
    <3> QED  BY <1>1, <3>1, <3>2, <3>3, <3>4
  <2>6. Contacts(v) = Contacts(t) \union {id}
    BY <2>5
  <2> QED  BY <2>6 DEF v
<1>8. CASE id # t.local_id /\ ~HasPlace(t, id)
  <2>1. v.buckets = t.buckets
    <3>1. v = IF MayProbe(t, b) THEN Probed(t, b, c, TRUE) ELSE [t EXCEPT !.tick = @ + 1]
      BY <1>4, <1>8
    <3>2. Probed(t, b, c, TRUE).buckets = t.buckets
      <4> DEFINE same == [t.buckets EXCEPT ![b] = @]
                 n == t.tick + 1
                 probes == [t.refreshed_at EXCEPT ![b] = t.tick + 1]
      <4>1. Probed(t, b, c, TRUE) = [t EXCEPT !.tick = n, !.refreshed_at = probes, !.buckets = same]
        BY <1>1 DEF Probed
      <4>2. same = t.buckets
        BY <1>1
      <4> HIDE DEF same, probes, n
      <4> QED  BY <1>1, <4>1, <4>2 DEF Routes
    <3>3. [t EXCEPT !.tick = @ + 1].buckets = t.buckets
      BY <1>1 DEF Routes
    <3> QED  BY <3>1, <3>2, <3>3
  <2>2. Contacts(v) = Contacts(t)
    BY <1>5, <2>1
  <2> QED  BY <1>8, <2>2 DEF v
<1> QED  BY <1>6, <1>7, <1>8 DEF v

\* Among few nodes everybody has a place.
LEMMA PlaceForFew ==
    ASSUME FewNodes, NEW t, RoutesKept(t), t.local_id \in IslandIds, Contacts(t) \subseteq IslandIds,
           NEW id \in IslandIds, id # t.local_id
    PROVE  HasPlace(t, id)
<1> DEFINE a == t.local_id
           b == bucket_for(a, id)
           s == t.buckets[b]
           n == Len(s)
           o == IslandIds \ {a}
           f == [k \in 1..n |-> s[k].id]
<1>1. b \in BitIndexes
  BY IdsAreFew, BucketExists DEF SomeIds
<1>2. BucketKept(s, b, a, t.tick)
  BY <1>1 DEF RoutesKept
<1>3. IdsIn(s) \subseteq IslandIds
  BY <1>1, ContactsOfBuckets
<1>4. HasPlace(t, id) <=> n < K \/ \E c \in ToSet(s) : c.id = id
  BY DEF HasPlace
<1> HIDE DEF s, b
<1>5. n \in Nat /\ DOMAIN s = 1..n
  BY <1>2, LenProperties DEF BucketKept
<1>6. IsFiniteSet(o) /\ Cardinality(o) <= K
  <2>1. IsFiniteSet(IslandIds) /\ Cardinality(IslandIds) = Cardinality(Peers)
    BY IdsAreFew DEF SomeIds
  <2>2. IsFiniteSet(o) /\ Cardinality(o) = Cardinality(IslandIds) - 1
    BY <2>1, FS_RemoveElement
  <2> HIDE DEF o
  <2> QED  BY <2>1, <2>2, IslandFacts DEF FewNodes
<1>7. f \in [1..n -> o] /\ \A i, j \in 1..n : f[i] = f[j] => i = j
  <2>1. \A k \in 1..n : s[k].id # a /\ s[k].id \in IslandIds
    BY <1>2, <1>3 DEF BucketKept, IdsIn
  <2>2. \A i, j \in 1..n : i < j => s[i].id # s[j].id
    BY <1>2 DEF BucketKept
  <2>3. \A i, j \in 1..n : i = j \/ i < j \/ j < i
    BY <1>5
  <2> QED  BY <2>1, <2>2, <2>3
<1> HIDE DEF n, o, f
<1>8. CASE n < K
  BY <1>4, <1>8 DEF n
<1>9. CASE ~(n < K)
  <2>1. Cardinality(o) <= n
    <3>1. Cardinality(o) \in Nat /\ K \in Nat
      BY <1>6, FS_CardinalityType, IslandFacts
    <3> QED  BY <1>5, <1>6, <1>9, <3>1
  <2>2. \A y \in o : \E k \in 1..n : f[k] = y
    BY <1>5, <1>6, <1>7, <2>1, PlacesForAll
  <2>3. PICK k \in 1..n : f[k] = id
    BY <2>2 DEF o
  <2>4. s[k].id = id /\ s[k] \in ToSet(s)
    BY <1>5, <2>3 DEF f, ToSet
  <2> QED  BY <1>4, <2>4 DEF n
<1> QED  BY <1>8, <1>9

\* A new table has no contacts.
LEMMA NewTableIsEmpty == ASSUME NEW id \in NodeIds PROVE Contacts(NewTable(id)) = {}
<1> DEFINE t == NewTable(id)
<1>1. RoutesKept(t)
  BY NewTableKept
<1>2. \A b \in BitIndexes : t.buckets[b] = << >>
  BY DEF NewTable
<1> HIDE DEF t
<1>3. \A b \in BitIndexes : IdsIn(t.buckets[b]) = {}
  <2> DEFINE e == << >>
  <2>1. Len(e) = 0 /\ 1..0 = {}
    BY EmptySeq
  <2> HIDE DEF e
  <2>2. IdsIn(e) = {}
    BY <2>1 DEF IdsIn
  <2> QED  BY <1>2, <2>2 DEF e
<1>4. Contacts(t) = {}
  BY <1>1, <1>3, ContactsOfBuckets
<1> QED  BY <1>4 DEF t

\* The table that a seeding starts again with.
Seeded(a, names) == FoldLeft(LAMBDA t, m : insert(t, IdOf(m)), NewTable(a), names)

\* Its contacts are the ids of these names, as far as there is room.
LEMMA SeededShows ==
    ASSUME NEW a \in IslandIds, NEW n \in Nat, NEW names \in [1..n -> Peers],
           \A k \in 1..n : IdOf(names[k]) # a
    PROVE  LET t == Seeded(a, names)
               ids == {IdOf(names[k]) : k \in 1..n}
           IN  /\ RoutesKept(t) /\ t.local_id = a /\ Contacts(t) \subseteq IslandIds
               /\ FewNodes => Contacts(t) = ids
<1> DEFINE X == {t \in Routes : RoutesKept(t) /\ t.local_id = a /\ Contacts(t) \subseteq IslandIds}
           put(t, i) == insert(t, IdOf(names[i]))
           step == [z \in X \X (1..n) |-> put(z[1], z[2])]
           base == NewTable(a)
           Rec(f) == [s \in SUBSET DOMAIN names |->
                         IF s = {} THEN NewTable(a) ELSE insert(f[s \ {Max(s)}], IdOf(names[Max(s)]))]
           iter == CHOOSE f : f = Rec(f)
           ids == [i \in 0..n |-> {IdOf(names[k]) : k \in 1..i}]
<1>1. DOMAIN names = 1..n /\ \A i \in 1..n : IdOf(names[i]) \in IslandIds \ {a}
  BY IdsAreFew
<1>2. Seeded(a, names) = iter[DOMAIN names]
  BY DEF Seeded, FoldLeft, MapThenFoldSet
<1>3. base \in X /\ Contacts(base) = {}
  BY IdsAreFew, NewTableKept, NewTableIsEmpty DEF SomeIds, RoutesKept
<1>4. ASSUME NEW t \in X, NEW i \in 1..n
      PROVE  put(t, i) \in X /\ (FewNodes => Contacts(put(t, i)) = Contacts(t) \union {IdOf(names[i])})
  <2> DEFINE id == IdOf(names[i])
  <2>1. id \in IslandIds /\ id \in NodeIds /\ id # a
    BY <1>1, IdsAreFew DEF SomeIds
  <2>2. RoutesKept(t) /\ t.local_id = a /\ Contacts(t) \subseteq IslandIds
    OBVIOUS
  <2> DEFINE v == insert(t, id)
  <2> HIDE DEF id, X
  <2>3. RoutesKept(v) /\ v.local_id = a
    BY <2>1, <2>2, InsertKeepsRoutes DEF insert
  <2>4. /\ Contacts(v) \subseteq Contacts(t) \union {id}
        /\ HasPlace(t, id) => Contacts(v) = Contacts(t) \union {id}
    BY <2>1, <2>2, InsertAdds
  <2>5. FewNodes => HasPlace(t, id)
    BY <2>1, <2>2, PlaceForFew
  <2>6. v \in Routes /\ Contacts(v) \subseteq IslandIds
    BY <2>1, <2>2, <2>3, <2>4 DEF RoutesKept
  <2> HIDE DEF v
  <2>7. v \in X
    BY <2>3, <2>6 DEF X
  <2> QED  BY <2>4, <2>5, <2>7 DEF v, id
<1> HIDE DEF X, base
<1>5. step \in [X \X (1..n) -> X] /\ \A t \in X, i \in 1..n : step[<<t, i>>] = put(t, i)
  BY <1>4
<1>6. \E f : f = Rec(f)
  <2> HIDE DEF step
  <2>1. PICK f : Folding(f, step, base, n)
    BY FoldingExists
  <2>2. ASSUME NEW s \in SUBSET (1..n), s # {}
        PROVE  f[s] = put(f[s \ {Max(s)}], Max(s))
    <3> DEFINE r == s \ {Max(s)}
    <3>1. n # 0
      <4>1. 1..0 = {}
        OBVIOUS
      <4> QED  BY <2>2, <4>1
    <3>2. r \in SUBSET (1..n) /\ Max(s) \in 1..n
      BY <2>2, <3>1, WithoutTheLast
    <3> HIDE DEF r
    <3>3. f[r] \in X
      BY <1>3, <1>5, <2>1, <3>2, FoldingTyped
    <3>4. f[s] = step[<<f[r], Max(s)>>]
      BY <2>1, <2>2 DEF Folding, r
    <3> HIDE DEF put
    <3> QED  BY <1>5, <3>2, <3>3, <3>4 DEF r
  <2>3. f = Rec(f)
    <3>1. f = [s \in SUBSET (1..n) |-> IF s = {} THEN base ELSE step[<<f[s \ {Max(s)}], Max(s)>>]]
      BY <2>1 DEF Folding
    <3>2. f = [s \in SUBSET (1..n) |-> f[s]]
      BY <3>1
    <3>3. {} \in SUBSET (1..n) /\ f[{}] = base
      BY <3>1
    <3> QED  BY <1>1, <2>2, <3>2, <3>3 DEF base
  <2> QED  BY <2>3
<1>7. iter = [s \in SUBSET (1..n) |-> IF s = {} THEN base ELSE put(iter[s \ {Max(s)}], Max(s))]
  BY <1>1, <1>6 DEF base
<1> HIDE DEF iter, Rec, put, step, ids
<1> DEFINE Y == {y \in Nat \X X : FewNodes => Contacts(y[2]) = ids[y[1]]}
           g == [i \in 0..n |-> <<i, iter[1..i]>>]
<1>8. g[0] \in Y
  <2>1. 1..0 = {} /\ {} \in SUBSET (1..n) /\ 0 \in 0..n
    OBVIOUS
  <2>2. iter[1..0] = base
    BY <1>7, <2>1
  <2>3. ids[0] = {}
    BY <2>1 DEF ids
  <2>4. g[0] = <<0, base>>
    BY <2>1, <2>2
  <2> HIDE DEF g
  <2>5. g[0] \in Nat \X X /\ g[0][1] = 0 /\ g[0][2] = base
    BY <1>3, <2>4
  <2>6. Contacts(g[0][2]) = ids[g[0][1]]
    BY <1>3, <2>3, <2>5
  <2> QED  BY <2>5, <2>6
<1>9. ASSUME NEW i \in 1..n, g[i - 1] \in Y PROVE g[i] \in Y
  <2> DEFINE t == iter[1..(i - 1)]
             m == i - 1
  <2>1. 1..i \in SUBSET (1..n) /\ 1..i # {} /\ i \in Nat /\ i # 0 /\ i \in 0..n /\ m \in 0..n
    <3>1. i \in Nat /\ i # 0 /\ i \in 1..i /\ i <= n /\ i - 1 \in Nat /\ i - 1 <= n
      OBVIOUS
    <3> QED  BY <3>1
  <2>2. Max(1..i) = i /\ (1..i) \ {i} = 1..(i - 1)
    BY <2>1, LastOfPlaces
  <2>3. iter[1..i] = put(t, i)
    BY <1>7, <2>1, <2>2
  <2>4. t \in X /\ (FewNodes => Contacts(t) = ids[m])
    BY <1>9, <2>1
  <2>5. ids[i] = ids[m] \union {IdOf(names[i])}
    <3>1. 1..i = (1..m) \union {i}
      BY <2>1
    <3> HIDE DEF m
    <3> QED  BY <2>1, <3>1 DEF ids
  <2>6. g[i] = <<i, put(t, i)>>
    BY <2>1, <2>3
  <2> HIDE DEF t, m, g
  <2>7. put(t, i) \in X /\ (FewNodes => Contacts(put(t, i)) = Contacts(t) \union {IdOf(names[i])})
    BY <1>4, <2>4
  <2>8. g[i] \in Nat \X X /\ g[i][1] = i /\ g[i][2] = put(t, i)
    BY <2>1, <2>6, <2>7
  <2>9. FewNodes => Contacts(g[i][2]) = ids[g[i][1]]
    BY <2>4, <2>5, <2>7, <2>8
  <2> QED  BY <2>8, <2>9
<1>10. n \in 0..n /\ g[n] = <<n, iter[1..n]>>
  OBVIOUS
<1>11. g[n] \in Y
  <2> HIDE DEF g, Y
  <2> QED  BY <1>8, <1>9, <1>10, StepByStep
<1>12. iter[1..n] \in X /\ (FewNodes => Contacts(iter[1..n]) = ids[n])
  BY <1>10, <1>11
<1> QED  BY <1>1, <1>2, <1>10, <1>12 DEF X, ids

-----------------------------------------------------------------------------
(***************************************************************************)
(* The island: links and tables.                                           *)
(***************************************************************************)

\* The inductive invariant: links go both ways and cost something, tables hold
\* ids of the island in their buckets, and unless a neighbour came up since they
\* were seeded the tables of few nodes show the links.
IslandInv ==
    /\ LinksKept
    /\ TablesKept
    /\ fresh /\ FewNodes => TablesShow

\* An island starts without links.
LEMMA IslandStarts == IslandInit => IslandInv
<1> SUFFICES ASSUME IslandInit PROVE IslandInv
  OBVIOUS
<1>1. LinksKept /\ \A n \in Peers : Neighbours(n) = {}
  BY DEF IslandInit, LinksKept, Neighbours
<1>2. ASSUME NEW n \in Peers
      PROVE  RoutesKept(tables[n]) /\ tables[n].local_id = IdOf(n) /\ Contacts(tables[n]) = {}
  <2>1. tables[n] = NewTable(IdOf(n)) /\ IdOf(n) \in NodeIds
    BY IslandFacts DEF IslandInit
  <2> QED  BY <2>1, NewTableKept, NewTableIsEmpty
<1>3. TablesShow
  BY <1>1, <1>2 DEF TablesShow
<1> QED  BY <1>1, <1>2, <1>3 DEF IslandInv, TablesKept

\* What a link costs.
LEMMA LinkCosts ==
    ASSUME NEW kind \in LinkTypes, NEW q \in Qualities
    PROVE  compute_edge_cost(kind, q) \in Nat /\ compute_edge_cost(kind, q) > 0
<1>1. base_cost(kind) \in Nat /\ base_cost(kind) >= 10
  BY IslandFacts DEF base_cost
<1> DEFINE r == 255 - q
<1>2. r \in Nat
  BY IslandFacts
<1> HIDE DEF r
<1>3. r \div 4 \in Nat
  BY <1>2, Division
<1> DEFINE s == r \div 4
<1>4. compute_edge_cost(kind, q) = base_cost(kind) + s
  BY DEF compute_edge_cost, r
<1> HIDE DEF s
<1>5. s \in Nat
  BY <1>3 DEF s
<1> QED  BY <1>1, <1>4, <1>5

\* A link adds the two ends to each other's neighbours.
LEMMA LinkKeeps ==
    ASSUME LinksKept, NEW a \in Peers, NEW b \in Peers, NEW kind \in LinkTypes, NEW q \in Qualities,
           a < b, link(a, b, kind, q)
    PROVE  /\ LinksKept'
           /\ b \in Neighbours(a) => \A u : Neighbours(u)' = Neighbours(u)
<1> DEFINE e == LinkEdge(a, b, kind, q)
           f == LinkEdge(b, a, kind, q)
           T == [from : Peers, to : Peers, link : LinkTypes, quality : Qualities, cost : Nat]
<1>1. a # b
  BY IslandFacts
<1>2. /\ e \in T /\ f \in T /\ e.cost > 0 /\ f.cost > 0
      /\ e.from = a /\ e.to = b /\ f.from = b /\ f.to = a /\ e.link = kind /\ f.link = kind
  BY LinkCosts DEF LinkEdge
<1>3. edges' = push_edge(push_edge(edges, e), f)
  BY DEF link, add_bidirectional
<1> HIDE DEF e, f
<1>4. edges' \subseteq edges \union {e, f}
  BY <1>3 DEF push_edge
<1>5. e \in edges' /\ f \in edges'
  BY <1>1, <1>2, <1>3 DEF push_edge
<1>6. \A g \in edges : g \in edges' \/ (g.from = a /\ g.to = b) \/ (g.from = b /\ g.to = a)
  BY <1>2, <1>3 DEF push_edge
<1>7. \A u, v : v \in Neighbours(u)' <=> v \in Neighbours(u) \/ (u = a /\ v = b) \/ (u = b /\ v = a)
  <2>1. \A u, v : v \in Neighbours(u) <=> \E g \in edges : g.from = u /\ g.to = v
    BY DEF Neighbours
  <2>2. \A u, v : v \in Neighbours(u)' <=> \E g \in edges' : g.from = u /\ g.to = v
    BY DEF Neighbours
  <2>3. ASSUME NEW u, NEW v, v \in Neighbours(u)'
        PROVE  v \in Neighbours(u) \/ (u = a /\ v = b) \/ (u = b /\ v = a)
    BY <1>2, <1>4, <2>1, <2>2, <2>3
  <2>4. ASSUME NEW u, NEW v, v \in Neighbours(u) \/ (u = a /\ v = b) \/ (u = b /\ v = a)
        PROVE  v \in Neighbours(u)'
    BY <1>2, <1>5, <1>6, <2>1, <2>2, <2>4
  <2> QED  BY <2>3, <2>4
<1>8. edges' \subseteq T /\ \A g \in edges' : g.cost > 0 /\ g.from # g.to
  <2>1. \A g \in edges : g \in T /\ g.cost > 0 /\ g.from # g.to
    BY DEF LinksKept
  <2> HIDE DEF T
  <2> QED  BY <1>1, <1>2, <1>4, <2>1
<1>9. \A u, v \in Peers : v \in Neighbours(u) => u \in Neighbours(v)
  BY DEF LinksKept
<1>10. \A u, v \in Peers : v \in Neighbours(u)' => u \in Neighbours(v)'
  BY <1>7, <1>9
<1>11. ASSUME b \in Neighbours(a) PROVE \A u : Neighbours(u)' = Neighbours(u)
  <2>1. a \in Neighbours(b)
    BY <1>9, <1>11
  <2>2. ASSUME NEW u PROVE Neighbours(u)' = Neighbours(u)
    <3>1. \A v : v \in Neighbours(u)' <=> v \in Neighbours(u)
      BY <1>7, <1>11, <2>1
    <3>2. Neighbours(u)' = {v.to : v \in {g \in edges' : g.from = u}}
      BY DEF Neighbours
    <3> QED  BY <3>1, <3>2 DEF Neighbours
  <2> QED  BY <2>2
<1>12. LinksKept'
  BY <1>8, <1>10 DEF LinksKept
<1> QED  BY <1>11, <1>12

\* After a seeding the tables show the links.
LEMMA SeedKeeps ==
    ASSUME LinksKept, seed_kademlia_from_topology
    PROVE  TablesKept' /\ (FewNodes => TablesShow')
<1>1. ASSUME NEW n \in Peers
      PROVE  /\ RoutesKept(tables'[n]) /\ tables'[n].local_id = IdOf(n)
             /\ Contacts(tables'[n]) \subseteq IslandIds
             /\ FewNodes => Contacts(tables'[n]) = {IdOf(m) : m \in Neighbours(n)}
  <2> DEFINE a == IdOf(n)
             S == Neighbours(n)
             names == ByName(S)
             k == Cardinality(S)
             ids == {IdOf(names[i]) : i \in 1..k}
  <2>1. S \subseteq Peers /\ n \notin S
    BY LinkFields DEF Neighbours
  <2>2. IsFiniteSet(S) /\ S \subseteq Nat
    <3> HIDE DEF S
    <3> QED  BY <2>1, IslandFacts, FS_Subset
  <2>3. tables'[n] = Seeded(a, names)
    BY DEF seed_kademlia_from_topology, Seeded
  <2> HIDE DEF S, names
  <2>4. names \in [1..k -> S] /\ k \in Nat /\ \A y \in S : \E i \in 1..k : names[i] = y
    BY <2>2, NamesInARow DEF names
  <2>5. names \in [1..k -> Peers] /\ a \in IslandIds /\ \A i \in 1..k : IdOf(names[i]) # a
    <3>1. \A i \in 1..k : names[i] \in Peers /\ names[i] # n
      BY <2>1, <2>4
    <3> QED  BY <2>4, <3>1, IdsAreFew, IslandFacts
  <2>6. ids = {IdOf(m) : m \in S}
    BY <2>4
  <2> HIDE DEF a, k
  <2>7. LET t == Seeded(a, names)
        IN  /\ RoutesKept(t) /\ t.local_id = a /\ Contacts(t) \subseteq IslandIds
            /\ FewNodes => Contacts(t) = ids
    BY <2>4, <2>5, SeededShows
  <2> HIDE DEF ids
  <2> QED  BY <2>3, <2>6, <2>7 DEF a, S
<1>2. TablesKept'
  BY <1>1 DEF TablesKept
<1>3. edges' = edges
  BY DEF seed_kademlia_from_topology
<1>4. FewNodes => TablesShow'
  BY <1>1, <1>3 DEF TablesShow, Neighbours
<1> QED  BY <1>2, <1>4

\* A link and a seeding keep the invariant.
LEMMA IslandKeeps == IslandInv /\ [IslandNext]_islandVars => IslandInv'
<1> SUFFICES ASSUME IslandInv, [IslandNext]_islandVars PROVE IslandInv'
  OBVIOUS
<1>1. ASSUME NEW a \in Peers, NEW b \in Peers, NEW kind \in LinkTypes, NEW q \in Qualities,
             a < b, link(a, b, kind, q)
      PROVE  IslandInv'
  <2>1. LinksKept' /\ (b \in Neighbours(a) => \A u : Neighbours(u)' = Neighbours(u))
    BY <1>1, LinkKeeps DEF IslandInv
  <2>2. tables' = tables /\ fresh' = (fresh /\ b \in Neighbours(a))
    BY <1>1 DEF link
  <2>3. TablesKept'
    BY <2>2 DEF IslandInv, TablesKept
  <2>4. ASSUME fresh', FewNodes PROVE TablesShow'
    <3>1. TablesShow /\ \A u : Neighbours(u)' = Neighbours(u)
      BY <2>1, <2>2, <2>4 DEF IslandInv
    <3> QED  BY <2>2, <3>1 DEF TablesShow
  <2> QED  BY <2>1, <2>3, <2>4 DEF IslandInv, FewNodes
<1>2. CASE seed_kademlia_from_topology
  <2>1. edges' = edges
    BY <1>2 DEF seed_kademlia_from_topology
  <2>2. LinksKept'
    BY <2>1 DEF IslandInv, LinksKept, Neighbours
  <2>3. TablesKept' /\ (FewNodes => TablesShow')
    BY <1>2, SeedKeeps DEF IslandInv
  <2> QED  BY <2>2, <2>3 DEF IslandInv, FewNodes
<1>3. CASE UNCHANGED islandVars
  BY <1>3 DEF islandVars, IslandInv, LinksKept, TablesKept, TablesShow, FewNodes, Neighbours
<1> QED  BY <1>1, <1>2, <1>3 DEF IslandNext

\* The invariant says enough about every packet.
LEMMA IslandRoutes == IslandInv => PacketsTakeTheCheapestPath
<1> SUFFICES ASSUME IslandInv, NEW src \in Peers, NEW dst \in Peers
             PROVE  /\ PathIsCheapest(src, dst)
                    /\ LookupIsComplete(kad_find(src, dst))
                    /\ fresh /\ Cardinality(Peers) <= K + 1 /\ src # dst =>
                          /\ kad_find(src, dst).found <=> shortest_path(src, dst) # NoPath
                          /\ route_packet(src, dst) = shortest_path(src, dst)
  BY DEF PacketsTakeTheCheapestPath
<1>1. LinksKept /\ TablesKept
  BY DEF IslandInv
<1>2. PathIsCheapest(src, dst)
  BY <1>1, PathsAreCheapest
<1>3. LookupIsComplete(kad_find(src, dst))
  BY <1>1, LookupsAreComplete
<1>4. ASSUME fresh, Cardinality(Peers) <= K + 1, src # dst
      PROVE  /\ kad_find(src, dst).found <=> shortest_path(src, dst) # NoPath
             /\ route_packet(src, dst) = shortest_path(src, dst)
  <2>1. FewNodes /\ TablesShow
    BY <1>4 DEF IslandInv, FewNodes
  <2>2. kad_find(src, dst).found <=> shortest_path(src, dst) # NoPath
    BY <1>1, <1>4, <2>1, PeersAreFound
  <2>3. route_packet(src, dst) = shortest_path(src, dst)
    BY <2>2 DEF route_packet
  <2> QED  BY <2>2, <2>3
<1> QED  BY <1>2, <1>3, <1>4

\* Dijkstra's search finds, over whatever links came up, a path of least cost
\* whose hops lead from the one node to the other and cost what it says, every
\* next hop is closer to the target (topology.rs: shortest_path, next_hop), no
\* lookup leaves out a contact it kept (kademlia_routing.rs: the iterative
\* FIND_NODE), and among few nodes whose tables were seeded since the last new
\* neighbour a lookup finds exactly those that a path leads to, so the packet
\* goes along the cheapest one (simulation.rs: route_packet).
THEOREM PacketsArrive == IslandSpec => []PacketsTakeTheCheapestPath
<1>1. IslandInit => IslandInv
  BY IslandStarts
<1>2. IslandInv /\ [IslandNext]_islandVars => IslandInv'
  BY IslandKeeps
<1>3. IslandInv => PacketsTakeTheCheapestPath
  BY IslandRoutes
<1> QED  BY <1>1, <1>2, <1>3, PTL DEF IslandSpec
=============================================================================
