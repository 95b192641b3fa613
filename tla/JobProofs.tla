------------------------------ MODULE JobProofs ------------------------------
(***************************************************************************)
(* Theorems about what the HTTP surface and the pump take in (JobIntake,   *)
(* and the bridge of Gateway), how jobs run (JobSandbox over BlockPool)    *)
(* what a model reads back of its tokens (PagedContext) and what the chess *)
(* engine finds (EngineSearch), for all limits, caps, sizes, game trees and *)
(* numbers of requests, threads and peers.                                 *)
(***************************************************************************)
EXTENDS JobSandbox, JobIntake, Gateway, PagedContext, EngineSearch, Sums, SequenceTheorems

-----------------------------------------------------------------------------
(***************************************************************************)
(* The pool.  The handles that are live partition the blocks in use until  *)
(* one is freed that is not live; from then on only the count is sound,    *)
(* because a free that meets a free block gives blocks back and keeps its  *)
(* count.                                                                  *)
(***************************************************************************)

LEMMA PoolSize ==
    /\ BlockSize \in Nat /\ BlockSize >= 1
    /\ total_blocks \in Nat
    /\ total_blocks * BlockSize <= MemLimit
    /\ \A size \in Nat : size > 0 => BlocksFor(size) \in Nat /\ BlocksFor(size) >= 1
<1>1. BlockSize \in Nat /\ BlockSize >= 1 /\ MemLimit \in Nat
  BY PoolAssumption DEF PoolAssumption
<1>2. total_blocks \in Nat /\ BlockSize * total_blocks <= MemLimit
  BY <1>1 DEF total_blocks
<1>3. ASSUME NEW size \in Nat, size > 0
      PROVE  BlocksFor(size) \in Nat /\ BlocksFor(size) >= 1
  <2>1. size + BlockSize - 1 \in Nat /\ size + BlockSize - 1 >= BlockSize
    BY <1>1, <1>3
  <2> QED
    BY <1>1, <2>1 DEF BlocksFor
<1> QED
  BY <1>1, <1>2, <1>3

\* What LiveHandlesAreSafe says while no handle has been misused.
Partition ==
    /\ \A h \in live : BlocksOf(h) \subseteq Blocks \ free
    /\ \A g, h \in live : g # h => BlocksOf(g) \cap BlocksOf(h) = {}
    /\ UNION {BlocksOf(h) : h \in live} = Blocks \ free
    /\ used_blocks = Cardinality(Blocks \ free)

LEMMA SafeMeans == (LiveHandlesAreSafe <=> (~misused => Partition))
BY DEF LiveHandlesAreSafe, Partition, Validate

HandlesFit == \A h \in issued \cup live : h.start + h.count <= total_blocks

PoolInv ==
    /\ PoolTypeOK
    /\ HandlesFit
    /\ Cardinality(Blocks \ free) <= used_blocks
    /\ ~misused => Partition

\* The blocks of a handle that fits are as many as it says, and at least one.
LEMMA HandleBlocks ==
    ASSUME NEW h \in BlockHandle, h.start + h.count <= total_blocks
    PROVE  /\ BlocksOf(h) \subseteq Blocks
           /\ h.start \in BlocksOf(h)
           /\ IsFiniteSet(BlocksOf(h))
           /\ Cardinality(BlocksOf(h)) = h.count
<1>1. /\ h.start \in Nat /\ h.count \in Nat /\ h.count >= 1
      /\ total_blocks \in Nat
  BY PoolSize DEF BlockHandle, Blocks
<1>2. BlocksOf(h) \subseteq Blocks /\ h.start \in BlocksOf(h)
  BY <1>1 DEF BlocksOf, Blocks
<1>3. IsFiniteSet(BlocksOf(h)) /\ Cardinality(BlocksOf(h)) = h.count
  <2> DEFINE a == h.start
             b == h.start + h.count - 1
  <2>1. a \in Int /\ b \in Int /\ ~(a > b) /\ b - a + 1 = h.count /\ BlocksOf(h) = a .. b
    BY <1>1 DEF BlocksOf
  <2> HIDE DEF a, b
  <2>2. IsFiniteSet(a .. b) /\ Cardinality(a .. b) = b - a + 1
    BY <2>1, FS_Interval
  <2> QED
    BY <2>1, <2>2
<1> QED
  BY <1>2, <1>3

LEMMA InUse ==
    ASSUME NEW F, F \subseteq Blocks
    PROVE  IsFiniteSet(Blocks \ F) /\ Cardinality(Blocks \ F) \in Nat
<1>1. IsFiniteSet(Blocks)
  BY PoolSize, FS_Interval DEF Blocks
<1> QED
  BY <1>1, FS_Difference, FS_CardinalityType

\* An empty pool is sound: a new one, a fresh host's, and one that was reset.
LEMMA EmptyPool ==
    ASSUME free' = Blocks, used_blocks' = 0, live' = {}, misused' = FALSE,
           issued' \subseteq BlockHandle,
           \A h \in issued' : h.start + h.count <= total_blocks
    PROVE  PoolInv'
<1>1. Blocks \ free' = {} /\ Cardinality({}) = 0
  BY FS_EmptySet
<1>2. Cardinality(Blocks \ free') = 0
  BY <1>1
<1>3. Blocks' = Blocks /\ total_blocks' = total_blocks /\ BlockHandle' = BlockHandle
  BY DEF Blocks, BlockHandle, total_blocks
<1>4. PoolTypeOK' /\ HandlesFit'
  <2>1. 0 \in 0 .. total_blocks
    BY PoolSize
  <2>2. PoolTypeOK'
    BY <1>3, <2>1 DEF PoolTypeOK
  <2>3. HandlesFit'
    BY <1>3 DEF HandlesFit
  <2> QED
    BY <2>2, <2>3
<1>5. Partition'
  BY <1>1, <1>2, <1>3 DEF Partition
<1> QED
  BY <1>2, <1>3, <1>4, <1>5 DEF PoolInv

LEMMA AllocateKeeps ==
    ASSUME PoolInv, NEW size \in Nat, Allocate(size), issued' = issued \/ issued' = issued \cup live'
    PROVE  PoolInv'
<1> DEFINE need == BlocksFor(size)
           run  == [start |-> Min(Fits(need)), count |-> need]
<1>1. /\ free \subseteq Blocks /\ used_blocks \in 0 .. total_blocks
      /\ live \subseteq BlockHandle /\ issued \subseteq BlockHandle /\ misused \in BOOLEAN
  BY DEF PoolInv, PoolTypeOK
<1>2. need \in Nat /\ need >= 1 /\ total_blocks \in Nat
  BY PoolSize DEF Allocate
<1>3. /\ used_blocks' = used_blocks + need /\ used_blocks' \in 0 .. total_blocks
      /\ free' = free \ BlocksOf(run) /\ live' = live \cup {run} /\ misused' = misused
  BY <1>1, <1>2 DEF Allocate
<1> HIDE DEF need
<1>4. Min(Fits(need)) \in Fits(need)
  <2>1. Fits(need) \subseteq Nat
    BY <1>2 DEF Fits, Blocks
  <2> QED
    BY <2>1, MinIsLeast DEF Allocate, need
<1>5. /\ run \in BlockHandle /\ run.start + run.count <= total_blocks
      /\ BlocksOf(run) \subseteq free
  <2> DEFINE first == Min(Fits(need))
  <2>1. first \in Fits(need)
    BY <1>4
  <2>2. run.start = first /\ run.count = need
    OBVIOUS
  <2> HIDE DEF first, run
  <2>3. /\ first \in Nat /\ first \in Blocks /\ first + need <= total_blocks
        /\ (first .. first + need - 1) \subseteq free
    BY <2>1, <1>2 DEF Fits, Blocks
  <2>4. need \in 1 .. total_blocks
    BY <1>2, <2>3
  <2>5. run = [start |-> first, count |-> need]
    BY DEF run, first
  <2>6. run \in BlockHandle
    BY <2>3, <2>4, <2>5 DEF BlockHandle
  <2>7. BlocksOf(run) \subseteq free
    BY <2>2, <2>3 DEF BlocksOf
  <2> QED
    BY <2>2, <2>3, <2>6, <2>7
<1> HIDE DEF run
<1>6. /\ IsFiniteSet(BlocksOf(run)) /\ Cardinality(BlocksOf(run)) = need
      /\ run.start \in BlocksOf(run)
  BY <1>5, HandleBlocks DEF run
<1>7. Cardinality(Blocks \ free') = Cardinality(Blocks \ free) + need
  <2>1. /\ Blocks \ free' = (Blocks \ free) \cup BlocksOf(run)
        /\ (Blocks \ free) \cap BlocksOf(run) = {}
    BY <1>1, <1>3, <1>5
  <2>2. IsFiniteSet(Blocks \ free) /\ Cardinality(Blocks \ free) \in Nat
    BY <1>1, InUse
  <2>3. Cardinality((Blocks \ free) \cup BlocksOf(run))
            = Cardinality(Blocks \ free) + Cardinality(BlocksOf(run)) - Cardinality({})
    BY <2>1, <2>2, <1>6, FS_Union
  <2>4. Cardinality((Blocks \ free) \cup BlocksOf(run)) = Cardinality(Blocks \ free) + need
    BY <2>2, <2>3, <1>2, <1>6, FS_EmptySet
  <2> QED
    BY <2>1, <2>4
<1>8. PoolTypeOK' /\ HandlesFit'
  BY <1>1, <1>3, <1>5 DEF PoolInv, PoolTypeOK, HandlesFit, Blocks, BlockHandle, total_blocks
<1>9. Cardinality(Blocks \ free') <= used_blocks'
  BY <1>1, <1>2, <1>3, <1>7, InUse DEF PoolInv
<1>10. ~misused' => Partition'
  <2> SUFFICES ASSUME ~misused PROVE Partition'
    BY <1>3
  <2>1. Partition
    BY DEF PoolInv
  <2>2. /\ Blocks' = Blocks
        /\ \A h : BlocksOf(h)' = BlocksOf(h)
    BY DEF Blocks, BlocksOf, total_blocks
  <2>3. Blocks \ free' = (Blocks \ free) \cup BlocksOf(run)
    BY <1>1, <1>3, <1>5
  <2>4. \A h \in live' : BlocksOf(h) \subseteq Blocks \ free'
    BY <2>1, <2>3, <1>3 DEF Partition
  <2>5. \A h \in live : BlocksOf(h) \cap BlocksOf(run) = {}
    BY <2>1, <1>5 DEF Partition
  <2>6. \A g, h \in live' : g # h => BlocksOf(g) \cap BlocksOf(h) = {}
    BY <2>1, <2>5, <1>3 DEF Partition
  <2>7. UNION {BlocksOf(h) : h \in live'} = Blocks \ free'
    BY <2>1, <2>3, <1>3 DEF Partition
  <2>8. used_blocks' = Cardinality(Blocks \ free')
    BY <2>1, <1>3, <1>7 DEF Partition
  <2> QED
    BY <2>2, <2>4, <2>6, <2>7, <2>8 DEF Partition
<1> QED
  BY <1>8, <1>9, <1>10 DEF PoolInv

LEMMA FreeKeeps ==
    ASSUME PoolInv, NEW h \in issued, Free(h)
    PROVE  PoolInv'
<1> DEFINE mine   == BlocksOf(h)
           stale  == mine \cap free
           passed == IF stale = {} THEN mine ELSE h.start .. Min(stale) - 1
<1>1. /\ free \subseteq Blocks /\ used_blocks \in 0 .. total_blocks /\ total_blocks \in Nat
      /\ live \subseteq BlockHandle /\ issued \subseteq BlockHandle /\ misused \in BOOLEAN
      /\ Cardinality(Blocks \ free) <= used_blocks
  BY PoolSize DEF PoolInv, PoolTypeOK
<1>2. /\ h \in BlockHandle
      /\ mine \subseteq Blocks /\ h.start \in mine /\ IsFiniteSet(mine)
      /\ Cardinality(mine) = h.count
  BY <1>1, HandleBlocks DEF PoolInv, HandlesFit
<1>3. /\ free' = free \cup passed
      /\ used_blocks' = IF stale = {} THEN used_blocks - h.count ELSE used_blocks
      /\ live' = live \ {h} /\ issued' = issued
      /\ misused' = (misused \/ h \notin live)
  BY DEF Free
<1>4. passed \subseteq mine
  <2> SUFFICES ASSUME stale # {} PROVE h.start .. Min(stale) - 1 \subseteq mine
    OBVIOUS
  <2>1. Min(stale) \in mine
    <3>1. stale \subseteq Nat
      BY <1>2 DEF Blocks
    <3> QED
      BY <3>1, MinIsLeast
  <2>2. h.start \in Nat /\ h.count \in Nat
    BY <1>2 DEF BlockHandle, Blocks
  <2> QED
    BY <2>1, <2>2 DEF BlocksOf
<1>5. h.count \in Nat /\ h.count >= 1
  BY <1>2 DEF BlockHandle
<1> HIDE DEF mine, stale, passed
<1>6. IsFiniteSet(Blocks \ free) /\ Cardinality(Blocks \ free) \in Nat
  BY <1>1, InUse
<1>7. free' \subseteq Blocks
  BY <1>1, <1>2, <1>3, <1>4
<1>8. Cardinality(Blocks \ free') <= Cardinality(Blocks \ free)
  BY <1>3, <1>6, FS_Subset
<1>9. ASSUME stale = {}
      PROVE  /\ Blocks \ free' = (Blocks \ free) \ mine
             /\ Cardinality(Blocks \ free') = Cardinality(Blocks \ free) - h.count
             /\ used_blocks' \in 0 .. total_blocks
  <2>1. passed = mine /\ mine \subseteq Blocks \ free
    BY <1>2, <1>9 DEF passed, stale
  <2>2. Blocks \ free' = (Blocks \ free) \ mine
    BY <2>1, <1>3
  <2>3. (Blocks \ free) \cap mine = mine
    BY <2>1
  <2>4. Cardinality((Blocks \ free) \ mine) = Cardinality(Blocks \ free) - Cardinality(mine)
    BY <2>3, <1>6, FS_Difference
  <2>5. h.count <= Cardinality(Blocks \ free)
    BY <2>1, <1>2, <1>6, FS_Subset
  <2>6. Cardinality(Blocks \ free') = Cardinality(Blocks \ free) - h.count
    BY <2>2, <2>4, <1>2
  <2>7. used_blocks - h.count \in 0 .. total_blocks
    BY <2>5, <1>1, <1>5, <1>6
  <2> QED
    BY <2>2, <2>6, <2>7, <1>3, <1>9
<1>10. PoolTypeOK' /\ HandlesFit'
  <2>1. used_blocks' \in 0 .. total_blocks
    BY <1>1, <1>3, <1>9
  <2> QED
    BY <2>1, <1>1, <1>3, <1>7
       DEF PoolInv, PoolTypeOK, HandlesFit, Blocks, BlockHandle, total_blocks
<1>11. Cardinality(Blocks \ free') <= used_blocks'
  <2>1. CASE stale = {}
    BY <2>1, <1>1, <1>3, <1>5, <1>6, <1>9
  <2>2. CASE stale # {}
    <3>1. Cardinality(Blocks \ free') \in Nat
      BY <1>7, InUse
    <3> QED
      BY <2>2, <3>1, <1>1, <1>3, <1>6, <1>8
  <2> QED
    BY <2>1, <2>2
<1>12. ~misused' => Partition'
  <2> SUFFICES ASSUME ~misused' PROVE Partition'
    OBVIOUS
  <2>1. ~misused /\ h \in live /\ Partition
    BY <1>1, <1>3 DEF PoolInv
  <2>2. stale = {}
    BY <2>1 DEF Partition, stale, mine
  <2>3. /\ Blocks' = Blocks
        /\ \A g : BlocksOf(g)' = BlocksOf(g)
    BY DEF Blocks, BlocksOf, total_blocks
  <2>4. Blocks \ free' = (Blocks \ free) \ mine
    BY <2>2, <1>9
  <2>5. \A g \in live' : BlocksOf(g) \cap mine = {} /\ g \in live
    BY <2>1, <1>3 DEF Partition, mine
  <2>6. \A g \in live' : BlocksOf(g) \subseteq Blocks \ free'
    BY <2>1, <2>4, <2>5 DEF Partition
  <2>7. UNION {BlocksOf(g) : g \in live'} = Blocks \ free'
    <3>1. ASSUME NEW x \in Blocks \ free' PROVE \E g \in live' : x \in BlocksOf(g)
      <4>1. x \in UNION {BlocksOf(g) : g \in live} /\ x \notin mine
        BY <2>1, <2>4, <3>1 DEF Partition
      <4> QED
        BY <4>1, <1>3 DEF mine
    <3> QED
      BY <3>1, <2>6
  <2>8. used_blocks' = Cardinality(Blocks \ free')
    BY <2>1, <2>2, <1>3, <1>9 DEF Partition
  <2> QED
    BY <2>1, <2>3, <2>5, <2>6, <2>7, <2>8 DEF Partition
<1> QED
  BY <1>10, <1>11, <1>12 DEF PoolInv

\* A pool in a job or in the hands of a caller, reset and loaded anew at any
\* time, stays sound.
LEMMA PoolInvariant == Spec => []PoolInv
<1>1. Init => PoolInv
  <2> SUFFICES ASSUME Init PROVE PoolInv
    OBVIOUS
  <2>1. /\ free = Blocks /\ used_blocks = 0 /\ issued = {} /\ live = {} /\ misused = FALSE
    BY DEF Init, PoolInit
  <2>2. Blocks \ free = {} /\ Cardinality({}) = 0
    BY <2>1, FS_EmptySet
  <2>3. Cardinality(Blocks \ free) = 0
    BY <2>2
  <2>4. PoolTypeOK /\ HandlesFit
    <3>1. 0 \in 0 .. total_blocks
      BY PoolSize
    <3>2. PoolTypeOK
      BY <2>1, <3>1 DEF PoolTypeOK
    <3>3. HandlesFit
      BY <2>1 DEF HandlesFit
    <3> QED
      BY <3>2, <3>3
  <2>5. Partition
    BY <2>1, <2>2, <2>3 DEF Partition
  <2> QED
    BY <2>1, <2>3, <2>4, <2>5 DEF PoolInv
<1>2. PoolInv /\ [Next]_vars => PoolInv'
  <2> SUFFICES ASSUME PoolInv, [Next]_vars PROVE PoolInv'
    OBVIOUS
  <2>1. ASSUME UNCHANGED poolVars PROVE PoolInv'
    BY <2>1 DEF poolVars, PoolInv, PoolTypeOK, HandlesFit, Partition, Blocks, BlocksOf,
                BlockHandle, total_blocks
  <2>2. /\ issued \subseteq BlockHandle
        /\ \A h \in issued : h.start + h.count <= total_blocks
    BY DEF PoolInv, PoolTypeOK, HandlesFit
  <2>3. ASSUME FreshHost PROVE PoolInv'
    BY <2>3, EmptyPool DEF FreshHost
  <2>4. ASSUME PoolReset PROVE PoolInv'
    BY <2>2, <2>4, EmptyPool DEF PoolReset
  <2>5. Sizes \subseteq Nat
    BY PoolAssumption DEF PoolAssumption
  <2>6. ASSUME NEW n \in 0 .. total_blocks, AllocProbe(n), UNCHANGED issued PROVE PoolInv'
    <3>1. (IF n = 0 THEN 1 ELSE n * BlockSize) \in Nat
      BY PoolSize
    <3> QED
      BY <2>6, <3>1, AllocateKeeps DEF AllocProbe
  <2>7. CASE CallPool
    <3>1. CASE \E size \in Sizes : Allocate(size) /\ issued' = issued \cup live'
      BY <2>5, <3>1, AllocateKeeps
    <3>2. CASE \E h \in issued : Free(h)
      BY <3>2, FreeKeeps
    <3> QED
      BY <2>4, <2>7, <3>1, <3>2 DEF CallPool, PoolNext
  <2>8. CASE \E s \in Seeds, t \in 0 .. MaxSteps, m \in Metas : Mint(s, t, m)
    BY <2>1, <2>8 DEF Mint
  <2>9. CASE Alter \/ Discard
    BY <2>1, <2>9 DEF Alter, Discard
  <2>10. CASE AdmitAndLoad \/ Load
    BY <2>3, <2>10 DEF AdmitAndLoad, Load
  <2>11. CASE \E size \in Sizes : HostAllocate(size)
    BY <2>5, <2>11, AllocateKeeps DEF HostAllocate
  <2>12. CASE \E n \in 0 .. total_blocks : Invoke(n)
    BY <2>6, <2>12 DEF Invoke
  <2>13. CASE \E n \in 0 .. total_blocks : InvokeAdmitted(n)
    <3> PICK n \in 0 .. total_blocks : InvokeAdmitted(n)
      BY <2>13
    <3>1. CASE AllocProbe(n)
      BY <2>6, <3>1 DEF InvokeAdmitted
    <3>2. CASE UNCHANGED <<free, used_blocks, live, misused>>
      BY <2>1, <3>2 DEF InvokeAdmitted, poolVars
    <3> QED
      BY <3>1, <3>2 DEF InvokeAdmitted
  <2>14. CASE Reset
    BY <2>4, <2>14 DEF Reset
  <2>15. CASE UNCHANGED vars
    BY <2>1, <2>15 DEF vars
  <2> QED
    BY <2>7, <2>8, <2>9, <2>10, <2>11, <2>12, <2>13, <2>14, <2>15 DEF Next
<1> QED
  BY <1>1, <1>2, PTL DEF Spec

\* Whatever stale handles are freed, and however jobs are loaded, reset and run,
\* the pool never counts less than is in use nor passes its ceiling, and handles
\* that are live are disjoint as long as only live ones are freed.
THEOREM PoolStaysSound == Spec => []PoolStaysTrue
<1>1. PoolInv => PoolStaysTrue
  <2> SUFFICES ASSUME PoolInv PROVE PoolStaysTrue
    OBVIOUS
  <2>1. used_blocks \in 0 .. total_blocks
    BY DEF PoolInv, PoolTypeOK
  <2>2. used_blocks * BlockSize <= total_blocks * BlockSize
    <3>1. (total_blocks - used_blocks) * BlockSize >= 0
      BY <2>1, PoolSize
    <3> QED
      BY <2>1, <3>1, PoolSize
  <2>3. MemLimit \in Nat
    BY PoolAssumption DEF PoolAssumption
  <2>4. used_bytes <= MemLimit
    <3> DEFINE u == used_blocks * BlockSize
               m == total_blocks * BlockSize
    <3>1. u \in Nat /\ m \in Nat /\ u <= m /\ m <= MemLimit
      BY <2>1, <2>2, PoolSize
    <3> HIDE DEF u, m
    <3>2. u <= MemLimit
      BY <2>3, <3>1
    <3> QED
      BY <3>2 DEF u, used_bytes
  <2> QED
    BY <2>4, SafeMeans DEF PoolInv, PoolStaysTrue, UsageNeverUnderstated
<1> QED
  BY <1>1, PoolInvariant, PTL

-----------------------------------------------------------------------------
(***************************************************************************)
(* The delay proof.  The functions of the delay are defined by             *)
(* recursion on the number of steps; an iteration is such a function, and  *)
(* facts about all of its values are proved by the least step at which one *)
(* would fail.  The divider's remainders are the powers of two modulo the  *)
(* challenge, and at each step pi^ell * x^r is the output so far.          *)
(***************************************************************************)

\* f starts with a and takes the step s again and again, n times.
Iterates(f, D, s, a, n) ==
    /\ f \in [0 .. n -> D]
    /\ f[0] = a
    /\ \A i \in 1 .. n : f[i] = s[f[i - 1]]

LEMMA IterationExists ==
    ASSUME NEW D, NEW s \in [D -> D], NEW a \in D, NEW n \in Nat
    PROVE  \E f : Iterates(f, D, s, a, n)
<1> DEFINE T == {m \in Nat : ~ \E f : Iterates(f, D, s, a, m)}
<1> SUFFICES ASSUME T # {} PROVE FALSE
  OBVIOUS
<1>1. PICK m \in T : \A k \in T : m <= k
  <2>1. T \subseteq Nat
    OBVIOUS
  <2> HIDE DEF T
  <2> QED
    BY <2>1, LeastNumber
<1>2. CASE m = 0
  <2>1. Iterates([i \in 0 .. 0 |-> a], D, s, a, 0)
    BY DEF Iterates
  <2> QED
    BY <2>1, <1>2
<1>3. CASE m # 0
  <2>1. m - 1 \in Nat /\ m - 1 \notin T
    BY <1>1, <1>3
  <2>2. PICK f : Iterates(f, D, s, a, m - 1)
    BY <2>1
  <2> DEFINE g == [i \in 0 .. m |-> IF i = m THEN s[f[m - 1]] ELSE f[i]]
  <2>3. g \in [0 .. m -> D] /\ g[0] = a
    BY <2>1, <2>2 DEF Iterates
  <2>4. \A i \in 1 .. m : g[i] = s[g[i - 1]]
    BY <2>1, <2>2 DEF Iterates
  <2>5. Iterates(g, D, s, a, m)
    BY <2>3, <2>4 DEF Iterates
  <2> QED
    BY <2>5
<1> QED
  BY <1>2, <1>3

LEMMA IterationsAgree ==
    ASSUME NEW D, NEW s, NEW a, NEW n \in Nat, NEW m \in Nat, NEW f, NEW g,
           Iterates(f, D, s, a, n), Iterates(g, D, s, a, m), NEW i \in Nat, i <= n, i <= m
    PROVE  f[i] = g[i]
<1> DEFINE T == {k \in Nat : k <= n /\ k <= m /\ f[k] # g[k]}
<1> SUFFICES ASSUME T # {} PROVE FALSE
  OBVIOUS
<1>1. PICK k \in T : \A j \in T : k <= j
  <2>1. T \subseteq Nat
    OBVIOUS
  <2> HIDE DEF T
  <2> QED
    BY <2>1, LeastNumber
<1>2. k # 0
  BY DEF Iterates
<1>3. k - 1 \in Nat /\ k - 1 \notin T
  BY <1>1, <1>2
<1>4. f[k - 1] = g[k - 1]
  BY <1>3
<1> QED
  BY SMTT(30), <1>2, <1>4 DEF Iterates


LEMMA Iterating ==
    ASSUME NEW D, NEW s \in [D -> D], NEW a \in D, NEW n \in Nat, NEW f,
           f[0] = a, DOMAIN f = 0 .. n, f = [i \in DOMAIN f |-> f[i]],
           \A i \in 1 .. n : f[i - 1] \in D => f[i] = s[f[i - 1]]
    PROVE  Iterates(f, D, s, a, n)
<1> DEFINE T == {k \in Nat : k <= n /\ f[k] \notin D}
<1>1. T = {}
  <2> SUFFICES ASSUME T # {} PROVE FALSE
    OBVIOUS
  <2>1. PICK k \in T : \A j \in T : k <= j
    <3>1. T \subseteq Nat
      OBVIOUS
    <3> HIDE DEF T
    <3> QED
      BY <3>1, LeastNumber
  <2>2. k # 0
    OBVIOUS
  <2>3. k - 1 \in Nat /\ k - 1 \notin T
    BY <2>1, <2>2
  <2>4. f[k - 1] \in D /\ k \in 1 .. n
    BY <2>2, <2>3
  <2> QED
    BY <2>4
<1>2. \A i \in 0 .. n : f[i] \in D
  BY <1>1
<1>3. f \in [0 .. n -> D]
  BY <1>2
<1>4. \A i \in 1 .. n : f[i] = s[f[i - 1]]
  BY <1>2
<1> QED
  BY <1>3, <1>4 DEF Iterates

LEMMA RestOfProduct ==
    ASSUME NEW n \in Nat, n >= 1, NEW a \in Nat, NEW b \in Nat
    PROVE  ((a % n) * b) % n = (a * b) % n
<1> DEFINE q == a \div n
           r == a % n
<1>1. q \in Nat /\ r \in Nat /\ a = n * q + r
  BY Division
<1> HIDE DEF q, r
<1>2. a * b = n * (q * b) + r * b
  <2>1. a * b = (n * q + r) * b
    BY <1>1
  <2>2. (n * q + r) * b = (n * q) * b + r * b
    BY <1>1
  <2>3. (n * q) * b = n * (q * b)
    BY <1>1
  <2> QED
    BY <2>1, <2>2, <2>3
<1>3. (n * (q * b) + r * b) % n = (r * b) % n
  <2> DEFINE k == q * b
             c == r * b
  <2>1. k \in Int /\ c \in Int
    BY <1>1
  <2> HIDE DEF k, c
  <2>2. (n * k + c) % n = c % n
    BY <2>1, RestOfMultiple
  <2> QED
    BY <2>2 DEF k, c
<1> QED
  BY <1>2, <1>3 DEF r

LEMMA ModPowIterates ==
    ASSUME NEW b \in Nat, NEW e \in Nat, NEW n \in Nat, n >= 1
    PROVE  \E f : /\ Iterates(f, Nat, [v \in Nat |-> (v * b) % n], 1 % n, e)
                  /\ ModPow(b, e, n) = f[e]
<1> DEFINE s == [v \in Nat |-> (v * b) % n]
           Rec(p) == [i \in 0 .. e |-> IF i = 0 THEN 1 % n ELSE (p[i - 1] * b) % n]
           F == CHOOSE p : p = Rec(p)
<1>1. s \in [Nat -> Nat] /\ 1 % n \in Nat
  OBVIOUS
<1>2. PICK f : Iterates(f, Nat, s, 1 % n, e)
  <2> HIDE DEF s
  <2> QED
    BY <1>1, IterationExists
<1>3. f = Rec(f)
  <2>1. f = [i \in 0 .. e |-> f[i]]
    BY <1>2 DEF Iterates
  <2>2. ASSUME NEW i \in 0 .. e
        PROVE  f[i] = IF i = 0 THEN 1 % n ELSE (f[i - 1] * b) % n
    <3>1. CASE i = 0
      BY <3>1, <1>2 DEF Iterates
    <3>2. CASE i # 0
      <4>1. i \in 1 .. e /\ i - 1 \in 0 .. e
        BY <3>2
      <4>2. f[i] = s[f[i - 1]] /\ f[i - 1] \in Nat
        BY <4>1, <1>2 DEF Iterates
      <4> QED
        BY <3>2, <4>2
    <3> QED
      BY <3>1, <3>2
  <2> QED
    BY <2>1, <2>2
<1>4. F = Rec(F)
  BY <1>3
<1>5. ModPow(b, e, n) = F[e]
  BY DEF ModPow
<1> HIDE DEF F
<1>6. /\ F[0] = 1 % n /\ DOMAIN F = 0 .. e /\ F = [i \in DOMAIN F |-> F[i]]
      /\ \A i \in 1 .. e : F[i] = (F[i - 1] * b) % n
  <2>1. /\ Rec(F)[0] = 1 % n /\ DOMAIN Rec(F) = 0 .. e
        /\ Rec(F) = [i \in DOMAIN Rec(F) |-> Rec(F)[i]]
        /\ \A i \in 1 .. e : Rec(F)[i] = (F[i - 1] * b) % n
    OBVIOUS
  <2> HIDE DEF Rec
  <2> QED
    BY <2>1, <1>4
<1>7. \A i \in 1 .. e : F[i - 1] \in Nat => F[i] = s[F[i - 1]]
  BY <1>6
<1> HIDE DEF s
<1>8. Iterates(F, Nat, s, 1 % n, e)
  BY <1>1, <1>6, <1>7, Iterating
<1> QED
  BY <1>5, <1>8 DEF s

LEMMA ModPowStep ==
    ASSUME NEW b \in Nat, NEW n \in Nat, n >= 1
    PROVE  /\ ModPow(b, 0, n) = 1 % n
           /\ \A e \in Nat : /\ ModPow(b, e, n) \in Nat
                             /\ ModPow(b, e, n) \in 0 .. n - 1
                             /\ ModPow(b, e + 1, n) = (ModPow(b, e, n) * b) % n
<1> DEFINE s == [v \in Nat |-> (v * b) % n]
<1>1. ModPow(b, 0, n) = 1 % n
  <2>1. PICK f : Iterates(f, Nat, s, 1 % n, 0) /\ ModPow(b, 0, n) = f[0]
    <3>1. 0 \in Nat
      OBVIOUS
    <3> QED
      BY <3>1, ModPowIterates
  <2> QED
    BY <2>1 DEF Iterates
<1>2. ASSUME NEW e \in Nat
      PROVE  /\ ModPow(b, e, n) \in 0 .. n - 1
             /\ ModPow(b, e + 1, n) = (ModPow(b, e, n) * b) % n
  <2>1. PICK f : Iterates(f, Nat, s, 1 % n, e) /\ ModPow(b, e, n) = f[e]
    BY ModPowIterates
  <2>2. PICK g : Iterates(g, Nat, s, 1 % n, e + 1) /\ ModPow(b, e + 1, n) = g[e + 1]
    <3>1. e + 1 \in Nat
      OBVIOUS
    <3> QED
      BY <3>1, ModPowIterates
  <2>3. f[e] = g[e]
    <3> HIDE DEF s
    <3>1. e + 1 \in Nat /\ e <= e + 1 /\ e <= e
      OBVIOUS
    <3> QED
      BY <3>1, <2>1, <2>2, IterationsAgree
  <2>4. f[e] \in Nat /\ g[e + 1] = s[g[e]]
    BY <2>1, <2>2 DEF Iterates
  <2>5. f[e] \in 0 .. n - 1
    <3>1. CASE e = 0
      BY <3>1, <2>1 DEF Iterates
    <3>2. CASE e # 0
      <4>1. e \in 1 .. e /\ e - 1 \in 0 .. e
        BY <3>2
      <4>2. f[e] = s[f[e - 1]] /\ f[e - 1] \in Nat
        BY <4>1, <2>1 DEF Iterates
      <4>3. f[e - 1] * b \in Nat
        BY <4>2
      <4> QED
        BY <4>2, <4>3
    <3> QED
      BY <3>1, <3>2
  <2> QED
    BY <2>1, <2>2, <2>3, <2>4, <2>5
<1> QED
  BY <1>1, <1>2

\* Rests multiply.
LEMMA RestsMultiply ==
    ASSUME NEW n \in Nat, n >= 1, NEW a \in Nat, NEW b \in Nat
    PROVE  /\ ((a % n) * (b % n)) % n = (a * b) % n
           /\ ((a % n) * b) % n = (a * b) % n
           /\ (a * (b % n)) % n = (a * b) % n
<1>1. a % n \in Nat /\ b % n \in Nat
  OBVIOUS
<1>2. ((a % n) * b) % n = (a * b) % n
  BY RestOfProduct
<1>3. ((b % n) * a) % n = (b * a) % n
  BY RestOfProduct
<1>4. ((b % n) * (a % n)) % n = (b * (a % n)) % n
  BY <1>1, RestOfProduct
<1> DEFINE r == a % n
           u == b % n
<1>5. r \in Nat /\ u \in Nat
  BY <1>1
<1> HIDE DEF r, u
<1>6. r * u = u * r /\ r * b = b * r /\ u * a = a * u /\ a * b = b * a
  BY <1>5
<1> QED
  BY <1>2, <1>3, <1>4, <1>6 DEF r, u

\* The laws of powers, by the least exponent at which one would fail.
LEMMA PowersAdd ==
    ASSUME NEW b \in Nat, NEW n \in Nat, n >= 1, NEW e \in Nat, NEW k \in Nat
    PROVE  ModPow(b, e + k, n) = (ModPow(b, e, n) * ModPow(b, k, n)) % n
<1> DEFINE E(i) == ModPow(b, i, n)
           T == {j \in Nat : E(e + j) # (E(e) * E(j)) % n}
<1> SUFFICES ASSUME T # {} PROVE FALSE
  OBVIOUS
<1>1. PICK j \in T : \A i \in T : j <= i
  <2>1. T \subseteq Nat
    OBVIOUS
  <2> HIDE DEF T
  <2> QED
    BY <2>1, LeastNumber
<1>2. /\ E(0) = 1 % n
      /\ \A i \in Nat : E(i) \in 0 .. n - 1 /\ E(i + 1) = (E(i) * b) % n
  BY ZenonT(30), ModPowStep
<1> HIDE DEF E
<1>3. CASE j = 0
  <2>1. E(e) \in Nat /\ E(e) % n = E(e) /\ e + 0 = e /\ E(e) * 1 = E(e)
    <3>1. E(e) \in 0 .. n - 1
      BY <1>2
    <3> QED
      BY <3>1, SmallRest
  <2>2. (E(e) * (1 % n)) % n = (E(e) * 1) % n
    BY <2>1, RestsMultiply
  <2>3. E(e + 0) = (E(e) * E(0)) % n
    BY <2>1, <2>2, <1>2
  <2> QED
    BY <2>3, <1>1, <1>3
<1>4. CASE j # 0
  <2> DEFINE i == j - 1
             u == E(e)
             v == E(i)
  <2>1. i \in Nat /\ i \notin T /\ j = i + 1
    BY <1>1, <1>4
  <2>2. u \in Nat /\ v \in Nat /\ E(e + i) = (u * v) % n
    BY <2>1, <1>2
  <2>3. E(j) = (v * b) % n /\ E(e + j) = (E(e + i) * b) % n
    <3>1. e + i \in Nat /\ e + j = (e + i) + 1
      BY <2>1
    <3> QED
      BY <3>1, <2>1, <1>2
  <2> HIDE DEF u, v
  <2>4. u * v \in Nat /\ v * b \in Nat /\ (u * v) * b = u * (v * b)
    BY <2>2
  <2>5. (((u * v) % n) * b) % n = ((u * v) * b) % n
    BY <2>4, RestsMultiply
  <2>6. (u * ((v * b) % n)) % n = (u * (v * b)) % n
    BY <2>2, <2>4, RestsMultiply
  <2>7. E(e + j) = (u * E(j)) % n
    BY <2>2, <2>3, <2>4, <2>5, <2>6
  <2> QED
    BY <2>7, <1>1 DEF u
<1> QED
  BY <1>3, <1>4

LEMMA PowersOfProducts ==
    ASSUME NEW a \in Nat, NEW b \in Nat, NEW n \in Nat, n >= 1, NEW e \in Nat
    PROVE  ModPow((a * b) % n, e, n) = (ModPow(a, e, n) * ModPow(b, e, n)) % n
<1> DEFINE c == (a * b) % n
           A(i) == ModPow(a, i, n)
           B(i) == ModPow(b, i, n)
           C(i) == ModPow(c, i, n)
           T == {j \in Nat : C(j) # (A(j) * B(j)) % n}
<1> SUFFICES ASSUME T # {} PROVE FALSE
  OBVIOUS
<1>1. PICK j \in T : \A i \in T : j <= i
  <2>1. T \subseteq Nat
    OBVIOUS
  <2> HIDE DEF T
  <2> QED
    BY <2>1, LeastNumber
<1>2. a * b \in Nat /\ c \in Nat
  OBVIOUS
<1> HIDE DEF c
<1>3. /\ A(0) = 1 % n /\ B(0) = 1 % n /\ C(0) = 1 % n
      /\ \A i \in Nat : /\ A(i) \in Nat /\ A(i + 1) = (A(i) * a) % n
                        /\ B(i) \in Nat /\ B(i + 1) = (B(i) * b) % n
                        /\ C(i) \in Nat /\ C(i + 1) = (C(i) * c) % n
  <2>1. A(0) = 1 % n /\ \A i \in Nat : A(i) \in Nat /\ A(i + 1) = (A(i) * a) % n
    BY ZenonT(30), ModPowStep
  <2>2. B(0) = 1 % n /\ \A i \in Nat : B(i) \in Nat /\ B(i + 1) = (B(i) * b) % n
    BY ModPowStep
  <2>3. C(0) = 1 % n /\ \A i \in Nat : C(i) \in Nat /\ C(i + 1) = (C(i) * c) % n
    BY ZenonT(30), <1>2, ModPowStep
  <2> HIDE DEF A, B, C
  <2> QED
    BY <2>1, <2>2, <2>3
<1> HIDE DEF A, B, C
<1>4. CASE j = 0
  <2>1. ((1 % n) * (1 % n)) % n = (1 * 1) % n
    BY RestsMultiply
  <2> QED
    BY SMTT(30), <2>1, <1>1, <1>3, <1>4
<1>5. CASE j # 0
  <2> DEFINE i == j - 1
             u == A(i)
             v == B(i)
  <2>1. i \in Nat /\ i \notin T /\ j = i + 1
    BY <1>1, <1>5
  <2>2. /\ u \in Nat /\ v \in Nat /\ C(i) = (u * v) % n
        /\ A(j) = (u * a) % n /\ B(j) = (v * b) % n /\ C(j) = (C(i) * c) % n
    BY <2>1, <1>3
  <2> HIDE DEF u, v
  <2>3. /\ u * v \in Nat /\ u * a \in Nat /\ v * b \in Nat
        /\ (u * v) * (a * b) = (u * a) * (v * b)
    BY <2>2
  <2>4. (((u * v) % n) * ((a * b) % n)) % n = ((u * v) * (a * b)) % n
    BY ZenonT(30), <2>3, <1>2, RestsMultiply
  <2>5. (((u * a) % n) * ((v * b) % n)) % n = ((u * a) * (v * b)) % n
    BY ZenonT(30), <2>3, RestsMultiply
  <2>6. C(j) = (A(j) * B(j)) % n
    BY <2>2, <2>3, <2>4, <2>5 DEF c
  <2> QED
    BY <2>6, <1>1
<1> QED
  BY <1>4, <1>5

\* The squarings and the long division are iterations too.
LEMMA OutputIterates ==
    ASSUME NEW x \in Nat, NEW t \in Nat, Modulus \in Nat, Modulus >= 1
    PROVE  \E f : /\ Iterates(f, Nat, [v \in Nat |-> (v * v) % Modulus], x, t)
                  /\ Output(x, t) = f[t]
<1> DEFINE s == [v \in Nat |-> (v * v) % Modulus]
           Rec(p) == [i \in 0 .. t |-> IF i = 0 THEN x ELSE (p[i - 1] * p[i - 1]) % Modulus]
           F == CHOOSE p : p = Rec(p)
<1>1. s \in [Nat -> Nat]
  OBVIOUS
<1>2. PICK f : Iterates(f, Nat, s, x, t)
  <2> HIDE DEF s
  <2> QED
    BY <1>1, IterationExists
<1>3. f = Rec(f)
  <2>1. f = [i \in 0 .. t |-> f[i]]
    BY <1>2 DEF Iterates
  <2>2. ASSUME NEW i \in 0 .. t
        PROVE  f[i] = IF i = 0 THEN x ELSE (f[i - 1] * f[i - 1]) % Modulus
    <3>1. CASE i = 0
      BY <3>1, <1>2 DEF Iterates
    <3>2. CASE i # 0
      <4>1. i \in 1 .. t /\ i - 1 \in 0 .. t
        BY <3>2
      <4>2. f[i] = s[f[i - 1]] /\ f[i - 1] \in Nat
        BY <4>1, <1>2 DEF Iterates
      <4> QED
        BY <3>2, <4>2
    <3> QED
      BY <3>1, <3>2
  <2> QED
    BY <2>1, <2>2
<1>4. F = Rec(F)
  BY <1>3
<1>5. Output(x, t) = F[t]
  BY DEF Output
<1> HIDE DEF F
<1>6. /\ F[0] = x /\ DOMAIN F = 0 .. t /\ F = [i \in DOMAIN F |-> F[i]]
      /\ \A i \in 1 .. t : F[i] = (F[i - 1] * F[i - 1]) % Modulus
  <2>1. /\ Rec(F)[0] = x /\ DOMAIN Rec(F) = 0 .. t
        /\ Rec(F) = [i \in DOMAIN Rec(F) |-> Rec(F)[i]]
        /\ \A i \in 1 .. t : Rec(F)[i] = (F[i - 1] * F[i - 1]) % Modulus
    OBVIOUS
  <2> HIDE DEF Rec
  <2> QED
    BY <2>1, <1>4
<1>7. \A i \in 1 .. t : F[i - 1] \in Nat => F[i] = s[F[i - 1]]
  BY <1>6
<1> HIDE DEF s
<1>8. Iterates(F, Nat, s, x, t)
  BY <1>1, <1>6, <1>7, Iterating
<1> QED
  BY <1>5, <1>8 DEF s

\* One step of the long division.
Dividing(x, ell) ==
    [v \in [pi : Nat, r : Nat] |->
        [pi |-> IF 2 * v.r >= ell THEN (((v.pi * v.pi) % Modulus) * x) % Modulus
                ELSE (v.pi * v.pi) % Modulus,
         r  |-> (2 * v.r) % ell]]

LEMMA ProofIterates ==
    ASSUME NEW x \in Nat, NEW ell \in Nat, ell >= 1, NEW t \in Nat,
           Modulus \in Nat, Modulus >= 1
    PROVE  \E f : /\ Iterates(f, [pi : Nat, r : Nat], Dividing(x, ell), [pi |-> 1, r |-> 1], t)
                  /\ Proof(x, ell, t) = f[t].pi
<1> DEFINE D == [pi : Nat, r : Nat]
           s == Dividing(x, ell)
           a == [pi |-> 1, r |-> 1]
           Rec(p) == [i \in 0 .. t |->
                         IF i = 0 THEN [pi |-> 1, r |-> 1]
                         ELSE LET two_r == 2 * p[i - 1].r
                                  sq    == (p[i - 1].pi * p[i - 1].pi) % Modulus
                              IN  [pi |-> IF two_r >= ell THEN (sq * x) % Modulus ELSE sq,
                                   r  |-> two_r % ell]]
           F == CHOOSE p : p = Rec(p)
<1>1. s \in [D -> D] /\ a \in D
  <2>1. ASSUME NEW v \in D PROVE s[v] \in D
    <3>1. /\ v.pi \in Nat /\ v.r \in Nat /\ v.pi * v.pi \in Nat
          /\ (v.pi * v.pi) % Modulus \in Nat
      OBVIOUS
    <3>2. (2 * v.r) % ell \in Nat
      BY <3>1
    <3>3. (((v.pi * v.pi) % Modulus) * x) % Modulus \in Nat
      BY <3>1
    <3> QED
      BY <3>1, <3>2, <3>3 DEF Dividing
  <2> QED
    BY <2>1 DEF Dividing
<1>2. PICK f : Iterates(f, D, s, a, t)
  <2> HIDE DEF D, s, a
  <2> QED
    BY <1>1, IterationExists
<1>3. f = Rec(f)
  <2>1. f = [i \in 0 .. t |-> f[i]]
    BY <1>2 DEF Iterates
  <2>2. ASSUME NEW i \in 0 .. t
        PROVE  f[i] = Rec(f)[i]
    <3>1. CASE i = 0
      BY <3>1, <1>2 DEF Iterates
    <3>2. CASE i # 0
      <4>1. i \in 1 .. t /\ i - 1 \in 0 .. t
        BY <3>2
      <4>2. f[i] = s[f[i - 1]] /\ f[i - 1] \in D
        BY <4>1, <1>2 DEF Iterates
      <4> QED
        BY <3>2, <4>2 DEF Dividing
    <3> QED
      BY <3>1, <3>2
  <2>3. Rec(f) = [i \in 0 .. t |-> Rec(f)[i]]
    OBVIOUS
  <2> HIDE DEF Rec
  <2> QED
    BY <2>1, <2>2, <2>3
<1>4. F = Rec(F)
  <2> HIDE DEF Rec
  <2> QED
    BY <1>3
<1>5. Proof(x, ell, t) = F[t].pi
  BY DEF Proof
<1> HIDE DEF F
<1>6. /\ F[0] = a /\ DOMAIN F = 0 .. t /\ F = [i \in DOMAIN F |-> F[i]]
      /\ \A i \in 1 .. t : F[i] = Rec(F)[i]
  <2>1. /\ Rec(F)[0] = a /\ DOMAIN Rec(F) = 0 .. t
        /\ Rec(F) = [i \in DOMAIN Rec(F) |-> Rec(F)[i]]
    OBVIOUS
  <2> HIDE DEF Rec
  <2> QED
    BY <2>1, <1>4
<1>7. ASSUME NEW i \in 1 .. t, F[i - 1] \in D
      PROVE  F[i] = s[F[i - 1]]
  <2>1. i \in 0 .. t /\ i # 0
    OBVIOUS
  <2> QED
    BY <2>1, <1>6, <1>7 DEF Dividing
<1> HIDE DEF s, a, D
<1>8. Iterates(F, D, s, a, t)
  BY <1>1, <1>6, <1>7, Iterating
<1> QED
  BY <1>5, <1>8 DEF s, a, D

LEMMA PowersOfOne ==
    ASSUME NEW n \in Nat, n >= 1, NEW e \in Nat
    PROVE  ModPow(1, e, n) = 1 % n
<1> DEFINE E(i) == ModPow(1, i, n)
           T == {j \in Nat : E(j) # 1 % n}
<1> SUFFICES ASSUME T # {} PROVE FALSE
  OBVIOUS
<1>1. PICK j \in T : \A i \in T : j <= i
  <2>1. T \subseteq Nat
    OBVIOUS
  <2> HIDE DEF T
  <2> QED
    BY <2>1, LeastNumber
<1>2. /\ E(0) = 1 % n
      /\ \A i \in Nat : E(i + 1) = (E(i) * 1) % n
  BY ModPowStep
<1> HIDE DEF E
<1>3. j # 0
  BY <1>1, <1>2
<1>4. j - 1 \in Nat /\ j - 1 \notin T /\ j = (j - 1) + 1
  BY <1>1, <1>3
<1>5. E(j) = ((1 % n) * 1) % n
  BY <1>2, <1>4
<1>6. ((1 % n) * 1) % n = 1 % n
  <2>1. ((1 % n) * 1) % n = (1 * 1) % n
    BY RestsMultiply
  <2> QED
    BY <2>1
<1> QED
  BY <1>1, <1>5, <1>6

\* Two products may be taken in any order before the rest is.
LEMMA FourFactors ==
    ASSUME NEW n \in Nat, n >= 1, NEW u \in Nat, NEW v \in Nat
    PROVE  (((u * u) % n) * ((v * v) % n)) % n = (((u * v) % n) * ((u * v) % n)) % n
<1>1. /\ u * u \in Nat /\ v * v \in Nat /\ u * v \in Nat
      /\ (u * u) * (v * v) = (u * v) * (u * v)
  OBVIOUS
<1>2. (((u * u) % n) * ((v * v) % n)) % n = ((u * u) * (v * v)) % n
  BY <1>1, RestsMultiply
<1>3. (((u * v) % n) * ((u * v) % n)) % n = ((u * v) * (u * v)) % n
  BY <1>1, RestsMultiply
<1> QED
  BY <1>1, <1>2, <1>3

\* Squaring what the verifier computes so far, and dividing the doubled exponent
\* by ell: the factor x that the prover then multiplies in takes ell of it.
LEMMA DivisionStep ==
    ASSUME Modulus \in Nat, Modulus >= 1, NEW x \in Nat, NEW ell \in Nat, ell >= 1,
           NEW f \in [pi : Nat, r : Nat], f.r < ell
    PROVE  LET g == Dividing(x, ell)[f]
               y == (ModPow(f.pi, ell, Modulus) * ModPow(x, f.r, Modulus)) % Modulus
           IN  /\ g.r < ell
               /\ (ModPow(g.pi, ell, Modulus) * ModPow(x, g.r, Modulus)) % Modulus
                      = (y * y) % Modulus
<1> DEFINE n   == Modulus
           pi  == f.pi
           r   == f.r
           y   == (ModPow(pi, ell, n) * ModPow(x, r, n)) % n
           npi == Dividing(x, ell)[f].pi
           nr  == Dividing(x, ell)[f].r
<1>a. /\ n \in Nat /\ n >= 1
      /\ pi \in Nat /\ r \in Nat /\ r < ell
      /\ y = (ModPow(pi, ell, n) * ModPow(x, r, n)) % n
      /\ nr = (2 * r) % ell
      /\ npi = IF 2 * r >= ell THEN (((pi * pi) % n) * x) % n ELSE (pi * pi) % n
  BY DEF Dividing
<1> SUFFICES nr < ell /\ (ModPow(npi, ell, n) * ModPow(x, nr, n)) % n = (y * y) % n
  OBVIOUS
<1> HIDE DEF n, pi, r, y, npi, nr
<1> USE <1>a
<1> DEFINE E(b, e) == ModPow(b, e, n)
           sq == (pi * pi) % n
           u  == E(pi, ell)
           v  == E(x, r)
<1>1. u \in Nat /\ v \in Nat /\ sq \in Nat /\ pi * pi \in Nat
  BY ModPowStep
<1>2. E(sq, ell) = (u * u) % n
  BY PowersOfProducts
<1>3. E(x, r + r) = (v * v) % n
  BY PowersAdd
<1>4. (((u * u) % n) * ((v * v) % n)) % n = (y * y) % n
  BY ZenonT(30), <1>1, FourFactors
<1>5. CASE 2 * r >= ell
  <2> DEFINE k == 2 * r - ell
  <2>1. k \in Nat /\ k < ell /\ 2 * r = ell * 1 + k /\ r + r = ell + k
    BY <1>5
  <2>2. nr = k
    <3>1. (ell * 1 + k) % ell = k % ell
      <4>1. k \in Int /\ 1 \in Int
        BY <2>1
      <4> HIDE DEF k
      <4> QED
        BY <4>1, RestOfMultiple
    <3>2. k \in 0 .. ell - 1
      BY <2>1
    <3> HIDE DEF k
    <3> QED
      BY <3>1, <3>2, <2>1, SmallRest
  <2> HIDE DEF k
  <2>3. E(npi, ell) = (E(sq, ell) * E(x, ell)) % n
    <3>1. npi = (sq * x) % n
      BY <1>5
    <3> HIDE DEF sq
    <3>2. ModPow((sq * x) % n, ell, n) = (ModPow(sq, ell, n) * ModPow(x, ell, n)) % n
      BY <1>1, PowersOfProducts
    <3> QED
      BY <3>1, <3>2
  <2>4. E(x, r + r) = (E(x, ell) * E(x, k)) % n
    <3>1. E(x, ell + k) = (E(x, ell) * E(x, k)) % n
      BY <2>1, PowersAdd
    <3> HIDE DEF E
    <3> QED
      BY <3>1, <2>1
  <2> DEFINE a == E(sq, ell)
             b == E(x, ell)
             c == E(x, k)
  <2>5. a \in Nat /\ b \in Nat /\ c \in Nat
    BY <1>1, <2>1, ModPowStep
  <2> HIDE DEF a, b, c
  <2>6. a * b \in Nat /\ b * c \in Nat /\ (a * b) * c = a * (b * c)
    BY <2>5
  <2>7. (((a * b) % n) * c) % n = ((a * b) * c) % n
    BY ZenonT(30), <2>5, <2>6, RestsMultiply
  <2>8. (a * ((b * c) % n)) % n = (a * (b * c)) % n
    BY <2>5, <2>6, RestsMultiply
  <2>9. (E(npi, ell) * E(x, nr)) % n = (a * E(x, r + r)) % n
    <3>1. E(npi, ell) = (a * b) % n /\ E(x, nr) = c /\ E(x, r + r) = (b * c) % n
      BY <2>2, <2>3, <2>4 DEF a, b, c
    <3> HIDE DEF E
    <3> QED
      BY <3>1, <2>6, <2>7, <2>8
  <2> QED
    BY <2>1, <2>2, <2>9, <1>2, <1>3, <1>4 DEF a
<1>6. CASE ~(2 * r >= ell)
  <2>1. 2 * r \in 0 .. ell - 1 /\ 2 * r = r + r
    BY <1>6
  <2>2. nr = r + r
    BY <2>1, SmallRest
  <2>3. npi = sq
    BY <1>6
  <2>4. nr < ell
    BY <2>1, <2>2
  <2> QED
    BY <2>2, <2>3, <2>4, <1>2, <1>3, <1>4
<1> QED
  BY <1>5, <1>6

\* The prover's proof satisfies the verifier's equation, for every element, every
\* number of steps and every challenge above one (evaluate_wesolowski against
\* verify_vdf_proof_detailed: long division against two powers).
THEOREM DelayProofsVerify ==
    ASSUME Modulus \in Nat, Modulus >= 2, NEW x \in 0 .. Modulus - 1,
           NEW ell \in Nat, ell >= 2, NEW t \in Nat
    PROVE  (ModPow(Proof(x, ell, t), ell, Modulus) * ModPow(x, ModPow(2, t, ell), Modulus))
               % Modulus = Output(x, t)
<1> DEFINE n == Modulus
           R(i) == ModPow(2, i, ell)
<1>1. PICK f : Iterates(f, Nat, [v \in Nat |-> (v * v) % Modulus], x, t) /\ Output(x, t) = f[t]
  <2>1. x \in Nat /\ Modulus >= 1
    OBVIOUS
  <2> QED
    BY <2>1, OutputIterates
<1>2. PICK g : /\ Iterates(g, [pi : Nat, r : Nat], Dividing(x, ell), [pi |-> 1, r |-> 1], t)
               /\ Proof(x, ell, t) = g[t].pi
  <2>1. x \in Nat /\ Modulus >= 1 /\ ell >= 1
    OBVIOUS
  <2> QED
    BY <2>1, ProofIterates
<1> DEFINE Good(i) ==
      /\ g[i].r = R(i) /\ g[i].r < ell
      /\ (ModPow(g[i].pi, ell, Modulus) * ModPow(x, g[i].r, Modulus)) % Modulus = f[i]
           T == {i \in Nat : i <= t /\ ~Good(i)}
<1>3. T = {}
  <2> SUFFICES ASSUME T # {} PROVE FALSE
    OBVIOUS
  <2>1. PICK j \in T : \A i \in T : j <= i
    <3>1. T \subseteq Nat
      OBVIOUS
    <3> HIDE DEF T
    <3> QED
      BY <3>1, LeastNumber
  <2>2. R(0) = 1 % ell /\ \A i \in Nat : R(i) \in Nat /\ R(i + 1) = (R(i) * 2) % ell
    <3>1. ell >= 1 /\ 2 \in Nat
      OBVIOUS
    <3> HIDE DEF R
    <3> QED
      BY <3>1, ModPowStep DEF R
  <2>3. CASE j = 0
    <3>1. g[0] = [pi |-> 1, r |-> 1] /\ f[0] = x
      BY <1>1, <1>2 DEF Iterates
    <3>2. R(0) = 1
      <4>1. 1 \in 0 .. ell - 1
        OBVIOUS
      <4>2. 1 % ell = 1
        BY <4>1, SmallRest
      <4> HIDE DEF R
      <4> QED
        BY <4>2, <2>2
    <3>3. ModPow(1, ell, Modulus) = 1 % Modulus /\ 1 % Modulus = 1
      <4>1. 1 \in 0 .. Modulus - 1 /\ Modulus >= 1
        OBVIOUS
      <4> QED
        BY <4>1, SmallRest, PowersOfOne
    <3>4. ModPow(x, 1, Modulus) = x
      <4>1. x \in Nat /\ Modulus >= 1 /\ 0 \in Nat /\ 0 + 1 = 1
        OBVIOUS
      <4>2. ModPow(x, 0 + 1, Modulus) = (ModPow(x, 0, Modulus) * x) % Modulus
            /\ ModPow(x, 0, Modulus) = 1 % Modulus
        BY ZenonT(30), <4>1, ModPowStep
      <4>3. 1 * x = x /\ x % Modulus = x
        BY <4>1, SmallRest
      <4> QED
        BY <4>1, <4>2, <4>3, <3>3
    <3>5. (1 * x) % Modulus = x
      <4>1. 1 * x = x /\ x % Modulus = x
        BY SmallRest
      <4> QED
        BY <4>1
    <3>6. Good(0)
      <4> HIDE DEF R
      <4> QED
        BY <3>1, <3>2, <3>3, <3>4, <3>5
    <3> QED
      BY <3>6, <2>1, <2>3
  <2>4. CASE j # 0
    <3> DEFINE i == j - 1
    <3>1. i \in Nat /\ i \notin T /\ j = i + 1 /\ j \in 1 .. t /\ i \in 0 .. t
      BY <2>1, <2>4
    <3>2. Good(i)
      BY <3>1
    <3>3. /\ f[j] = (f[i] * f[i]) % Modulus
          /\ g[j] = Dividing(x, ell)[g[i]] /\ g[i] \in [pi : Nat, r : Nat]
      BY <3>1, <1>1, <1>2 DEF Iterates
    <3> HIDE DEF i
    <3>4. /\ g[i].pi \in Nat /\ g[i].r \in Nat
          /\ g[j].pi = IF 2 * g[i].r >= ell THEN (((g[i].pi * g[i].pi) % Modulus) * x) % Modulus
                       ELSE (g[i].pi * g[i].pi) % Modulus
          /\ g[j].r = (2 * g[i].r) % ell
      BY <3>3 DEF Dividing
    <3>5. /\ g[j].r < ell
          /\ (ModPow(g[j].pi, ell, Modulus) * ModPow(x, g[j].r, Modulus)) % Modulus
                 = (f[i] * f[i]) % Modulus
      <4>1. Modulus >= 1 /\ ell >= 1 /\ x \in Nat
        OBVIOUS
      <4>2. f[i] = (ModPow(g[i].pi, ell, Modulus) * ModPow(x, g[i].r, Modulus)) % Modulus
            /\ g[i].r < ell
        BY <3>2
      <4> HIDE DEF Good, R, T
      <4> QED
        BY <4>1, <4>2, <3>3, DivisionStep
    <3>6. g[j].r = R(j)
      <4>1. R(j) = (R(i) * 2) % ell /\ R(i) \in Nat
        <5> HIDE DEF R
        <5> QED
          BY <3>1, <2>2
      <4>2. g[i].r = R(i)
        <5> HIDE DEF R
        <5> QED
          BY <3>2
      <4> HIDE DEF R
      <4>3. R(i) * 2 = 2 * R(i)
        BY <4>1
      <4> QED
        BY <4>1, <4>2, <4>3, <3>4
    <3>7. Good(j)
      <4> HIDE DEF R
      <4> QED
        BY <3>3, <3>5, <3>6
    <3> QED
      BY <3>7, <2>1
  <2> QED
    BY <2>3, <2>4
<1>4. Good(t)
  <2> HIDE DEF Good
  <2> QED
    BY <1>3
<1> QED
  BY <1>1, <1>2, <1>4

-----------------------------------------------------------------------------
(***************************************************************************)
(* The gate.  A receipt may be altered on its way, but every field keeps   *)
(* its type, and an admitted job's id is one that the gate recomputed.     *)
(***************************************************************************)

LEMMA GroupLimits ==
    /\ Modulus \in Nat /\ Modulus > 2
    /\ MaxSteps \in Nat
    /\ \A s \in Seeds, t \in 1 .. MaxSteps : GroupDigest(s, t) \in Nat
    /\ \A x, y \in 0 .. Modulus - 1, t \in 1 .. MaxSteps :
          FiatShamirPrime(x, y, t) \in Nat /\ FiatShamirPrime(x, y, t) >= 2
BY GateAssumption DEF GateAssumption

\* The prover works in the group: output and proof of at least one step are
\* remainders.
LEMMA ProverStaysInGroup ==
    ASSUME NEW seed \in Seeds, NEW t \in 1 .. MaxSteps
    PROVE  LET x == HashToGroup(seed, t)
               y == Output(x, t)
               ell == FiatShamirPrime(x, y, t)
           IN  /\ x \in 2 .. Modulus - 1
               /\ y \in 0 .. Modulus - 1
               /\ ell \in Nat /\ ell >= 2
               /\ Proof(x, ell, t) \in 0 .. Modulus - 1
<1> DEFINE x == HashToGroup(seed, t)
           y == Output(x, t)
           ell == FiatShamirPrime(x, y, t)
<1>1. Modulus \in Nat /\ Modulus >= 1 /\ Modulus > 2 /\ t \in Nat /\ t >= 1 /\ t \in 1 .. t
  BY GroupLimits
<1>2. x \in 2 .. Modulus - 1
  <2> DEFINE d == GroupDigest(seed, t)
             n == Modulus - 2
  <2>1. d \in Nat /\ n \in Nat /\ n >= 1
    BY GroupLimits
  <2>2. x = (d % n) + 2
    BY DEF HashToGroup
  <2> HIDE DEF d, x
  <2>3. d % n \in 0 .. n - 1
    BY <2>1
  <2> QED
    BY <2>2, <2>3, <1>1
<1> HIDE DEF x
<1>3. x \in Nat /\ x \in 0 .. Modulus - 1
  BY <1>1, <1>2
<1>4. y \in 0 .. Modulus - 1
  <2> DEFINE square == [v \in Nat |-> (v * v) % Modulus]
  <2>1. PICK f : Iterates(f, Nat, square, x, t) /\ y = f[t]
    BY <1>1, <1>3, OutputIterates
  <2>2. f[t - 1] \in Nat /\ f[t] = (f[t - 1] * f[t - 1]) % Modulus
    <3>1. \A v \in Nat : square[v] = (v * v) % Modulus
      OBVIOUS
    <3> HIDE DEF square, y
    <3>2. f[t - 1] \in Nat /\ f[t] = square[f[t - 1]]
      BY <2>1, <1>1 DEF Iterates
    <3> QED
      BY <3>1, <3>2
  <2> DEFINE q == f[t - 1] * f[t - 1]
  <2>3. q \in Nat /\ y = q % Modulus
    BY <2>1, <2>2
  <2> HIDE DEF q, y
  <2> QED
    BY <2>3, <1>1
<1> HIDE DEF y
<1>5. ell \in Nat /\ ell >= 2 /\ ell >= 1
  BY <1>3, <1>4, GroupLimits
<1> HIDE DEF ell
<1>6. Proof(x, ell, t) \in 0 .. Modulus - 1
  <2>1. PICK f : /\ Iterates(f, [pi : Nat, r : Nat], Dividing(x, ell), [pi |-> 1, r |-> 1], t)
                 /\ Proof(x, ell, t) = f[t].pi
    BY <1>1, <1>3, <1>5, ProofIterates
  <2>2. f[t - 1] \in [pi : Nat, r : Nat] /\ f[t] = Dividing(x, ell)[f[t - 1]]
    BY <2>1, <1>1 DEF Iterates
  <2> DEFINE sq == (f[t - 1].pi * f[t - 1].pi) % Modulus
  <2>3. sq \in 0 .. Modulus - 1
    <3> DEFINE q == f[t - 1].pi * f[t - 1].pi
    <3>1. q \in Nat
      BY <2>2
    <3> HIDE DEF q
    <3> QED
      BY <3>1, <1>1 DEF q
  <2>4. f[t].pi = sq \/ f[t].pi = (sq * x) % Modulus
    BY <2>2 DEF Dividing
  <2> HIDE DEF sq
  <2>5. (sq * x) % Modulus \in 0 .. Modulus - 1
    <3> DEFINE q == sq * x
    <3>1. q \in Nat
      BY <2>3, <1>3
    <3> HIDE DEF q
    <3> QED
      BY <3>1, <1>1 DEF q
  <2> QED
    BY <2>1, <2>3, <2>4, <2>5
<1> QED
  BY <1>2, <1>4, <1>5, <1>6 DEF x, y, ell

\* The gate lets in whoever paid: a receipt as it was minted, with the steps the
\* policy asks for, is admitted if its two elements are not zero.  The equation
\* cannot fail it, whatever the seed, the number of steps and the challenge.
THEOREM HonestReceiptsAreAdmitted ==
    ASSUME NEW seed \in Seeds, NEW t \in 1 .. MaxSteps, NEW meta,
           NEW r \in IssueTest(seed, t, meta),
           t >= MinSteps, r.final_x # 0, r.proof # 0
    PROVE  AdmitJob(r) /\ Verifies(EvaluateVdf(seed, t))
<1> DEFINE x == HashToGroup(seed, t)
           y == Output(x, t)
           ell == FiatShamirPrime(x, y, t)
<1>1. /\ x \in 2 .. Modulus - 1 /\ y \in 0 .. Modulus - 1
      /\ ell \in Nat /\ ell >= 2
      /\ Proof(x, ell, t) \in 0 .. Modulus - 1
  BY ProverStaysInGroup
<1>2. Evaluate(seed, t) = [output |-> y, proof |-> Proof(x, ell, t)]
  BY DEF Evaluate
<1>3. r = [start_x |-> seed, steps |-> t, final_x |-> y, proof |-> Proof(x, ell, t),
           modulus_id |-> Registered, job_meta |-> meta, job_did |-> MintDid(y, meta)]
  BY <1>2 DEF IssueTest, EvaluateWesolowski
<1>4. Modulus \in Nat /\ Modulus >= 2 /\ t \in Nat /\ t # 0 /\ x \in 0 .. Modulus - 1
  BY <1>1, GroupLimits
<1>5. (ModPow(Proof(x, ell, t), ell, Modulus) * ModPow(x, ModPow(2, t, ell), Modulus))
          % Modulus = y
  <2> HIDE DEF x, ell
  <2> QED
    BY <1>1, <1>4, DelayProofsVerify
<1>6. EquationHolds(seed, t, y, Proof(x, ell, t))
  BY <1>5 DEF EquationHolds
<1>7. Canonical(y) /\ Canonical(Proof(x, ell, t))
  <2>1. y # 0 /\ Proof(x, ell, t) # 0
    BY <1>3
  <2> HIDE DEF x, y, ell
  <2> QED
    BY <2>1, <1>1, <1>4 DEF Canonical
<1>8. AdmitJob(r)
  <2> HIDE DEF x, y, ell
  <2> QED
    BY <1>3, <1>4, <1>6, <1>7 DEF AdmitJob, VerifyReceipt
<1>9. Verifies(EvaluateVdf(seed, t))
  <2>1. EvaluateVdf(seed, t) =
          [modulus_id |-> Registered, iterations |-> t, claimed_iterations |-> t,
           input |-> seed, output |-> y, proof |-> Proof(x, ell, t)]
    BY <1>2 DEF EvaluateVdf
  <2> HIDE DEF x, y, ell
  <2> QED
    BY <2>1, <1>4, <1>6, <1>7 DEF Verifies
<1> QED
  BY <1>8, <1>9

\* A job runs as admitted only under an id that the gate recomputed from a proof
\* it verified since the last reset or load, whatever receipts were minted,
\* altered, presented and discarded meanwhile.
THEOREM GateIsSound == Spec => []GateIsExact
<1>1. Init => GateIsExact
  BY DEF Init, GateIsExact, OnlyPaidJobsRun
<1>2. GateIsExact /\ [Next]_vars => GateIsExact'
  <2> SUFFICES ASSUME GateIsExact, [Next]_vars PROVE GateIsExact'
    OBVIOUS
  <2>1. VdfReceipt' = VdfReceipt
    BY DEF VdfReceipt
  <2>2. ASSUME UNCHANGED <<receipt, admitted_did, paid, ran>> PROVE GateIsExact'
    BY <2>2, <2>1 DEF GateIsExact, OnlyPaidJobsRun
  <2>3. CASE CallPool
    BY <2>2, <2>3 DEF CallPool, gateVars
  <2>4. CASE \E s \in Seeds, t \in 0 .. MaxSteps, m \in Metas : Mint(s, t, m)
    <3> PICK s \in Seeds, t \in 0 .. MaxSteps, m \in Metas : Mint(s, t, m)
      BY <2>4
    <3>1. PICK r \in IssueTest(s, t, m) : receipt' = r
      BY DEF Mint
    <3>2. t \in 1 .. MaxSteps
      <4>1. t # 0
        BY <3>1 DEF IssueTest, EvaluateWesolowski
      <4> QED
        BY <4>1, GroupLimits
    <3> DEFINE x == HashToGroup(s, t)
               y == Output(x, t)
               pi == Proof(x, FiatShamirPrime(x, y, t), t)
    <3>3. y \in 0 .. Modulus /\ pi \in 0 .. Modulus
      <4>1. y \in 0 .. Modulus - 1 /\ pi \in 0 .. Modulus - 1
        BY <3>2, ProverStaysInGroup
      <4> HIDE DEF y, pi
      <4> QED
        BY <4>1, GroupLimits
    <3>4. r = [start_x |-> s, steps |-> t, final_x |-> y, proof |-> pi,
               modulus_id |-> Registered, job_meta |-> m, job_did |-> MintDid(y, m)]
      BY DEF IssueTest, EvaluateWesolowski, Evaluate
    <3> HIDE DEF y, pi
    <3>5. r \in VdfReceipt
      BY <3>3, <3>4 DEF VdfReceipt
    <3> QED
      BY <2>1, <3>1, <3>5 DEF Mint, GateIsExact, OnlyPaidJobsRun
  <2>5. CASE Alter
    <3>1. receipt \in VdfReceipt
      BY <2>5 DEF Alter, GateIsExact
    <3>2. {0, 1, Modulus} \subseteq 0 .. Modulus
      BY GroupLimits
    <3>3. receipt' \in VdfReceipt
      BY <2>5, <3>1, <3>2 DEF Alter, VdfReceipt
    <3> QED
      BY <2>1, <2>5, <3>3 DEF Alter, GateIsExact, OnlyPaidJobsRun
  <2>6. CASE Discard
    BY <2>6, <2>1 DEF Discard, GateIsExact, OnlyPaidJobsRun
  <2>7. CASE AdmitAndLoad
    BY <2>7, <2>1 DEF AdmitAndLoad, AdmitJob, GateIsExact, OnlyPaidJobsRun
  <2>8. CASE Load
    BY <2>8, <2>1 DEF Load, GateIsExact, OnlyPaidJobsRun
  <2>9. CASE \E size \in Sizes : HostAllocate(size)
    BY <2>2, <2>9 DEF HostAllocate
  <2>10. CASE \E n \in 0 .. total_blocks : Invoke(n)
    BY <2>2, <2>10 DEF Invoke, gateVars
  <2>11. CASE \E n \in 0 .. total_blocks : InvokeAdmitted(n)
    BY <2>11, <2>1 DEF InvokeAdmitted, GateIsExact, OnlyPaidJobsRun
  <2>12. CASE Reset
    BY <2>12, <2>1 DEF Reset, GateIsExact, OnlyPaidJobsRun
  <2>13. CASE UNCHANGED vars
    BY <2>2, <2>13 DEF vars, gateVars
  <2> QED
    BY <2>3, <2>4, <2>5, <2>6, <2>7, <2>8, <2>9, <2>10, <2>11, <2>12, <2>13 DEF Next
<1> QED
  BY <1>1, <1>2, PTL DEF Spec

-----------------------------------------------------------------------------
(***************************************************************************)
(* The intake.  A handler that decides late prunes with an old time and so *)
(* prunes too little, never too much: the table of a peer holds every      *)
(* request let in that is in the window which ends now.  Requests are told *)
(* apart by their numbers, handlers by their places in a sequence.         *)
(***************************************************************************)
LEMMA IntakeLimits ==
    /\ RateLimit \in Nat /\ RateLimit >= 1
    /\ RateWindow \in Nat /\ RateWindow >= 1
    /\ PeerCap \in Nat
    /\ OutboxCap \in Nat /\ OutboxCap >= 1
BY IntakeAssumption DEF IntakeAssumption

USE IntakeLimits

Request == [id : Nat, at : Nat]

\* What a handler may carry: a time that has been, the token if one is asked for.
Handler ==
    {h \in [peer : Peers, presented : {"none", "right"}, body : Bodies \cup BadBodies,
            came : [id : Nat, at : 0 .. instant], stage : {"limit", "dispatch"}] :
        token => h.presented = "right"}

Fresh(p) == {r \in let_in[p] : instant - r.at < RateWindow}

\* Where the jobs that the outbox still holds begin among those accepted.
Oldest(n) == IF n > OutboxCap THEN n - OutboxCap + 1 ELSE 1

IntakeTypeOK ==
    /\ token \in BOOLEAN
    /\ listening = "lan" => token
    /\ instant \in Nat
    /\ requests \in Nat
    /\ handlers \in Seq(Handler)
    /\ DOMAIN table \subseteq Peers
    /\ let_in \in [Peers -> SUBSET Request]
    /\ queued \in Seq(Bodies \cup BadBodies)

TableInv ==
    /\ IsFiniteSet(DOMAIN table)
    /\ Cardinality(DOMAIN table) <= PeerCap + 1
    /\ \A p \in Peers : /\ Held(p) \subseteq Request
                        /\ IsFiniteSet(Held(p))
                        /\ Cardinality(Held(p)) <= RateLimit
                        /\ Fresh(p) \subseteq Held(p)

Waiting ==
    LET m == Oldest(Len(queued)) n == Len(queued) - m + 1
    IN  /\ outbox \in Seq(Bodies \cup BadBodies)
        /\ Len(outbox) = n
        /\ \A i \in 1 .. n : outbox[i] = queued[m + i - 1]

OutboxInv == Waiting /\ outsider_job = FALSE

IntakeInv == IntakeTypeOK /\ TableInv /\ OutboxInv

LEMMA InitIntakeInv == JobInit => IntakeInv
<1> SUFFICES ASSUME JobInit PROVE IntakeInv
  OBVIOUS
<1>1. IntakeTypeOK
  BY DEF JobInit, IntakeTypeOK, ValidateGatewayBind
<1>2. TableInv
  BY FS_EmptySet DEF JobInit, TableInv, Held, Fresh
<1>3. OutboxInv
  BY EmptySeq DEF JobInit, OutboxInv, Waiting, Oldest
<1> QED
  BY <1>1, <1>2, <1>3 DEF IntakeInv

\* A handler that has finished leaves the others as they are.
LEMMA HandlerLeaves ==
    ASSUME NEW S, NEW s \in Seq(S), NEW i \in 1 .. Len(s)
    PROVE  RemoveAt(s, i) \in Seq(S)
<1>1. SubSeq(s, 1, i - 1) \in Seq(S) /\ SubSeq(s, i + 1, Len(s)) \in Seq(S)
  BY LenProperties, SubSeqProperties
<1> QED
  BY <1>1, ConcatProperties DEF RemoveAt

\* The outbox after one more job: its oldest is dropped when it is full.
LEMMA OldestMoves ==
    ASSUME NEW n \in Nat
    PROVE  /\ Oldest(n) \in 1 .. n + 1
           /\ n - Oldest(n) + 1 >= OutboxCap => Oldest(n + 1) = Oldest(n) + 1
           /\ n - Oldest(n) + 1 < OutboxCap => Oldest(n + 1) = Oldest(n)
BY DEF Oldest

LEMMA PushKeeps ==
    ASSUME NEW j \in Bodies \cup BadBodies, Waiting, Push(j),
           queued \in Seq(Bodies \cup BadBodies), queued' = Append(queued, j)
    PROVE  Waiting'
<1> DEFINE S == Bodies \cup BadBodies
           n == Len(queued)
           m == Oldest(n)
           kept == IF Len(outbox) >= OutboxCap THEN Tail(outbox) ELSE outbox
           k == Oldest(n + 1)
<1>1. n \in Nat /\ m \in 1 .. n + 1 /\ k \in 1 .. n + 2
  BY LenProperties, OldestMoves
<1>2. /\ Len(queued') = n + 1
      /\ \A i \in 1 .. n : queued'[i] = queued[i]
      /\ queued'[n + 1] = j
  BY AppendProperties
<1>3. /\ outbox \in Seq(S) /\ Len(outbox) = n - m + 1
      /\ \A i \in 1 .. n - m + 1 : outbox[i] = queued[m + i - 1]
  BY DEF Waiting
<1>4. outbox' = Append(kept, j)
  BY DEF Push
<1>5. /\ kept \in Seq(S) /\ Len(kept) = n - k + 1
      /\ \A i \in 1 .. n - k + 1 : kept[i] = queued[k + i - 1]
  <2>1. CASE Len(outbox) >= OutboxCap
    <3>1. k = m + 1 /\ kept = Tail(outbox)
      BY <2>1, <1>1, <1>3, OldestMoves
    <3>2. /\ Tail(outbox) \in Seq(S) /\ Len(Tail(outbox)) = n - m
          /\ \A i \in 1 .. Len(Tail(outbox)) : Tail(outbox)[i] = outbox[i + 1]
      <4>1. outbox # << >>
        BY <2>1
      <4> QED
        BY <4>1, <1>1, <1>3, HeadTailProperties
    <3> HIDE DEF S, n, m, kept, k
    <3>3. \A i \in 1 .. n - m : Tail(outbox)[i] = queued[m + 1 + i - 1]
      <4> TAKE i \in 1 .. n - m
      <4>1. i + 1 \in 1 .. n - m + 1 /\ m + (i + 1) - 1 = m + 1 + i - 1
        BY <1>1
      <4> QED
        BY <4>1, <1>1, <1>3, <3>2
    <3> QED
      BY <3>1, <3>2, <3>3, <1>1
  <2>2. CASE Len(outbox) < OutboxCap
    <3>1. k = m /\ kept = outbox
      BY <2>2, <1>1, <1>3, OldestMoves
    <3> QED
      BY <3>1, <1>3
  <2> QED
    BY SMTT(30), <2>1, <2>2, <1>1, <1>3
<1> HIDE DEF S, n, m, kept, k
<1>6. k \in 1 .. n + 1
  BY <1>1, <1>5, LenProperties
<1>7. /\ outbox' \in Seq(S) /\ Len(outbox') = n - k + 2
      /\ \A i \in 1 .. n - k + 1 : outbox'[i] = kept[i]
      /\ outbox'[n - k + 2] = j
  <2>1. n - k + 2 = Len(kept) + 1 /\ j \in S
    BY <1>1, <1>5 DEF S
  <2> QED
    BY <2>1, <1>1, <1>4, <1>5, AppendProperties
<1>8. \A i \in 1 .. n - k + 2 : outbox'[i] = queued'[k + i - 1]
  <2> TAKE i \in 1 .. n - k + 2
  <2>1. CASE i = n - k + 2
    BY <2>1, <1>1, <1>2, <1>7
  <2>2. CASE i # n - k + 2
    <3>1. i \in 1 .. n - k + 1 /\ k + i - 1 \in 1 .. n
      BY <2>2, <1>1, <1>6
    <3> QED
      BY <3>1, <1>2, <1>5, <1>7
  <2> QED
    BY <2>1, <2>2
<1>9. Len(queued') - Oldest(Len(queued')) + 1 = n - k + 2 /\ Oldest(Len(queued')) = k
  BY <1>1, <1>2 DEF k
<1> QED
  BY <1>7, <1>8, <1>9 DEF Waiting, S

\* What only one of the variables below touches keeps the rest.
LEMMA TickKeeps == IntakeInv /\ JobTick => IntakeInv'
<1> SUFFICES ASSUME IntakeInv, JobTick PROVE IntakeInv'
  OBVIOUS
<1> USE DEF JobTick
<1>1. IntakeTypeOK'
  <2>1. instant \in Nat /\ Handler \subseteq Handler'
    BY DEF IntakeInv, IntakeTypeOK, Handler
  <2>2. handlers \in Seq(Handler')
    BY <2>1, SeqMonotonic DEF IntakeInv, IntakeTypeOK
  <2> QED
    BY <2>1, <2>2 DEF IntakeInv, IntakeTypeOK
<1>2. TableInv'
  <2>1. \A p \in Peers : Fresh(p)' \subseteq Fresh(p)
    BY DEF IntakeInv, IntakeTypeOK, Fresh, Request
  <2> QED
    BY <2>1 DEF IntakeInv, TableInv, Held
<1>3. OutboxInv'
  BY DEF IntakeInv, OutboxInv, Waiting, Oldest
<1> QED
  BY <1>1, <1>2, <1>3 DEF IntakeInv

LEMMA ArriveKeeps ==
    ASSUME NEW p \in Peers, NEW presented \in {"none", "right"},
           NEW b \in Bodies \cup BadBodies, IntakeInv, Arrive(p, presented, b)
    PROVE  IntakeInv'
<1> USE DEF Arrive
<1> DEFINE h == [peer |-> p, presented |-> presented, body |-> b,
                 came |-> [id |-> requests, at |-> instant], stage |-> "limit"]
<1>1. IntakeTypeOK'
  <2>1. h \in Handler
    BY DEF IntakeInv, IntakeTypeOK, Handler, CheckAuth
  <2>2. handlers' \in Seq(Handler)
    BY <2>1, AppendProperties DEF IntakeInv, IntakeTypeOK
  <2>3. Handler' = Handler
    BY DEF Handler
  <2> QED
    BY <2>2, <2>3 DEF IntakeInv, IntakeTypeOK
<1>2. TableInv'
  BY DEF IntakeInv, TableInv, Held, Fresh
<1>3. OutboxInv'
  BY DEF IntakeInv, OutboxInv, Waiting, Oldest
<1> QED
  BY <1>1, <1>2, <1>3 DEF IntakeInv

\* What check_rate_limit leaves in the table, whether it lets the request in or
\* not, holds all that is in the window.
LEMMA EntryKeeps ==
    ASSUME NEW p \in Peers, NEW now \in 0 .. instant, NEW let \in SUBSET Request,
           IntakeInv, ~TableFull(p), instant' = instant,
           Entry(p, Recent(p, now) \cup let),
           let_in' = [let_in EXCEPT ![p] = @ \cup let],
           IsFiniteSet(let), Cardinality(Recent(p, now)) + Cardinality(let) <= RateLimit
    PROVE  TableInv'
<1> DEFINE held == Recent(p, now) \cup let
<1>1. /\ instant \in Nat /\ now \in Nat
      /\ \A q \in Peers : let_in[q] \subseteq Request
      /\ DOMAIN table \subseteq Peers
  BY DEF IntakeInv, IntakeTypeOK
<1>2. \A q \in Peers : Held(q)' = IF q = p THEN held ELSE Held(q)
  BY DEF Entry, Held
<1>3. IsFiniteSet(DOMAIN table') /\ Cardinality(DOMAIN table') <= PeerCap + 1
  <2>1. DOMAIN table' = DOMAIN table \cup {p}
    BY DEF Entry
  <2>2. /\ IsFiniteSet(DOMAIN table) /\ Cardinality(DOMAIN table) \in Nat
        /\ Cardinality(DOMAIN table) <= PeerCap + 1
    BY FS_CardinalityType DEF IntakeInv, TableInv
  <2>3. p \in DOMAIN table \/ Cardinality(DOMAIN table) <= PeerCap
    BY <2>2 DEF TableFull
  <2>4. /\ IsFiniteSet(DOMAIN table \cup {p})
        /\ Cardinality(DOMAIN table \cup {p}) =
               IF p \in DOMAIN table THEN Cardinality(DOMAIN table) ELSE Cardinality(DOMAIN table) + 1
    BY <2>2, FS_AddElement
  <2>5. Cardinality(DOMAIN table \cup {p}) <= PeerCap + 1
    BY <2>2, <2>3, <2>4
  <2> QED
    BY <2>1, <2>4, <2>5
<1>4. held \subseteq Request /\ IsFiniteSet(held) /\ Cardinality(held) <= RateLimit
  <2>1. /\ Recent(p, now) \subseteq Held(p)
        /\ Held(p) \subseteq Request /\ IsFiniteSet(Held(p))
    BY DEF Recent, IntakeInv, TableInv
  <2>2. IsFiniteSet(Recent(p, now))
    BY <2>1, FS_Subset
  <2>3. /\ IsFiniteSet(held)
        /\ Cardinality(held) = Cardinality(Recent(p, now)) + Cardinality(let)
                                   - Cardinality(Recent(p, now) \cap let)
    BY <2>2, FS_Union
  <2>4. /\ Cardinality(Recent(p, now)) \in Nat /\ Cardinality(let) \in Nat
        /\ Cardinality(Recent(p, now) \cap let) \in Nat
    BY <2>2, FS_CardinalityType, FS_Intersection
  <2> QED
    BY <2>1, <2>3, <2>4
<1>5. Fresh(p)' \subseteq held
  <2> SUFFICES ASSUME NEW r \in Fresh(p)' PROVE r \in held
    OBVIOUS
  <2>1. CASE r \in let
    BY <2>1
  <2>2. CASE r \notin let
    <3>1. r \in let_in[p] /\ r \in Request /\ instant - r.at < RateWindow
      BY <2>2, <1>1 DEF Fresh, IntakeInv, IntakeTypeOK
    <3>2. r \in Held(p)
      BY <3>1 DEF Fresh, IntakeInv, TableInv
    <3>3. now - r.at < RateWindow
      BY <3>1, <1>1 DEF Request
    <3> QED
      BY <3>2, <3>3 DEF Recent
  <2> QED
    BY <2>1, <2>2
<1>6. \A q \in Peers : q # p => Fresh(q)' = Fresh(q)
  BY DEF Fresh, IntakeInv, IntakeTypeOK
<1> HIDE DEF held
<1> QED
  BY <1>2, <1>3, <1>4, <1>5, <1>6 DEF TableInv, IntakeInv

LEMMA CheckKeeps ==
    ASSUME NEW i \in DOMAIN handlers, IntakeInv, CheckRateLimit(i)
    PROVE  IntakeInv'
<1> DEFINE h == handlers[i]
           recent == Recent(h.peer, h.came.at)
<1>1. /\ handlers \in Seq(Handler) /\ i \in 1 .. Len(handlers)
      /\ h \in Handler
  BY LenProperties, ElementOfSeq DEF IntakeInv, IntakeTypeOK
<1>2. /\ h.peer \in Peers /\ h.came \in [id : Nat, at : 0 .. instant]
      /\ h.came.at \in 0 .. instant /\ h.came \in Request
  BY <1>1 DEF Handler, Request, IntakeInv, IntakeTypeOK
<1>3. UNCHANGED <<listening, token, instant, requests, outbox, queued, outsider_job>>
  BY DEF CheckRateLimit
<1>4. Handler' = Handler
  BY <1>3 DEF Handler
<1>5. IsFiniteSet(recent) /\ Cardinality(recent) \in Nat
  BY <1>2, FS_Subset, FS_CardinalityType DEF IntakeInv, TableInv, Recent
<1>6. OutboxInv'
  BY <1>3 DEF IntakeInv, OutboxInv, Waiting, Oldest
<1>7. CASE /\ Refuse(i)
           /\ UNCHANGED table \/ (~TableFull(h.peer) /\ Entry(h.peer, recent))
  <2>1. handlers' \in Seq(Handler) /\ let_in' = let_in
    BY <1>1, <1>7, HandlerLeaves DEF Refuse
  <2>2. DOMAIN table' \subseteq Peers
    BY <1>2, <1>7 DEF Entry, IntakeInv, IntakeTypeOK
  <2>3. IntakeTypeOK'
    BY <2>1, <2>2, <1>3, <1>4 DEF IntakeInv, IntakeTypeOK
  <2>4. TableInv'
    <3>1. CASE UNCHANGED table
      BY <3>1, <2>1, <1>3 DEF IntakeInv, TableInv, Held, Fresh
    <3>2. CASE ~TableFull(h.peer) /\ Entry(h.peer, recent)
      <4>1. Entry(h.peer, recent \cup {})
        BY <3>2
      <4>2. let_in' = [let_in EXCEPT ![h.peer] = @ \cup {}]
        BY <2>1 DEF IntakeInv, IntakeTypeOK
      <4>3. Cardinality(recent) <= RateLimit
        BY <1>2, <1>5, FS_Subset, FS_CardinalityType DEF IntakeInv, TableInv, Recent
      <4>4. IsFiniteSet({}) /\ Cardinality(recent) + Cardinality({}) <= RateLimit
        BY <4>3, <1>5, FS_EmptySet
      <4> QED
        BY <3>2, <4>1, <4>2, <4>4, <1>2, <1>3, EntryKeeps
    <3> QED
      BY <3>1, <3>2, <1>7
  <2> QED
    BY <2>3, <2>4, <1>6 DEF IntakeInv
<1>8. CASE LetIn(i) /\ ~TableFull(h.peer) /\ Cardinality(recent) < RateLimit
           /\ Entry(h.peer, recent \cup {h.came})
  <2>1. handlers' \in Seq(Handler)
    <3>1. [h EXCEPT !.stage = "dispatch"] \in Handler
      BY <1>1 DEF Handler
    <3>2. handlers' = [handlers EXCEPT ![i] = [h EXCEPT !.stage = "dispatch"]]
      BY <1>8 DEF LetIn
    <3> QED
      BY <3>1, <3>2, <1>1, ExceptSeq
  <2>2. let_in' = [let_in EXCEPT ![h.peer] = @ \cup {h.came}]
    BY <1>8 DEF LetIn
  <2>3. DOMAIN table' \subseteq Peers
    BY <1>2, <1>8 DEF Entry, IntakeInv, IntakeTypeOK
  <2>4. IntakeTypeOK'
    BY <2>1, <2>2, <2>3, <1>2, <1>3, <1>4 DEF IntakeInv, IntakeTypeOK
  <2>5. TableInv'
    <3>1. IsFiniteSet({h.came}) /\ Cardinality({h.came}) = 1
      BY FS_Singleton
    <3>2. Cardinality(recent) + Cardinality({h.came}) <= RateLimit
      BY <3>1, <1>5, <1>8
    <3> HIDE DEF h
    <3> QED
      BY <3>1, <3>2, <2>2, <1>2, <1>3, <1>8, EntryKeeps
  <2> QED
    BY <2>4, <2>5, <1>6 DEF IntakeInv
<1> QED
  BY <1>7, <1>8, <1>5 DEF CheckRateLimit

LEMMA DispatchKeeps ==
    ASSUME NEW i \in DOMAIN handlers, IntakeInv, DispatchJob(i)
    PROVE  IntakeInv'
<1> DEFINE h == handlers[i]
<1>1. /\ handlers \in Seq(Handler) /\ i \in 1 .. Len(handlers)
      /\ h \in Handler
  BY LenProperties, ElementOfSeq DEF IntakeInv, IntakeTypeOK
<1>2. UNCHANGED <<listening, token, instant, table, requests, let_in>>
  BY DEF DispatchJob
<1>3. handlers' \in Seq(Handler) /\ Handler' = Handler
  BY <1>1, <1>2, HandlerLeaves DEF DispatchJob, Handler
<1>4. TableInv'
  BY <1>2 DEF IntakeInv, TableInv, Held, Fresh
<1>5. CASE UNCHANGED <<outbox, queued, outsider_job>>
  BY <1>5, <1>2, <1>3, <1>4 DEF IntakeInv, IntakeTypeOK, OutboxInv, Waiting, Oldest
<1>6. CASE /\ Push(h.body)
           /\ queued' = Append(queued, h.body)
           /\ outsider_job' = (outsider_job \/ (listening = "lan" /\ h.presented # "right"))
  <2>1. h.body \in Bodies \cup BadBodies /\ (token => h.presented = "right")
    BY <1>1 DEF Handler
  <2>2. queued \in Seq(Bodies \cup BadBodies) /\ Waiting /\ outsider_job = FALSE
        /\ (listening = "lan" => token)
    BY DEF IntakeInv, IntakeTypeOK, OutboxInv
  <2>3. queued' \in Seq(Bodies \cup BadBodies)
    BY <1>6, <2>1, <2>2, AppendProperties
  <2>4. Waiting'
    BY <1>6, <2>1, <2>2, PushKeeps
  <2>5. outsider_job' = FALSE
    BY <1>6, <2>1, <2>2
  <2> QED
    BY <2>3, <2>4, <2>5, <1>2, <1>3, <1>4 DEF IntakeInv, IntakeTypeOK, OutboxInv
<1> QED
  BY <1>5, <1>6 DEF DispatchJob

LEMMA DrainKeeps == IntakeInv /\ DrainJobOutbox => IntakeInv'
<1> SUFFICES ASSUME IntakeInv, DrainJobOutbox PROVE IntakeInv'
  OBVIOUS
<1> USE DEF DrainJobOutbox
<1>1. Handler' = Handler
  BY DEF Handler
<1>2. TableInv'
  BY DEF IntakeInv, TableInv, Held, Fresh
<1>3. OutboxInv'
  BY EmptySeq DEF IntakeInv, OutboxInv, Waiting, Oldest
<1> QED
  BY <1>1, <1>2, <1>3, EmptySeq DEF IntakeInv, IntakeTypeOK

LEMMA IntakeInvariant == JobSpec => []IntakeInv
<1>1. IntakeInv /\ [JobNext]_jobVars => IntakeInv'
  <2> SUFFICES ASSUME IntakeInv, [JobNext]_jobVars PROVE IntakeInv'
    OBVIOUS
  <2>1. CASE UNCHANGED jobVars
    <3>1. Handler' = Handler
      BY <2>1 DEF jobVars, Handler
    <3> QED
      BY <2>1, <3>1 DEF jobVars, IntakeInv, IntakeTypeOK, TableInv, OutboxInv, Held, Fresh,
                        Waiting, Oldest
  <2> QED
    BY <2>1, TickKeeps, ArriveKeeps, CheckKeeps, DispatchKeeps, DrainKeeps DEF JobNext
<1> QED
  BY <1>1, InitIntakeInv, PTL DEF JobSpec

\* The rate limit holds of every window that ends now, and the outbox holds the
\* newest jobs accepted since the last drain, in order; none came from the
\* network without the token (check_rate_limit, dispatch_job, drain_job_outbox).
THEOREM IntakeIsKept == JobSpec => []IntakeKeepsItsWord
<1>1. IntakeInv => RateIsLimited
  <2> SUFFICES ASSUME IntakeInv, NEW p \in Peers PROVE Cardinality(Fresh(p)) <= RateLimit
    BY DEF RateIsLimited, Fresh, IntakeInv, TableInv
  <2>1. /\ Fresh(p) \in SUBSET Held(p) /\ IsFiniteSet(Held(p))
        /\ Cardinality(Held(p)) <= RateLimit
    BY DEF IntakeInv, TableInv
  <2> QED
    BY <2>1, FS_Subset, FS_CardinalityType
<1>2. IntakeInv => AcceptedJobsWait
  <2> SUFFICES ASSUME IntakeInv PROVE AcceptedJobsWait
    OBVIOUS
  <2> DEFINE n == Len(queued)
             m == Oldest(n)
  <2>1. n \in Nat /\ m \in 1 .. n + 1 /\ \A i \in 1 .. n : queued[i] \in Bodies \cup BadBodies
    BY LenProperties, ElementOfSeq, OldestMoves DEF IntakeInv, IntakeTypeOK
  <2>2. /\ outbox \in Seq(Bodies \cup BadBodies) /\ Len(outbox) = n - m + 1
        /\ \A i \in 1 .. n - m + 1 : outbox[i] = queued[m + i - 1]
    BY DEF IntakeInv, OutboxInv, Waiting
  <2> HIDE DEF n, m
  <2>3. /\ SubSeq(queued, m, n) \in Seq(Bodies \cup BadBodies)
        /\ Len(SubSeq(queued, m, n)) = n - m + 1
        /\ \A i \in 1 .. n - m + 1 : SubSeq(queued, m, n)[i] = queued[m + i - 1]
    <3>1. \A i \in m .. n : queued[i] \in Bodies \cup BadBodies
      BY <2>1
    <3> QED
      BY <2>1, <3>1, SubSeqProperties
  <2>4. outbox = SubSeq(queued, m, n)
    BY <2>2, <2>3, SeqEqual
  <2> QED
    BY <2>4 DEF AcceptedJobsWait, n, m, Oldest, IntakeInv, OutboxInv
<1> QED
  BY <1>1, <1>2, IntakeInvariant, PTL DEF IntakeKeepsItsWord

-----------------------------------------------------------------------------
(***************************************************************************)
(* The bridge of the gateway: a loop of slices over copies of the order    *)
(* and the pool.  By induction on its turns, what it has filled is missing *)
(* from the order and is in the pool, and rounding never takes from the    *)
(* product of the reserves.                                                *)
(***************************************************************************)

\* A bridge goes through k working states, one for each turn of its loop.
BridgeRuns(h, n, k) ==
    h[0] = Started(n, k) /\ \A i \in 1..k : h[i] = Slice(h[i - 1])

\* f folds Slice over every set of turns, each taken apart at its last.
Turns(f, k, start) ==
    f = [s \in SUBSET (1..k) |-> IF s = {} THEN start ELSE Slice(f[s \ {Max(s)}])]

\* There is such a fold: the smallest number of turns without one has one.
LEMMA TurnsExist ==
    ASSUME NEW k \in Nat, NEW start
    PROVE  \E f : Turns(f, k, start)
<1> DEFINE Rec(f, m) == [s \in SUBSET (1..m) |-> IF s = {} THEN start ELSE Slice(f[s \ {Max(s)}])]
           T == {m \in Nat : ~ \E f : f = Rec(f, m)}
<1> SUFFICES ASSUME T # {} PROVE FALSE
  BY DEF Turns
<1>1. PICK m \in T : \A l \in T : m <= l
  <2>1. T \subseteq Nat
    OBVIOUS
  <2> HIDE DEF T
  <2> QED  BY <2>1, LeastNumber
<1>2. m # 0
  <2>1. SUBSET (1..0) = {{}}
    OBVIOUS
  <2> DEFINE f == [s \in {{}} |-> start]
  <2>2. f = Rec(f, 0)
    BY <2>1
  <2> QED  BY <2>2
<1>3. m - 1 \in Nat /\ m - 1 \notin T
  <2>1. m - 1 \in Nat /\ ~(m <= m - 1)
    BY <1>2
  <2> HIDE DEF T
  <2> QED  BY <1>1, <2>1
<1>4. PICK f : f = Rec(f, m - 1)
  BY <1>3
<1> DEFINE g == [s \in SUBSET (1..m) |-> IF s = {} THEN start ELSE Slice(f[s \ {Max(s)}])]
<1>5. ASSUME NEW s \in SUBSET (1..m), s # {}
      PROVE  s \ {Max(s)} \in SUBSET (1..(m - 1)) /\ g[s \ {Max(s)}] = f[s \ {Max(s)}]
  <2> DEFINE last_one == Max(s)
             r == s \ {last_one}
  <2>1. last_one \in s /\ \A x \in s : x <= last_one
    BY <1>5, LastPlace
  <2> HIDE DEF last_one
  <2>2. \A x \in r : x \in 1..m /\ x \in 1..(m - 1)
    <3> SUFFICES ASSUME NEW x \in r PROVE x \in 1..m /\ x \in 1..(m - 1)
      OBVIOUS
    <3>1. x \in 1..m /\ last_one \in 1..m /\ x <= last_one /\ x # last_one /\ m \in Nat
      BY <2>1
    <3> QED  BY <3>1
  <2>3. r \in SUBSET (1..(m - 1)) /\ r \in SUBSET (1..m)
    <3> HIDE DEF r
    <3> QED  BY <2>2
  <2> HIDE DEF r
  <2>4. f[r] = IF r = {} THEN start ELSE Slice(f[r \ {Max(r)}])
    BY <1>4, <2>3
  <2>5. g[r] = f[r]
    BY <2>3, <2>4
  <2> QED  BY <2>3, <2>5 DEF r, last_one
<1>6. g = Rec(g, m)
  BY <1>5
<1> QED  BY <1>6

\* The loop of a bridge, which FoldLeft defines, goes turn by turn.
LEMMA BridgeUnfolds ==
    ASSUME NEW n, NEW k \in Nat
    PROVE  \E h : BridgeRuns(h, n, k) /\ Bridged(n, k) = h[k]
<1> DEFINE D == DOMAIN [i \in 1..k |-> i]
           iter == CHOOSE f : f = [s \in SUBSET D |->
                                      IF s = {} THEN Started(n, k) ELSE Slice(f[s \ {Max(s)}])]
           h == [i \in 0..k |-> iter[1..i]]
<1>1. Bridged(n, k) = iter[D]
  BY DEF Bridged, FoldLeft, MapThenFoldSet
<1>2. D = 1..k
  OBVIOUS
<1> HIDE DEF D
<1>3. iter = [s \in SUBSET (1..k) |-> IF s = {} THEN Started(n, k) ELSE Slice(iter[s \ {Max(s)}])]
  <2>1. \E f : f = [s \in SUBSET D |-> IF s = {} THEN Started(n, k) ELSE Slice(f[s \ {Max(s)}])]
    <3>1. PICK f : Turns(f, k, Started(n, k))
      BY TurnsExist
    <3> QED  BY <1>2, <3>1 DEF Turns
  <2>2. iter = [s \in SUBSET D |-> IF s = {} THEN Started(n, k) ELSE Slice(iter[s \ {Max(s)}])]
    BY <2>1
  <2> QED  BY <1>2, <2>2
<1> HIDE DEF iter
<1>4. iter[1..0] = Started(n, k)
  <2>1. 1..0 \in SUBSET (1..k) /\ 1..0 = {}
    OBVIOUS
  <2> QED  BY <1>3, <2>1
<1>5. ASSUME NEW i \in 1..k PROVE iter[1..i] = Slice(iter[1..(i - 1)])
  <2>1. 1..i \in SUBSET (1..k) /\ i \in 1..i
    OBVIOUS
  <2>2. iter[1..i] = Slice(iter[(1..i) \ {Max(1..i)}])
    BY <1>3, <2>1
  <2>3. Max(1..i) = i /\ (1..i) \ {i} = 1..(i - 1)
    <3>1. i \in Nat /\ i # 0
      OBVIOUS
    <3> QED  BY <3>1, LastOfPlaces
  <2> QED  BY <2>2, <2>3
<1>6. BridgeRuns(h, n, k)
  BY <1>4, <1>5 DEF BridgeRuns
<1>7. Bridged(n, k) = h[k]
  BY <1>1, <1>2
<1> QED  BY <1>6, <1>7

\* What a slice filled, all of them as a function of its place, and all that
\* the bridges recorded.
Fill == [amount_in : Nat, amount_out : Nat]
Ins(fills) == [i \in DOMAIN fills |-> fills[i].amount_in]
Filled == [i \in DOMAIN placed |-> placed[i].filled]

\* What a bridge filled is the sum of its fills.
LEMMA FilledIsTotal ==
    ASSUME NEW w, w.fills \in Seq(Fill)
    PROVE  FilledIn(w) = Total(Ins(w.fills), 1..Len(w.fills)) /\ FilledIn(w) \in Nat
<1> DEFINE S == w.fills
           n == Len(S)
           g == Ins(S)
           Rec(f) == [s \in SUBSET DOMAIN S |->
                         IF s = {} THEN 0 ELSE f[s \ {Max(s)}] + S[Max(s)].amount_in]
           iter == CHOOSE f : f = Rec(f)
<1>1. n \in Nat /\ DOMAIN S = 1..n /\ \A i \in 1..n : S[i] \in Fill
  OBVIOUS
<1>2. FilledIn(w) = iter[DOMAIN S]
  BY DEF FilledIn, FoldLeft, MapThenFoldSet
<1> HIDE DEF n
<1>3. Counting(g, 1..n) /\ \A i \in 1..n : g[i] = S[i].amount_in
  BY <1>1 DEF Counting, Ins, Fill
<1>4. \A s \in SUBSET (1..n) : s # {} => S[Max(s)].amount_in = g[Max(s)]
  BY <1>1, <1>3, LastPlace
<1> HIDE DEF g, S
<1>5. \A f : AddingUp(f, g, n) <=> f = Rec(f)
  BY <1>1, <1>4 DEF AddingUp
<1>6. \E f : f = Rec(f)
  BY <1>1, <1>3, <1>5, PlacesAddUp
<1>7. AddingUp(iter, g, n)
  BY <1>5, <1>6
<1> HIDE DEF iter
<1>8. iter[1..n] = Total(g, 1..n)
  BY <1>1, <1>3, <1>7, PlacesAddUp
<1>9. IsFiniteSet(1..n)
  BY <1>1, FS_Interval
<1>10. Total(g, 1..n) \in Nat
  BY <1>3, <1>9, TotalIsNat DEF Counting
<1> QED  BY <1>1, <1>2, <1>8, <1>10 DEF g, n, S

\* What was placed is the sum over the bridges recorded.
LEMMA PlacedIsTotal ==
    ASSUME NEW p, p \in Seq(Placed), MaxU64 \in Nat
    PROVE  FoldLeft(LAMBDA acc, x : acc + x.filled, 0, p)
               = Total([i \in DOMAIN p |-> p[i].filled], 1..Len(p))
<1> DEFINE n == Len(p)
           g == [i \in DOMAIN p |-> p[i].filled]
           Rec(f) == [s \in SUBSET DOMAIN p |->
                         IF s = {} THEN 0 ELSE f[s \ {Max(s)}] + p[Max(s)].filled]
           iter == CHOOSE f : f = Rec(f)
<1>1. n \in Nat /\ DOMAIN p = 1..n /\ \A i \in 1..n : p[i] \in Placed
  OBVIOUS
<1>2. FoldLeft(LAMBDA acc, x : acc + x.filled, 0, p) = iter[DOMAIN p]
  BY DEF FoldLeft, MapThenFoldSet
<1> HIDE DEF n
<1>3. Counting(g, 1..n) /\ \A i \in 1..n : g[i] = p[i].filled
  BY <1>1 DEF Counting, Placed
<1>4. \A s \in SUBSET (1..n) : s # {} => p[Max(s)].filled = g[Max(s)]
  BY <1>1, <1>3, LastPlace
<1> HIDE DEF g
<1>5. \A f : AddingUp(f, g, n) <=> f = Rec(f)
  BY <1>1, <1>4 DEF AddingUp
<1>6. \E f : f = Rec(f)
  BY <1>1, <1>3, <1>5, PlacesAddUp
<1>7. AddingUp(iter, g, n)
  BY <1>5, <1>6
<1> HIDE DEF iter
<1>8. iter[1..n] = Total(g, 1..n)
  BY <1>1, <1>3, <1>7, PlacesAddUp
<1> QED  BY <1>1, <1>2, <1>8 DEF g, n

\* What a slice leaves: at least a unit is sold, and one is left for every slice
\* that remains.
LEMMA SliceLeavesEnough ==
    ASSUME NEW r \in Nat, NEW s \in Nat \ {0}, r >= s
    PROVE  LET q == IF s = 1 THEN r ELSE r \div s
           IN  q \in Nat /\ q >= 1 /\ q <= r /\ r - q \in Nat /\ r - q >= s - 1
<1>1. CASE s = 1
  BY <1>1
<1>2. CASE s # 1
  <2> DEFINE q == r \div s
             p == s * q
  <2>1. q \in Nat /\ p <= r /\ r < p + s
    BY Division
  <2> HIDE DEF q
  <2>2. q >= 1
    <3> SUFFICES ASSUME q = 0 PROVE FALSE
      BY <2>1
    <3>1. p = 0
      OBVIOUS
    <3> HIDE DEF p
    <3> QED  BY <2>1, <3>1
  <2>3. (s - 1) * (q - 1) \in Nat
    <3>1. s - 1 \in Nat /\ q - 1 \in Nat
      BY <2>1, <2>2
    <3> QED  BY <3>1
  <2>4. (s - 1) * (q - 1) = p - s - q + 1
    BY <2>1
  <2> DEFINE e == (s - 1) * (q - 1)
  <2>5. p \in Nat
    BY <2>1
  <2>6. e \in Nat /\ e = p - s - q + 1
    BY <2>3, <2>4
  <2> HIDE DEF e, p
  <2>7. q <= r /\ r - q \in Nat /\ r - q >= s - 1
    BY <2>1, <2>2, <2>5, <2>6
  <2> QED  BY <1>2, <2>1, <2>2, <2>7 DEF q
<1> QED  BY <1>1, <1>2

\* Rounding leaves something in the pool, and takes nothing out of the product.
LEMMA CurveHolds ==
    ASSUME NEW b \in Nat \ {0}, NEW q \in Nat \ {0}, NEW m \in Nat
    PROVE  LET out == (q * m) \div (b + m)
           IN  out \in Nat /\ out < q /\ b * q <= (b + m) * (q - out)
<1> DEFINE d == b + m
           a == q * m
           out == a \div d
           taken == d * out
           bq == b * q
           dq == d * q
<1>1. a \in Nat /\ d \in Nat \ {0} /\ bq \in Nat /\ bq > 0 /\ dq = bq + a
  BY SMTT(30)
<1>2. out \in Nat /\ taken <= a
  <2> HIDE DEF a, d
  <2> QED  BY <1>1, Division
<1> HIDE DEF out
<1>3. taken \in Nat /\ d * (q - out) = dq - taken
  BY <1>1, <1>2
<1>4. out < q
  <2> SUFFICES ASSUME out >= q PROVE FALSE
    BY <1>2
  <2>1. d * (out - q) \in Nat
    <3>1. out - q \in Nat /\ d \in Nat
      BY <1>1, <1>2
    <3> HIDE DEF d
    <3> QED  BY <3>1
  <2>2. d * (out - q) = taken - dq
    BY <1>1, <1>2
  <2> DEFINE e == d * (out - q)
  <2>3. e \in Nat /\ e = taken - dq /\ dq \in Nat
    BY <1>1, <2>1, <2>2
  <2> HIDE DEF e, taken, dq, bq, a
  <2> QED  BY <1>1, <1>2, <1>3, <2>3
<1>5. bq <= d * (q - out)
  <2> DEFINE left == d * (q - out)
  <2>1. left = dq - taken
    BY <1>3
  <2> HIDE DEF left, taken, dq, bq, a
  <2> QED  BY <1>1, <1>2, <1>3, <2>1
<1> QED  BY <1>2, <1>4, <1>5 DEF out, d, a, bq

\* saturating_add at the width of a reserve.
Sat(x) == IF x > MaxU64 THEN MaxU64 ELSE x

\* Pools that a price can be read from, and the working states of a bridge.
Reserves == [base : 1 .. MaxU64, quote : 1 .. MaxU64]

Working == [order : Order, amm : Reserves, fills : Seq(Fill), outcome : {"bridged", "spread", "error"}]

\* A bridge of n units after i of k turns: what it filled is missing from the
\* order and is in the pool, and the product of the reserves has not fallen.
Turned(w, i, n, k) ==
    /\ w \in Working
    /\ FilledIn(w) + w.order.remaining_in = n
    /\ w.amm.base = Sat(global_amm.base + FilledIn(w))
    /\ w.amm.base < MaxU64 =>
           global_amm.base * global_amm.quote <= w.amm.base * w.amm.quote
    /\ w.outcome = "bridged" =>
           w.order.slices_remaining = k - i /\ w.order.remaining_in >= k - i
    /\ w.outcome = "error" => MidPrice(w.amm) = 0
    /\ FilledIn(w) = 0 => w.amm = global_amm

\* What TwammAssumption says of the widths.
LEMMA Widths == MaxU64 \in Nat \ {0} /\ PriceScale \in Nat \ {0} /\ MaxSlices \in Nat \ {0}
BY TwammAssumption DEF TwammAssumption

\* The price is cut to the width of its field.
LEMMA PriceTyped ==
    ASSUME NEW amm \in Reserves
    PROVE  MidPrice(amm) \in 0 .. MaxU64
<1> DEFINE a == amm.quote * PriceScale
           d == (a \div amm.base)
<1>1. amm.base \in Nat \ {0} /\ amm.quote \in Nat /\ PriceScale \in Nat
  BY Widths DEF Reserves
<1>2. a \in Nat
  BY <1>1
<1> HIDE DEF a
<1>3. d \in Nat
  BY <1>1, <1>2, Division
<1> HIDE DEF d
<1>4. d % (MaxU64 + 1) \in 0 .. MaxU64
  <2>1. MaxU64 + 1 \in Nat /\ MaxU64 + 1 >= 1 /\ MaxU64 \in Nat
    BY Widths
  <2>2. d % (MaxU64 + 1) \in 0 .. (MaxU64 + 1) - 1
    BY <1>3, <2>1, Division
  <2> QED  BY <2>1, <2>2
<1> QED  BY <1>4 DEF MidPrice, d, a

\* A working state after a slice that was sold.
Rewritten(w, after, pool, fills) ==
    [w EXCEPT !.order = after, !.amm = pool, !.fills = fills]

\* It is a working state with those parts.
LEMMA RewrittenTyped ==
    ASSUME NEW w \in Working, NEW after \in Order, NEW pool \in Reserves, NEW fills \in Seq(Fill)
    PROVE  LET v == Rewritten(w, after, pool, fills)
           IN
           /\ v \in Working
           /\ v.order = after /\ v.amm = pool /\ v.fills = fills /\ v.outcome = w.outcome
<1> DEFINE S == Seq(Fill)
           v == Rewritten(w, after, pool, fills)
<1>1. fills \in S /\ w \in [order : Order, amm : Reserves, fills : S, outcome : {"bridged", "spread", "error"}]
  BY DEF Working
<1> HIDE DEF S
<1>2. /\ v \in [order : Order, amm : Reserves, fills : S, outcome : {"bridged", "spread", "error"}]
      /\ v.order = after /\ v.amm = pool /\ v.fills = fills /\ v.outcome = w.outcome
  BY <1>1 DEF Rewritten
<1> QED  BY <1>2 DEF Working, S

\* One more turn of the loop.
LEMMA SliceTurns ==
    ASSUME global_amm \in Reserves, NEW n \in Nat, NEW k \in Nat, NEW i \in Nat, i < k,
           NEW w, Turned(w, i, n, k)
    PROVE  Turned(Slice(w), i + 1, n, k)
<1>1. CASE w.outcome # "bridged"
  BY <1>1 DEF Slice, Turned
<1>2. CASE w.outcome = "bridged"
  <2> DEFINE o == w.order
             m == SliceAmount(o)
             exec == MidPrice(w.amm)
  <2>1. /\ o \in Order /\ w.amm \in Reserves /\ w.fills \in Seq(Fill)
        /\ o.remaining_in \in Nat /\ o.slices_remaining = k - i /\ o.remaining_in >= k - i
        /\ o.remaining_in \in 0 .. MaxU64 /\ o.slices_remaining \in 0 .. MaxSlices
    BY <1>2, Widths DEF Turned, Working, Order
  <2>2. /\ ~Exhausted(o)
        /\ m \in Nat /\ m >= 1 /\ m <= o.remaining_in
        /\ o.remaining_in - m \in Nat /\ o.remaining_in - m >= k - i - 1
    <3> DEFINE r == o.remaining_in
               s == o.slices_remaining
    <3>1. r \in Nat /\ s \in Nat \ {0} /\ r >= s /\ s = k - i
      BY <2>1
    <3>2. m = IF s = 1 THEN r ELSE r \div s
      BY DEF SliceAmount
    <3> HIDE DEF r, s
    <3>3. m \in Nat /\ m >= 1 /\ m <= r /\ r - m \in Nat /\ r - m >= s - 1
      BY <3>1, <3>2, SliceLeavesEnough
    <3> QED  BY <3>1, <3>3 DEF r, s, Exhausted
  <2>3. CASE CanStream(o, exec)
    <3> DEFINE out == SellOut(w.amm, m)
               fill == [amount_in |-> m, amount_out |-> out]
               v == [w EXCEPT !.order = AfterSlice(@), !.amm = AfterSell(@, m),
                              !.fills = Append(@, fill)]
    <3>1. Slice(w) = v
      BY <1>2, <2>3 DEF Slice
    <3> HIDE DEF m
    <3>2. /\ w.amm.base \in Nat \ {0} /\ w.amm.quote \in Nat \ {0}
          /\ w.amm.base <= MaxU64 /\ w.amm.quote <= MaxU64
      BY <2>1, Widths DEF Reserves
    <3>3. /\ out \in Nat /\ out < w.amm.quote
          /\ w.amm.base * w.amm.quote <= (w.amm.base + m) * (w.amm.quote - out)
      BY <2>2, <3>2, CurveHolds DEF SellOut
    <3> HIDE DEF out
    <3>4. AfterSell(w.amm, m) = [base |-> Sat(w.amm.base + m), quote |-> w.amm.quote - out]
      BY <3>2, <3>3 DEF AfterSell, Sat, out
    <3>5. AfterSell(w.amm, m) \in Reserves
      BY <2>2, <3>2, <3>3, <3>4, Widths DEF Reserves, Sat
    <3>6. /\ AfterSlice(o) \in Order
          /\ AfterSlice(o).remaining_in = o.remaining_in - m
          /\ AfterSlice(o).slices_remaining = o.slices_remaining - 1
      <4>1. SliceAmount(o) = m
        BY DEF m
      <4>2. AfterSlice(o) = [o EXCEPT !.remaining_in = o.remaining_in - m,
                                      !.slices_remaining = o.slices_remaining - 1]
        BY <2>2, <4>1 DEF AfterSlice
      <4>3. o.remaining_in - m \in 0 .. MaxU64 /\ o.slices_remaining - 1 \in 0 .. MaxSlices
        BY <2>1, <2>2, Widths DEF Exhausted
      <4> QED  BY <2>1, <4>2, <4>3 DEF Order
    <3>7. fill \in Fill
      BY <2>2, <3>3 DEF Fill
    <3>8. FilledIn(v) = FilledIn(w) + m /\ FilledIn(w) \in Nat
      <4> DEFINE l == Len(w.fills)
                 g == Ins(w.fills)
                 h == Ins(Append(w.fills, fill))
      <4>1. /\ l \in Nat /\ Counting(g, 1..l) /\ Len(Append(w.fills, fill)) = l + 1
            /\ \A j \in 1..l : h[j] = g[j]
            /\ h[l + 1] = m
        <5> DEFINE old == w.fills
        <5>1. old \in Seq(Fill) /\ fill \in Fill /\ fill.amount_in = m
          BY <2>1, <3>7
        <5> HIDE DEF old, fill
        <5>2. /\ Len(old) \in Nat /\ DOMAIN old = 1..Len(old)
              /\ Len(Append(old, fill)) = Len(old) + 1
              /\ DOMAIN Append(old, fill) = 1..(Len(old) + 1)
              /\ \A j \in 1..Len(old) : Append(old, fill)[j] = old[j] /\ old[j] \in Fill
              /\ Append(old, fill)[Len(old) + 1] = fill
          BY <5>1
        <5>3. /\ \A j \in 1..Len(old) : Ins(Append(old, fill))[j] = Ins(old)[j] /\ Ins(old)[j] \in Nat
              /\ Ins(Append(old, fill))[Len(old) + 1] = m
          BY <5>1, <5>2 DEF Ins, Fill
        <5> QED  BY <5>2, <5>3 DEF old, Counting
      <4>2. v.fills = Append(w.fills, fill) /\ v.fills \in Seq(Fill)
        BY <2>1, <3>7 DEF Turned, Working
      <4>3. FilledIn(w) = Total(g, 1..l) /\ FilledIn(w) \in Nat
        BY <2>1, FilledIsTotal
      <4>4. FilledIn(v) = Total(h, 1..(l + 1))
        <5> HIDE DEF v
        <5> QED  BY <4>1, <4>2, FilledIsTotal
      <4> HIDE DEF g, h, l
      <4>5. Total(h, 1..(l + 1)) = Total(g, 1..l) + h[l + 1]
        BY <2>2, <4>1, TotalAppends
      <4> QED  BY <4>1, <4>3, <4>4, <4>5
    <3>9. /\ v \in Working /\ v.order = AfterSlice(o) /\ v.amm = AfterSell(w.amm, m)
          /\ v.outcome = "bridged"
      <4> DEFINE after == AfterSlice(o)
                 pool == AfterSell(w.amm, m)
                 fills == Append(w.fills, fill)
      <4>1. fills \in Seq(Fill)
        BY <2>1, <3>7
      <4>2. v = Rewritten(w, after, pool, fills)
        BY DEF Rewritten
      <4>3. w \in Working /\ after \in Order /\ pool \in Reserves
        BY <3>5, <3>6 DEF Turned
      <4> HIDE DEF v, after, pool, fills
      <4>4. /\ v \in Working
            /\ v.order = after /\ v.amm = pool /\ v.outcome = w.outcome
        BY <4>1, <4>2, <4>3, RewrittenTyped
      <4> QED  BY <1>2, <4>4 DEF after, pool
    <3> HIDE DEF v, fill
    <3>10. /\ v.amm.base = Sat(w.amm.base + m)
           /\ w.amm.base = Sat(global_amm.base + FilledIn(w)) /\ global_amm.base \in Nat
      BY <3>4, <3>9 DEF Turned, Reserves
    <3>11. v.amm.base = Sat(global_amm.base + FilledIn(v))
      BY <2>2, <3>8, <3>10, Widths DEF Sat
    <3>12. v.amm.base < MaxU64 =>
               global_amm.base * global_amm.quote <= v.amm.base * v.amm.quote
      <4> SUFFICES ASSUME v.amm.base < MaxU64
                   PROVE  global_amm.base * global_amm.quote <= v.amm.base * v.amm.quote
        OBVIOUS
      <4>1. v.amm.base = w.amm.base + m /\ v.amm.quote = w.amm.quote - out /\ w.amm.base < MaxU64
        BY <2>2, <3>2, <3>4, <3>9, <3>10, Widths DEF Sat
      <4>2. global_amm.base * global_amm.quote <= w.amm.base * w.amm.quote
        BY <4>1 DEF Turned
      <4> DEFINE x == global_amm.base * global_amm.quote
                 y == w.amm.base * w.amm.quote
                 z == v.amm.base * v.amm.quote
      <4>3. x \in Nat /\ y \in Nat /\ z \in Nat
        <5>1. /\ global_amm.base \in Nat /\ global_amm.quote \in Nat
              /\ v.amm.base \in Nat /\ v.amm.quote \in Nat
          BY <3>5, <3>9, Widths DEF Reserves
        <5> QED  BY <3>2, <5>1
      <4>4. x <= y /\ y <= z
        BY <3>3, <4>1, <4>2
      <4> HIDE DEF x, y, z
      <4>5. x <= z
        BY <4>3, <4>4
      <4> QED  BY <4>5 DEF x, z
    <3>13. FilledIn(v) + v.order.remaining_in = n
      BY <2>1, <2>2, <3>6, <3>8, <3>9 DEF Turned
    <3>14. v.order.slices_remaining = k - (i + 1) /\ v.order.remaining_in >= k - (i + 1)
      BY <2>1, <2>2, <3>6, <3>9
    <3>15. FilledIn(v) # 0
      BY <2>2, <3>8
    <3> QED  BY <3>1, <3>9, <3>11, <3>12, <3>13, <3>14, <3>15 DEF Turned
  <2>4. CASE ~CanStream(o, exec)
    <3>1. PICK out \in {"spread", "error"} :
              Slice(w) = [w EXCEPT !.outcome = out] /\ (out = "error" => exec = 0)
      <4>1. CASE exec # 0
        BY <1>2, <2>2, <2>4, <4>1 DEF Slice
      <4>2. CASE exec = 0
        BY <1>2, <2>2, <2>4, <4>2 DEF Slice
      <4> QED  BY <4>1, <4>2
    <3> DEFINE v == [w EXCEPT !.outcome = out]
    <3>2. /\ v \in Working /\ v.order = w.order /\ v.amm = w.amm /\ v.fills = w.fills
          /\ v.outcome = out
      BY DEF Turned, Working
    <3>3. FilledIn(v) = FilledIn(w)
      BY <3>2 DEF FilledIn
    <3> HIDE DEF v
    <3> QED  BY <3>1, <3>2, <3>3 DEF Turned, v
  <2> QED  BY <2>3, <2>4
<1> QED  BY <1>1, <1>2

\* All of them.
LEMMA BridgeTurns ==
    ASSUME global_amm \in Reserves, NEW n \in 1 .. MaxU64, NEW k \in 1 .. MaxSlices, n >= k,
           MidPrice(global_amm) # 0
    PROVE  Turned(Bridged(n, k), k, n, k)
<1>1. n \in Nat /\ k \in Nat /\ MaxU64 \in Nat
  BY Widths
<1>2. PICK h : BridgeRuns(h, n, k) /\ Bridged(n, k) = h[k]
  BY <1>1, BridgeUnfolds
<1>3. Turned(h[0], 0, n, k)
  <2> DEFINE w == Started(n, k)
  <2>1. /\ w.order = [side |-> "Sell", remaining_in |-> n, slices_remaining |-> k,
                      reference_price |-> MidPrice(global_amm)]
        /\ w.amm = global_amm /\ w.fills = << >> /\ w.outcome = "bridged"
    BY DEF Started, NewOrder
  <2>2. MidPrice(global_amm) \in 1 .. MaxU64
    BY PriceTyped, Widths
  <2>3. w \in Working
    BY <1>1, <2>1, <2>2, Widths DEF Working, Order, Side, Started
  <2>4. FilledIn(w) = 0
    <3>1. w.fills \in Seq(Fill) /\ Len(w.fills) = 0
      BY <2>1
    <3> HIDE DEF w
    <3>2. FilledIn(w) = Total(Ins(w.fills), 1..0)
      BY <3>1, FilledIsTotal
    <3>3. 1..0 = {} /\ IsFiniteSet({})
      BY FS_EmptySet
    <3> QED  BY <3>2, <3>3, TotalOfZeros
  <2>5. /\ global_amm.base \in 1 .. MaxU64 /\ global_amm.quote \in 1 .. MaxU64
        /\ global_amm.base * global_amm.quote \in Nat
    BY Widths DEF Reserves
  <2> HIDE DEF w
  <2> QED  BY <1>1, <1>2, <2>1, <2>3, <2>4, <2>5, Widths DEF Turned, BridgeRuns, Sat, w
<1> DEFINE T == {i \in Nat : i <= k /\ ~Turned(h[i], i, n, k)}
<1>4. T = {}
  <2> SUFFICES ASSUME T # {} PROVE FALSE
    OBVIOUS
  <2>1. T \subseteq Nat
    OBVIOUS
  <2>2. PICK i \in T : \A j \in T : i <= j
    <3> HIDE DEF T
    <3> QED  BY <2>1, LeastNumber
  <2>3. i \in Nat /\ i # 0 /\ i <= k
    BY <1>3
  <2>4. i - 1 \in Nat /\ i - 1 < k /\ ~(i <= i - 1)
    BY <1>1, <2>3
  <2>5. Turned(h[i - 1], i - 1, n, k)
    <3>1. i - 1 \notin T
      <4> HIDE DEF T
      <4> QED  BY <2>2, <2>4
    <3> QED  BY <1>1, <2>4, <3>1
  <2>6. h[i] = Slice(h[i - 1])
    BY <1>1, <1>2, <2>3 DEF BridgeRuns
  <2>7. Turned(h[i], (i - 1) + 1, n, k)
    BY <1>1, <2>4, <2>5, <2>6, SliceTurns
  <2>8. (i - 1) + 1 = i
    BY <2>3
  <2> QED  BY <2>3, <2>7, <2>8
<1> QED  BY <1>1, <1>2, <1>4

\* The invariant: the base reserve is what the pool began with and all that was
\* filled, as far as its width goes, and no reserve is ever used up.
GatewayInv ==
    /\ placed \in Seq(Placed) /\ book \in Seq(Order) /\ Len(placed) = Len(book)
    /\ internet_reconnected \in BOOLEAN
    /\ DOMAIN local_credits \subseteq Accounts
    /\ \A a \in DOMAIN local_credits : local_credits[a] \in 0 .. MaxU64
    /\ global_amm \in Reserves
    /\ global_amm.base = Sat(InitialBase + Total(Filled, 1..Len(placed)))

\* It is stronger than what the run checks.
LEMMA InvMeans == GatewayInv => GatewayTypeOK /\ PoolHoldsEveryFill
<1> SUFFICES ASSUME GatewayInv PROVE GatewayTypeOK /\ PoolHoldsEveryFill
  OBVIOUS
<1>1. GatewayTypeOK
  BY DEF GatewayInv, GatewayTypeOK, BookTypeOK, Reserves
<1>2. FoldLeft(LAMBDA acc, p : acc + p.filled, 0, placed) = Total(Filled, 1..Len(placed))
  BY PlacedIsTotal, Widths DEF GatewayInv, Filled
<1>3. PoolHoldsEveryFill
  BY <1>2 DEF PoolHoldsEveryFill, GatewayInv, Sat
<1> QED  BY <1>1, <1>3

\* It holds at the start.
LEMMA InvStarts == GatewayInit => GatewayInv
<1> SUFFICES ASSUME GatewayInit PROVE GatewayInv
  OBVIOUS
<1>1. /\ InitialBase \in 1 .. MaxU64 /\ InitialQuote \in 1 .. MaxU64
  BY GatewayAssumption DEF GatewayAssumption
<1>2. placed = << >> /\ book = << >> /\ Len(placed) = 0
  BY DEF GatewayInit, BookInit
<1>3. Total(Filled, 1..0) = 0
  <2>1. 1..0 = {} /\ IsFiniteSet({})
    BY FS_EmptySet
  <2> QED  BY <2>1, TotalOfZeros
<1>4. /\ internet_reconnected \in BOOLEAN /\ DOMAIN local_credits = {}
      /\ global_amm \in Reserves /\ global_amm.base = InitialBase
  BY <1>1 DEF GatewayInit, Reserves
<1>5. InitialBase + 0 = InitialBase /\ Sat(InitialBase) = InitialBase
  BY <1>1, Widths DEF Sat
<1>6. placed \in Seq(Placed) /\ book \in Seq(Order) /\ Len(placed) = Len(book)
  BY <1>2
<1> QED  BY <1>2, <1>3, <1>4, <1>5, <1>6 DEF GatewayInv

\* A bridge: the pool gained what its order filled, the account paid that, or
\* nothing if the loop met a price of zero, and the product has not fallen.
LEMMA BridgeMovesValue ==
    ASSUME GatewayInv, NEW a \in Accounts, NEW n \in Amounts, NEW slices \in 0 .. MaxSlices,
           BridgeLocalToGlobal(a, n, slices)
    PROVE  /\ GatewayInv'
           /\ global_amm'.base < MaxU64 => BridgeStep /\ ProductStep
<1> DEFINE k == IF slices = 0 THEN 1 ELSE slices
           w == Bridged(n, k)
           filled == FilledIn(w)
           p == [amount |-> n, slices |-> k, filled |-> filled]
<1>1. /\ n \in 1 .. MaxU64 /\ k \in 1 .. MaxSlices /\ n >= k
      /\ MidPrice(global_amm) # 0
      /\ a \in DOMAIN local_credits /\ local_credits[a] >= n
      /\ book' = Append(book, w.order)
      /\ placed' = Append(placed, p)
      /\ global_amm' = w.amm
      /\ local_credits' = Debit(a, n, w)
      /\ result'.account = a /\ result'.outcome = w.outcome
      /\ UNCHANGED internet_reconnected
  <2>1. n \in 0 .. MaxU64 /\ n # 0 /\ MaxU64 \in Nat /\ MaxSlices \in Nat \ {0}
    BY TwammAssumption, Widths DEF TwammAssumption, BridgeLocalToGlobal
  <2> QED  BY <2>1 DEF BridgeLocalToGlobal, Submittable
<1>2. Turned(w, k, n, k) /\ global_amm \in Reserves
  BY <1>1, BridgeTurns DEF GatewayInv
<1> HIDE DEF w, k
<1>3. /\ filled \in Nat /\ filled <= n /\ w.order \in Order /\ w.amm \in Reserves
  <2>1. w.order \in Order /\ w.amm \in Reserves /\ w.fills \in Seq(Fill)
    BY <1>2 DEF Turned, Working
  <2>2. filled \in Nat
    BY <2>1, FilledIsTotal
  <2>3. w.order.remaining_in \in Nat
    BY <2>1, Widths DEF Order
  <2> HIDE DEF filled
  <2>4. filled + w.order.remaining_in = n
    BY <1>2 DEF Turned, filled
  <2> QED  BY <1>1, <2>1, <2>2, <2>3, <2>4
<1>4. filled \in 0 .. MaxU64
  BY <1>1, <1>3, Widths
<1>5. p \in Placed
  BY <1>1, <1>4 DEF Placed
<1> HIDE DEF filled
<1>6. global_amm'.base = Sat(global_amm.base + filled)
  BY <1>1, <1>2 DEF Turned, filled
<1>7. \A b \in DOMAIN local_credits' :
        /\ b \in DOMAIN local_credits
        /\ local_credits'[b] \in 0 .. MaxU64
        /\ b # a => local_credits'[b] = local_credits[b]
  <2>1. local_credits[a] \in 0 .. MaxU64 /\ local_credits[a] >= filled
    BY <1>1, <1>3, Widths DEF GatewayInv
  <2>2. Debit(a, n, w) = IF w.outcome = "error" THEN local_credits
                         ELSE [local_credits EXCEPT ![a] = local_credits[a] - filled]
    BY <1>1, <2>1 DEF Debit, filled
  <2> QED  BY <1>1, <1>3, <2>1, <2>2, Widths DEF GatewayInv
<1>8. local_credits[a] - local_credits'[a] = IF w.outcome = "error" THEN 0 ELSE filled
  <2>1. local_credits[a] \in 0 .. MaxU64 /\ local_credits[a] >= filled
    BY <1>1, <1>3, Widths DEF GatewayInv
  <2>2. Debit(a, n, w) = IF w.outcome = "error" THEN local_credits
                         ELSE [local_credits EXCEPT ![a] = local_credits[a] - filled]
    BY <1>1, <2>1 DEF Debit, filled
  <2> QED  BY <1>1, <1>3, <2>1, <2>2, Widths
<1>9. /\ Total(Filled', 1..Len(placed')) = Total(Filled, 1..Len(placed)) + filled
      /\ Total(Filled, 1..Len(placed)) \in Nat
  <2> DEFINE l == Len(placed)
             g == Filled
             h == Filled'
  <2>1. /\ l \in Nat /\ DOMAIN placed = 1..l /\ Len(placed') = l + 1
        /\ DOMAIN placed' = 1..(l + 1)
        /\ \A j \in 1..l : placed'[j] = placed[j] /\ placed[j] \in Placed
        /\ placed'[l + 1] = p
    <3> HIDE DEF p
    <3> QED  BY <1>1, <1>5 DEF GatewayInv
  <2> HIDE DEF l
  <2>2. /\ Counting(g, 1..l) /\ \A j \in 1..l : h[j] = g[j]
        /\ h[l + 1] = filled
    <3>1. \A j \in 1..l : g[j] = placed[j].filled /\ placed[j] \in Placed
      BY <2>1 DEF Filled
    <3>2. \A j \in 1..(l + 1) : h[j] = placed'[j].filled
      BY <2>1 DEF Filled
    <3>3. l + 1 \in 1..(l + 1) /\ \A j \in 1..l : j \in 1..(l + 1)
      BY <2>1
    <3>4. \A x \in Placed : x.filled \in Nat
      BY Widths DEF Placed
    <3> HIDE DEF g, h, p
    <3>5. Counting(g, 1..l)
      BY <3>1, <3>4 DEF Counting
    <3>6. h[l + 1] = filled
      BY <2>1, <3>2, <3>3 DEF p
    <3> QED  BY <2>1, <3>1, <3>2, <3>3, <3>5, <3>6
  <2> HIDE DEF g, h
  <2>3. Total(h, 1..(l + 1)) = Total(g, 1..l) + h[l + 1] /\ Total(g, 1..l) \in Nat
    BY <1>3, <2>1, <2>2, TotalAppends
  <2> QED  BY <2>1, <2>2, <2>3 DEF g, h, l
<1>10. global_amm'.base = Sat(InitialBase + Total(Filled', 1..Len(placed')))
  <2> DEFINE t == Total(Filled, 1..Len(placed))
             u == Total(Filled', 1..Len(placed'))
  <2>1. t \in Nat /\ u = t + filled /\ global_amm.base = Sat(InitialBase + t)
    BY <1>9 DEF GatewayInv
  <2>2. InitialBase \in 1 .. MaxU64
    BY GatewayAssumption DEF GatewayAssumption
  <2> HIDE DEF t, u
  <2>3. global_amm'.base = Sat(InitialBase + u)
    BY <1>3, <1>6, <2>1, <2>2, Widths DEF Sat
  <2> QED  BY <2>3 DEF u
<1>11. GatewayInv'
  <2>1. book' \in Seq(Order) /\ placed' \in Seq(Placed) /\ Len(placed') = Len(book')
    <3> HIDE DEF p
    <3> QED  BY <1>1, <1>3, <1>5 DEF GatewayInv
  <2>2. /\ DOMAIN local_credits' \subseteq Accounts
        /\ \A b \in DOMAIN local_credits' : local_credits'[b] \in 0 .. MaxU64
    BY <1>7 DEF GatewayInv
  <2>3. global_amm' \in Reserves /\ internet_reconnected' \in BOOLEAN
    BY <1>1, <1>3 DEF GatewayInv
  <2> QED  BY <1>10, <2>1, <2>2, <2>3 DEF GatewayInv, Reserves
<1>12. ASSUME global_amm'.base < MaxU64 PROVE BridgeStep /\ ProductStep
  <2>1. global_amm'.base - global_amm.base = filled
    BY <1>2, <1>3, <1>6, <1>12, Widths DEF Sat, Reserves
  <2>2. ProductStep
    BY <1>1, <1>2, <1>12 DEF ProductStep, Turned
  <2>3. w.outcome = "error" => filled > 0 /\ MidPrice(global_amm') = 0
    <3>1. w.outcome = "error" => MidPrice(w.amm) = 0 /\ w.amm # global_amm
      BY <1>1, <1>2 DEF Turned
    <3>2. filled = 0 => w.amm = global_amm
      BY <1>2 DEF Turned, filled
    <3> QED  BY <1>1, <1>3, <3>1, <3>2
  <2>4. \A b \in DOMAIN local_credits \ {a} : local_credits[b] - local_credits'[b] = 0
    <3>1. DOMAIN local_credits' = DOMAIN local_credits
      BY <1>1 DEF Debit
    <3> QED  BY <1>7, <3>1, Widths DEF GatewayInv
  <2>5. placed'[Len(placed')].filled = filled
    <3>1. placed \in Seq(Placed) /\ placed' = Append(placed, p)
      BY <1>1 DEF GatewayInv
    <3>2. p.filled = filled
      OBVIOUS
    <3> HIDE DEF p
    <3> QED  BY <1>5, <3>1, <3>2
  <2> QED  BY <1>1, <1>8, <2>1, <2>2, <2>3, <2>4, <2>5 DEF BridgeStep, Taken
<1> QED  BY <1>11, <1>12

\* Every step keeps it, and moves value as the property says.
LEMMA GatewayStepKeeps ==
    ASSUME GatewayInv, [GatewayNext]_bridgeVars
    PROVE  /\ GatewayInv'
           /\ global_amm'.base < MaxU64 => BridgeStep /\ ProductStep
<1>1. ASSUME UNCHANGED <<bookVars, global_amm>>, internet_reconnected' \in BOOLEAN,
             DOMAIN local_credits' \subseteq Accounts,
             \A a \in DOMAIN local_credits' : local_credits'[a] \in 0 .. MaxU64
      PROVE  GatewayInv' /\ BridgeStep /\ ProductStep
  <2>1. GatewayInv'
    BY <1>1 DEF GatewayInv, bookVars, Filled
  <2>2. global_amm.base * global_amm.quote \in Nat
    <3>1. global_amm.base \in Nat /\ global_amm.quote \in Nat
      BY Widths DEF GatewayInv, Reserves
    <3> QED  BY <3>1
  <2> DEFINE x == global_amm.base * global_amm.quote
  <2>3. ProductStep
    BY <1>1, <2>2 DEF ProductStep
  <2>4. Len(placed) \in Nat /\ placed' = placed
    BY <1>1 DEF GatewayInv, bookVars
  <2> QED  BY <2>1, <2>3, <2>4 DEF BridgeStep
<1>2. CASE OnInternetReconnect
  BY <1>1, <1>2 DEF OnInternetReconnect, GatewayInv
<1>3. CASE OnInternetDisconnect
  BY <1>1, <1>3 DEF OnInternetDisconnect, GatewayInv
<1>4. ASSUME NEW a \in Accounts, NEW n \in Balances, SetLocalCredit(a, n)
      PROVE  GatewayInv' /\ BridgeStep /\ ProductStep
  <2>1. n \in 0 .. MaxU64
    BY GatewayAssumption DEF GatewayAssumption
  <2> QED  BY <1>1, <1>4, <2>1 DEF SetLocalCredit, GatewayInv
<1>5. ASSUME NEW a \in Accounts, NEW n \in Amounts, NEW slices \in 0 .. MaxSlices,
             BridgeLocalToGlobal(a, n, slices)
      PROVE  /\ GatewayInv'
             /\ global_amm'.base < MaxU64 => BridgeStep /\ ProductStep
  BY <1>5, BridgeMovesValue
<1>6. CASE UNCHANGED bridgeVars
  BY <1>1, <1>6 DEF bridgeVars, gatewayVars, GatewayInv
<1> QED  BY <1>2, <1>3, <1>4, <1>5, <1>6 DEF GatewayNext

\* The book and the pool agree, also after a bridge that failed half-way
\* (bridge_local_to_global).
THEOREM FillsAreInThePool == GatewaySpec => [](GatewayTypeOK /\ PoolHoldsEveryFill)
<1>1. GatewayInv /\ [GatewayNext]_bridgeVars => GatewayInv'
  BY GatewayStepKeeps
<1> QED  BY <1>1, InvMeans, InvStarts, PTL DEF GatewaySpec

\* A reserve saturates at the width of its field, which drops what does not fit.
PoolHasRoom == global_amm.base < MaxU64

\* While the pool has room a bridge moves value and makes none: for every width,
\* scale, cap and slicing, the account pays what the pool gets, or nothing in a
\* bridge that sold the last of the price, and the product of the reserves never falls
\* (bridge_local_to_global, swap).
THEOREM BridgesKeepValue == GatewaySpec /\ []PoolHasRoom => BridgeKeepsValue
<1>1. GatewayInv /\ [GatewayNext]_bridgeVars => GatewayInv'
  BY GatewayStepKeeps
<1>2. GatewayInv /\ PoolHasRoom' /\ [GatewayNext]_bridgeVars => [BridgeStep /\ ProductStep]_bridgeVars
  BY GatewayStepKeeps DEF PoolHasRoom
<1>3. GatewayInv => PoolHoldsEveryFill
  BY InvMeans
<1> QED  BY <1>1, <1>2, <1>3, InvStarts, PTL DEF GatewaySpec, BridgeKeepsValue

-----------------------------------------------------------------------------
(***************************************************************************)
(* The context window.  A page is free or belongs to one slot, and the     *)
(* slots that have one are kept in the order in which the pages were used, *)
(* so that the page used longest ago is that of the first of them.         *)
(***************************************************************************)

PageBytes == TokenBlobs \union {Zeroed}
PageRecords == [data : PageBytes, last_used : Nat]
PageTables == [table : [Slots -> Nat \union {NoPage}],
               pages : UNION {[0..(n - 1) -> PageRecords] : n \in Nat},
               free_list : Seq(Nat), next_page_id : Nat, clock : Nat]

\* A page is free or has one slot, except one page that may be held in between.
TableKept(t, held) ==
    /\ t \in PageTables /\ DOMAIN t.pages = 0..(t.next_page_id - 1)
    /\ t.next_page_id <= MaxPhysicalPages
    /\ \A id \in DOMAIN t.pages : t.pages[id].last_used <= t.clock
    /\ \A s \in Slots : t.table[s] # NoPage => t.table[s] \in DOMAIN t.pages \ held
    /\ \A r, s \in Slots : t.table[r] # NoPage /\ t.table[r] = t.table[s] => r = s
    /\ \A k \in 1..Len(t.free_list) :
          /\ t.free_list[k] \in DOMAIN t.pages \ held
          /\ \A s \in Slots : t.table[s] # t.free_list[k]
          /\ \A j \in 1..Len(t.free_list) : t.free_list[j] = t.free_list[k] => j = k
    /\ \A id \in DOMAIN t.pages \ held :
          (\E k \in 1..Len(t.free_list) : t.free_list[k] = id) \/ (\E s \in Slots : t.table[s] = id)

\* The slots that have a page, in the order of their use.
OrderKept(t, slots, spare) ==
    /\ slots \in Seq(Slots)
    /\ \A s \in Slots : t.table[s] # NoPage <=> \E k \in 1..Len(slots) : slots[k] = s
    /\ \A j, k \in 1..Len(slots) : j < k =>
          t.pages[t.table[slots[j]]].last_used < t.pages[t.table[slots[k]]].last_used
    /\ Len(slots) + Len(t.free_list) + spare = t.next_page_id

TruthKept(t, bytes) == \A s \in Slots : t.table[s] # NoPage => t.pages[t.table[s]].data = bytes[s]

CacheKept(c, bytes) ==
    TableKept(c.t, {}) /\ OrderKept(c.t, c.used, 0) /\ TruthKept(c.t, bytes)

\* What WindowAssumption says of the pages.
LEMMA WindowSizes ==
    MaxTokens \in Nat /\ MaxPhysicalPages \in Nat /\ MaxPhysicalPages >= 1 /\ NoPage \notin Nat
BY WindowAssumption DEF WindowAssumption

\* A slot is used once.
LEMMA UsedOnce ==
    ASSUME NEW t, NEW slots, NEW spare, TableKept(t, {}) \/ \E id : TableKept(t, {id}),
           OrderKept(t, slots, spare)
    PROVE  /\ \A j, k \in 1..Len(slots) : slots[j] = slots[k] => j = k
           /\ \A k \in 1..Len(slots) : /\ slots[k] \in Slots /\ t.table[slots[k]] # NoPage
                                       /\ t.table[slots[k]] \in DOMAIN t.pages
                                       /\ t.pages[t.table[slots[k]]].last_used \in Nat
           /\ Len(slots) \in Nat
<1>1. Len(slots) \in Nat /\ slots \in Seq(Slots) /\ t \in PageTables
  BY LenProperties DEF OrderKept, TableKept
<1>2. ASSUME NEW k \in 1..Len(slots)
      PROVE  /\ slots[k] \in Slots /\ t.table[slots[k]] # NoPage
             /\ t.table[slots[k]] \in DOMAIN t.pages
             /\ t.pages[t.table[slots[k]]].last_used \in Nat
  <2>1. slots[k] \in Slots
    BY <1>1, ElementOfSeq
  <2>2. t.table[slots[k]] # NoPage
    BY <2>1 DEF OrderKept
  <2>3. t.table[slots[k]] \in DOMAIN t.pages
    BY <2>1, <2>2 DEF TableKept
  <2>4. \A id \in DOMAIN t.pages : t.pages[id] \in PageRecords
    BY <1>1 DEF PageTables
  <2> QED  BY <2>1, <2>2, <2>3, <2>4 DEF PageRecords
<1>3. ASSUME NEW j \in 1..Len(slots), NEW k \in 1..Len(slots), slots[j] = slots[k] PROVE j = k
  <2> DEFINE a(i) == t.pages[t.table[slots[i]]].last_used
  <2>1. a(j) = a(k) /\ a(j) \in Nat
    BY <1>2, <1>3
  <2>2. /\ j < k => a(j) < a(k)
        /\ k < j => a(k) < a(j)
    BY DEF OrderKept
  <2> HIDE DEF a
  <2> QED  BY <1>1, <2>1, <2>2
<1> QED  BY <1>1, <1>2, <1>3

\* Without a slot that is not there, nothing changes; without one that is, the
\* others keep their order.
LEMMA WithoutOne ==
    ASSUME NEW slots \in Seq(Slots), NEW s,
           \A j, k \in 1..Len(slots) : slots[j] = slots[k] => j = k
    PROVE  /\ (\A k \in 1..Len(slots) : slots[k] # s) => Without(slots, s) = slots
           /\ \A i \in 1..Len(slots) : slots[i] = s =>
                /\ Without(slots, s) \in Seq(Slots) /\ Len(Without(slots, s)) = Len(slots) - 1
                /\ \A k \in 1..Len(Without(slots, s)) :
                      Without(slots, s)[k] = slots[IF k < i THEN k ELSE k + 1]
<1>1. Len(slots) \in Nat /\ DOMAIN slots = 1..Len(slots)
  BY LenProperties
<1>2. ASSUME \A k \in 1..Len(slots) : slots[k] # s PROVE Without(slots, s) = slots
  BY <1>1, <1>2 DEF Without
<1>3. ASSUME NEW i \in 1..Len(slots), slots[i] = s
      PROVE  /\ Without(slots, s) \in Seq(Slots) /\ Len(Without(slots, s)) = Len(slots) - 1
             /\ \A k \in 1..Len(Without(slots, s)) :
                   Without(slots, s)[k] = slots[IF k < i THEN k ELSE k + 1]
  <2> DEFINE places == {k \in DOMAIN slots : slots[k] = s}
             r == SubSeq(slots, 1, i - 1) \o SubSeq(slots, i + 1, Len(slots))
  <2>1. places = {i}
    BY <1>1, <1>3
  <2>2. Min(places) = i
    <3>1. {i} \subseteq Nat /\ {i} # {}
      BY <1>1
    <3> QED  BY <2>1, <3>1, MinIsLeast
  <2>3. Without(slots, s) = r
    BY <2>1, <2>2 DEF Without, RemoveAt
  <2>4. r \in Seq(Slots) /\ Len(r) = Len(slots) - 1
        /\ \A k \in 1..Len(r) : r[k] = slots[IF k < i THEN k ELSE k + 1]
    BY RemovedPlace
  <2> HIDE DEF r
  <2> QED  BY <2>3, <2>4
<1> QED  BY <1>2, <1>3

\* What a touch changes.
LEMMA Touched ==
    ASSUME NEW t \in PageTables, NEW id \in DOMAIN t.pages
    PROVE  LET r == TouchById(t, id)
           IN  /\ r \in PageTables /\ r.table = t.table /\ r.free_list = t.free_list
               /\ r.next_page_id = t.next_page_id /\ r.clock = t.clock + 1
               /\ DOMAIN r.pages = DOMAIN t.pages
               /\ r.pages[id].data = t.pages[id].data /\ r.pages[id].last_used = t.clock + 1
               /\ \A p \in DOMAIN t.pages : p # id => r.pages[p] = t.pages[p]
<1> DEFINE new == [t.pages EXCEPT ![id].last_used = t.clock + 1]
           r == TouchById(t, id)
<1>1. PICK n \in Nat : t.pages \in [0..(n - 1) -> PageRecords]
  BY DEF PageTables
<1>7. t.clock \in Nat /\ t.clock + 1 \in Nat
  BY DEF PageTables
<1>2. new \in [0..(n - 1) -> PageRecords]
  BY <1>1, <1>7 DEF PageRecords
<1>3. r = [t EXCEPT !.clock = t.clock + 1, !.pages = new]
  BY DEF TouchById
<1>4. /\ new[id].data = t.pages[id].data /\ new[id].last_used = t.clock + 1
      /\ \A p \in DOMAIN t.pages : p # id => new[p] = t.pages[p]
      /\ DOMAIN new = DOMAIN t.pages
  BY <1>1 DEF PageRecords
<1> HIDE DEF new, r
<1>5. /\ r.table = t.table /\ r.free_list = t.free_list /\ r.next_page_id = t.next_page_id
      /\ r.clock = t.clock + 1 /\ r.pages = new
  BY <1>3 DEF PageTables
<1>6. r \in PageTables
  BY <1>2, <1>3, <1>7 DEF PageTables
<1> QED  BY <1>4, <1>5, <1>6 DEF r

\* What it changes to put other bytes on a page.
LEMMA Refilled ==
    ASSUME NEW t \in PageTables, NEW id \in DOMAIN t.pages, NEW bytes \in PageBytes
    PROVE  LET r == [t EXCEPT !.pages = [@ EXCEPT ![id].data = bytes]]
           IN  /\ r \in PageTables /\ r.table = t.table /\ r.free_list = t.free_list
               /\ r.next_page_id = t.next_page_id /\ r.clock = t.clock
               /\ DOMAIN r.pages = DOMAIN t.pages
               /\ r.pages[id].data = bytes /\ r.pages[id].last_used = t.pages[id].last_used
               /\ \A p \in DOMAIN t.pages : p # id => r.pages[p] = t.pages[p]
<1> DEFINE new == [t.pages EXCEPT ![id].data = bytes]
           r == [t EXCEPT !.pages = new]
<1>1. PICK n \in Nat : t.pages \in [0..(n - 1) -> PageRecords]
  BY DEF PageTables
<1>2. new \in [0..(n - 1) -> PageRecords]
  BY <1>1 DEF PageRecords
<1>4. /\ new[id].data = bytes /\ new[id].last_used = t.pages[id].last_used
      /\ \A p \in DOMAIN t.pages : p # id => new[p] = t.pages[p]
      /\ DOMAIN new = DOMAIN t.pages
  BY <1>1 DEF PageRecords
<1> HIDE DEF new
<1>5. /\ r.table = t.table /\ r.free_list = t.free_list /\ r.next_page_id = t.next_page_id
      /\ r.clock = t.clock /\ r.pages = new
  BY DEF PageTables
<1>6. r \in PageTables
  BY <1>2 DEF PageTables
<1> QED  BY <1>4, <1>5, <1>6 DEF new

\* What unmapping a mapped slot changes.
LEMMA Unmapped ==
    ASSUME NEW t \in PageTables, NEW s \in Slots, NEW id, id = t.table[s], id # NoPage,
           id \in DOMAIN t.pages, \A k \in 1..Len(t.free_list) : t.free_list[k] # id
    PROVE  LET r == UnmapSlot(t, s)
           IN  /\ r \in PageTables /\ r.next_page_id = t.next_page_id /\ r.clock = t.clock
               /\ r.table[s] = NoPage /\ \A o \in Slots : o # s => r.table[o] = t.table[o]
               /\ r.free_list = Append(t.free_list, id) /\ DOMAIN r.pages = DOMAIN t.pages
               /\ \A p \in DOMAIN t.pages : r.pages[p].last_used = t.pages[p].last_used
               /\ \A p \in DOMAIN t.pages : p # id => r.pages[p] = t.pages[p]
<1> DEFINE new == [t.pages EXCEPT ![id].data = Zeroed]
           bare == [t.table EXCEPT ![s] = NoPage]
           list == Append(t.free_list, id)
           r == UnmapSlot(t, s)
<1>1. PICK n \in Nat : t.pages \in [0..(n - 1) -> PageRecords]
  BY DEF PageTables
<1>2. t.table \in [Slots -> Nat \union {NoPage}] /\ t.free_list \in Seq(Nat) /\ id \in Nat
  <2>1. id \in 0..(n - 1)
    BY <1>1
  <2> QED  BY <2>1 DEF PageTables
<1>3. new \in [0..(n - 1) -> PageRecords]
  BY <1>1 DEF PageRecords, PageBytes
<1>4. /\ \A p \in DOMAIN t.pages : new[p].last_used = t.pages[p].last_used
      /\ \A p \in DOMAIN t.pages : p # id => new[p] = t.pages[p]
      /\ DOMAIN new = DOMAIN t.pages
  BY <1>1 DEF PageRecords
<1>5. /\ bare \in [Slots -> Nat \union {NoPage}] /\ bare[s] = NoPage
      /\ \A o \in Slots : o # s => bare[o] = t.table[o]
  BY <1>2
<1>6. list \in Seq(Nat)
  BY <1>2, AppendProperties
<1>7. ~Contains(t.free_list, id)
  BY DEF Contains
<1> DEFINE u == [t EXCEPT !.table[s] = NoPage]
<1>8. u = [t EXCEPT !.table = bare]
  BY DEF PageTables
<1>9. r = ReleasePage(u, id)
  BY DEF UnmapSlot
<1> HIDE DEF new, bare, list, r, u
<1>10. u.pages = t.pages /\ u.free_list = t.free_list
  BY <1>8 DEF PageTables
<1>11. r = [u EXCEPT !.pages = new, !.free_list = list]
  BY <1>7, <1>9, <1>10 DEF ReleasePage, new, list
<1>12. u \in PageTables /\ u.table = bare /\ u.next_page_id = t.next_page_id /\ u.clock = t.clock
  BY <1>5, <1>8 DEF PageTables
<1>13. /\ r.table = bare /\ r.free_list = list /\ r.next_page_id = t.next_page_id
       /\ r.clock = t.clock /\ r.pages = new
  BY <1>11, <1>12 DEF PageTables
<1>14. r \in PageTables
  BY <1>3, <1>6, <1>11, <1>12 DEF PageTables
<1> QED  BY <1>4, <1>5, <1>13, <1>14 DEF r, list

\* A slot that gives its page up: the page is free, the other slots keep theirs.
LEMMA UnmapKeeps ==
    ASSUME NEW t, NEW slots, NEW bytes, CacheKept(Cache(t, slots), bytes), NEW s \in Slots
    PROVE  LET c == UnmapNext(Cache(t, slots), s)
           IN  CacheKept(c, bytes) /\ c.t.table[s] = NoPage /\ \A k \in 1..Len(c.used) : c.used[k] # s
<1> DEFINE r == UnmapSlot(t, s)
           v == Without(slots, s)
           c == UnmapNext(Cache(t, slots), s)
<1>1. c.t = r /\ c.used = v
  BY DEF UnmapNext, Cache
<1>2. TableKept(t, {}) /\ OrderKept(t, slots, 0) /\ TruthKept(t, bytes)
  BY DEF CacheKept, Cache
<1>3. /\ \A j, k \in 1..Len(slots) : slots[j] = slots[k] => j = k
      /\ \A k \in 1..Len(slots) : /\ slots[k] \in Slots /\ t.table[slots[k]] # NoPage
                                  /\ t.table[slots[k]] \in DOMAIN t.pages
                                  /\ t.pages[t.table[slots[k]]].last_used \in Nat
      /\ Len(slots) \in Nat
  BY <1>2, UsedOnce
<1>4. slots \in Seq(Slots) /\ t \in PageTables
  BY <1>2 DEF OrderKept, TableKept
<1>5. CASE t.table[s] = NoPage
  <2>1. r = t
    BY <1>5 DEF UnmapSlot
  <2>2. \A k \in 1..Len(slots) : slots[k] # s
    BY <1>3, <1>5
  <2>3. v = slots
    BY <1>3, <1>4, <2>2, WithoutOne
  <2> QED  BY <1>1, <1>2, <1>5, <2>1, <2>2, <2>3 DEF CacheKept
<1>6. CASE t.table[s] # NoPage
  <2> DEFINE id == t.table[s]
             n == Len(slots)
             m == Len(t.free_list)
  <2>1. id \in DOMAIN t.pages /\ \A k \in 1..Len(t.free_list) : t.free_list[k] # id
    BY <1>2, <1>6 DEF TableKept
  <2>2. PICK i \in 1..n : slots[i] = s
    BY <1>2, <1>6 DEF OrderKept
  <2>3. v \in Seq(Slots) /\ Len(v) = n - 1 /\ \A k \in 1..Len(v) : v[k] = slots[IF k < i THEN k ELSE k + 1]
    BY <1>3, <1>4, <2>2, WithoutOne
  <2>4. /\ r \in PageTables /\ r.next_page_id = t.next_page_id /\ r.clock = t.clock
        /\ r.table[s] = NoPage /\ \A o \in Slots : o # s => r.table[o] = t.table[o]
        /\ r.free_list = Append(t.free_list, id) /\ DOMAIN r.pages = DOMAIN t.pages
        /\ \A p \in DOMAIN t.pages : r.pages[p].last_used = t.pages[p].last_used
        /\ \A p \in DOMAIN t.pages : p # id => r.pages[p] = t.pages[p]
    BY <1>4, <1>6, <2>1, Unmapped
  <2>5. m \in Nat /\ t.free_list \in Seq(Nat) /\ id \in Nat
    <3>1. id \in Nat \union {NoPage} /\ t.free_list \in Seq(Nat)
      BY <1>4 DEF PageTables
    <3> QED  BY <1>6, <3>1, LenProperties
  <2>6. /\ Len(r.free_list) = m + 1 /\ r.free_list[m + 1] = id
        /\ \A k \in 1..m : r.free_list[k] = t.free_list[k]
    BY <2>4, <2>5, AppendProperties
  <2> HIDE DEF r, v, c
  <2>7. TableKept(r, {})
    <3>1. \A x \in DOMAIN r.pages : r.pages[x].last_used <= r.clock
      BY <1>2, <2>4 DEF TableKept
    <3>2. \A o \in Slots : r.table[o] # NoPage => r.table[o] \in DOMAIN r.pages \ {} /\ o # s
      BY <1>2, <2>4 DEF TableKept
    <3>3. \A o, q \in Slots : r.table[o] # NoPage /\ r.table[o] = r.table[q] => o = q
      BY <1>2, <2>4 DEF TableKept
    <3>4. \A o \in Slots : r.table[o] # id
      BY <1>2, <1>6, <2>4 DEF TableKept
    <3>5. ASSUME NEW k \in 1..(m + 1)
          PROVE  /\ r.free_list[k] \in DOMAIN r.pages \ {}
                 /\ \A o \in Slots : r.table[o] # r.free_list[k]
                 /\ \A j \in 1..(m + 1) : r.free_list[j] = r.free_list[k] => j = k
      <4>1. \A j \in 1..(m + 1) : j \in 1..m \/ j = m + 1
        <5>1. m \in Nat
          BY <2>5
        <5> HIDE DEF m
        <5> QED  BY <5>1
      <4>2. k \in 1..m \/ k = m + 1
        BY <4>1
      <4>3. CASE k = m + 1
        <5>1. r.free_list[k] = id
          BY <2>6, <4>3
        <5>2. \A j \in 1..m : r.free_list[j] # id
          BY <2>1, <2>6
        <5> QED  BY <2>1, <2>4, <3>4, <4>1, <4>3, <5>1, <5>2
      <4>4. CASE k \in 1..m
        <5>1. r.free_list[k] = t.free_list[k] /\ t.free_list[k] # id
          BY <2>1, <2>6, <4>4
        <5>2. /\ t.free_list[k] \in DOMAIN t.pages /\ \A o \in Slots : t.table[o] # t.free_list[k]
              /\ \A j \in 1..m : t.free_list[j] = t.free_list[k] => j = k
          BY <1>2, <4>4 DEF TableKept
        <5>3. \A o \in Slots : r.table[o] # t.free_list[k]
          <6>1. t.free_list[k] # NoPage
            <7>1. t.free_list[k] \in Nat
              BY <2>5, <4>4, ElementOfSeq
            <7> QED  BY <7>1, WindowSizes
          <6> QED  BY <2>4, <5>2, <6>1
        <5>4. \A j \in 1..(m + 1) : r.free_list[j] = r.free_list[k] => j = k
          BY <2>6, <4>1, <5>1, <5>2
        <5> QED  BY <2>4, <5>1, <5>2, <5>3, <5>4
      <4> QED  BY <4>2, <4>3, <4>4
    <3>6. ASSUME NEW x \in DOMAIN r.pages
          PROVE  (\E k \in 1..(m + 1) : r.free_list[k] = x) \/ (\E o \in Slots : r.table[o] = x)
      <4>1. 1..m \subseteq 1..(m + 1) /\ m + 1 \in 1..(m + 1)
        BY <2>5
      <4>2. (\E k \in 1..m : t.free_list[k] = x) \/ (\E o \in Slots : t.table[o] = x)
        BY <1>2, <2>4 DEF TableKept
      <4> QED  BY <2>4, <2>6, <4>1, <4>2
    <3>7. DOMAIN r.pages = 0..(r.next_page_id - 1) /\ r.next_page_id <= MaxPhysicalPages
      BY <1>2, <2>4 DEF TableKept
    <3> HIDE DEF id
    <3> QED  BY <2>4, <2>6, <3>1, <3>2, <3>3, <3>5, <3>6, <3>7 DEF TableKept
  <2>8. \A k \in 1..Len(v) : /\ v[k] \in Slots /\ v[k] # s
                             /\ r.table[v[k]] = t.table[v[k]]
                             /\ r.pages[r.table[v[k]]].last_used = t.pages[t.table[v[k]]].last_used
    <3> SUFFICES ASSUME NEW k \in 1..Len(v)
                 PROVE  /\ v[k] \in Slots /\ v[k] # s
                        /\ r.table[v[k]] = t.table[v[k]]
                        /\ r.pages[r.table[v[k]]].last_used = t.pages[t.table[v[k]]].last_used
      OBVIOUS
    <3> DEFINE j == IF k < i THEN k ELSE k + 1
    <3>1. j \in 1..n /\ j # i
      BY <1>3, <2>3
    <3>2. v[k] = slots[j]
      BY <2>3
    <3> HIDE DEF j
    <3> QED  BY <1>3, <2>2, <2>4, <3>1, <3>2
  <2>9. OrderKept(r, v, 0)
    <3>1. ASSUME NEW o \in Slots PROVE r.table[o] # NoPage <=> \E k \in 1..Len(v) : v[k] = o
      <4>1. CASE o = s
        BY <2>4, <2>8, <4>1
      <4>2. CASE o # s
        <5>1. r.table[o] # NoPage <=> \E k \in 1..n : slots[k] = o
          BY <1>2, <2>4, <4>2 DEF OrderKept
        <5>2. ASSUME NEW k \in 1..n, slots[k] = o PROVE \E j \in 1..Len(v) : v[j] = o
          <6>1. k # i
            BY <2>2, <4>2, <5>2
          <6>2. CASE k < i
            <7>1. k \in 1..Len(v) /\ v[k] = slots[k]
              BY <1>3, <2>3, <6>2
            <7> QED  BY <5>2, <7>1
          <6>3. CASE ~(k < i)
            <7>1. k - 1 \in 1..Len(v) /\ ~(k - 1 < i) /\ k - 1 + 1 = k
              BY <1>3, <2>3, <6>1, <6>3
            <7>2. v[k - 1] = slots[k]
              BY <2>3, <7>1
            <7> QED  BY <5>2, <7>1, <7>2
          <6> QED  BY <6>2, <6>3
        <5>3. ASSUME NEW j \in 1..Len(v), v[j] = o PROVE \E k \in 1..n : slots[k] = o
          <6>1. (IF j < i THEN j ELSE j + 1) \in 1..n
            BY <1>3, <2>3
          <6> QED  BY <2>3, <5>3, <6>1
        <5> QED  BY <5>1, <5>2, <5>3
      <4> QED  BY <4>1, <4>2
    <3>2. ASSUME NEW j \in 1..Len(v), NEW k \in 1..Len(v), j < k
          PROVE  r.pages[r.table[v[j]]].last_used < r.pages[r.table[v[k]]].last_used
      <4> DEFINE x == IF j < i THEN j ELSE j + 1
                 y == IF k < i THEN k ELSE k + 1
      <4>1. x \in 1..n /\ y \in 1..n /\ x < y
        BY <1>3, <2>3, <3>2
      <4>2. v[j] = slots[x] /\ v[k] = slots[y]
        BY <2>3
      <4> HIDE DEF x, y
      <4>3. t.pages[t.table[slots[x]]].last_used < t.pages[t.table[slots[y]]].last_used
        BY <1>2, <4>1 DEF OrderKept
      <4> QED  BY <2>8, <4>2, <4>3
    <3>3. Len(v) + Len(r.free_list) + 0 = r.next_page_id
      <4>1. n + m + 0 = t.next_page_id
        BY <1>2 DEF OrderKept
      <4> QED  BY <1>3, <2>3, <2>4, <2>5, <2>6, <4>1
    <3> QED  BY <2>3, <3>1, <3>2, <3>3 DEF OrderKept
  <2>10. TruthKept(r, bytes)
    <3> SUFFICES ASSUME NEW o \in Slots, r.table[o] # NoPage PROVE r.pages[r.table[o]].data = bytes[o]
      BY DEF TruthKept
    <3>1. o # s /\ r.table[o] = t.table[o] /\ t.table[o] # id /\ t.table[o] \in DOMAIN t.pages
      BY <1>2, <1>6, <2>4 DEF TableKept
    <3> QED  BY <1>2, <2>4, <3>1 DEF TruthKept
  <2>11. CacheKept(c, bytes)
    BY <1>1, <2>7, <2>9, <2>10 DEF CacheKept
  <2>12. c.t.table[s] = NoPage
    BY <1>1, <2>4
  <2>13. \A k \in 1..Len(c.used) : c.used[k] # s
    BY <1>1, <2>8
  <2> QED  BY <2>11, <2>12, <2>13 DEF c
<1> QED  BY <1>5, <1>6 DEF c

\* A page has been found for slot s, whose use is the last of uses.
Placing(a, uses, bytes, s) ==
    /\ TableKept(a.t, {a.id}) /\ a.id \in DOMAIN a.t.pages /\ a.t.pages[a.id].data = Zeroed
    /\ TruthKept(a.t, bytes) /\ a.t.table[s] = NoPage
    /\ \E kept \in Seq(Slots) : OrderKept(a.t, kept, 1) /\ uses = Append(kept, s)

\* A freed page is taken: no slot loses its own.
LEMMA AllocFree ==
    ASSUME NEW t, NEW slots, NEW bytes, CacheKept(Cache(t, slots), bytes), NEW s \in Slots,
           t.table[s] = NoPage, t.free_list # << >>
    PROVE  Placing(AllocPage(t), Used(slots, s), bytes, s)
<1> DEFINE n == Len(slots)
           m == Len(t.free_list)
           id == Last(t.free_list)
           f == Front(t.free_list)
           r == [t EXCEPT !.pages = [@ EXCEPT ![id].data = Zeroed]]
           a == AllocPage(t)
           u == [r EXCEPT !.free_list = f]
<1>1. TableKept(t, {}) /\ OrderKept(t, slots, 0) /\ TruthKept(t, bytes)
  BY DEF CacheKept, Cache
<1>2. /\ \A j, k \in 1..n : slots[j] = slots[k] => j = k
      /\ \A k \in 1..n : slots[k] \in Slots /\ t.table[slots[k]] # NoPage
                         /\ t.table[slots[k]] \in DOMAIN t.pages
      /\ n \in Nat
  BY <1>1, UsedOnce
<1>3. slots \in Seq(Slots) /\ t \in PageTables
  BY <1>1 DEF OrderKept, TableKept
<1>4. t.free_list \in Seq(Nat) /\ m \in Nat /\ m >= 1
  <2>1. t.free_list \in Seq(Nat)
    BY <1>3 DEF PageTables
  <2> QED  BY <2>1, EmptySeq, LenProperties
<1>5. id = t.free_list[m] /\ m \in 1..m
  BY <1>4 DEF Last
<1>6. id \in DOMAIN t.pages /\ id \in Nat
  <2>1. t.free_list[m] \in DOMAIN t.pages
    BY <1>1, <1>5 DEF TableKept
  <2> QED  BY <1>4, <1>5, <2>1, ElementOfSeq
<1>7. f \in Seq(Nat) /\ Len(f) = m - 1 /\ \A k \in 1..(m - 1) : f[k] = t.free_list[k]
  <2>1. f = SubSeq(t.free_list, 1, m - 1)
    BY DEF Front
  <2>2. m - 1 \in 0..m
    BY <1>4
  <2> QED  BY <1>4, <2>1, <2>2, SubSeqProperties
<1>8. /\ r \in PageTables /\ r.table = t.table /\ r.free_list = t.free_list
      /\ r.next_page_id = t.next_page_id /\ r.clock = t.clock
      /\ DOMAIN r.pages = DOMAIN t.pages
      /\ r.pages[id].data = Zeroed /\ r.pages[id].last_used = t.pages[id].last_used
      /\ \A p \in DOMAIN t.pages : p # id => r.pages[p] = t.pages[p]
  <2>1. Zeroed \in PageBytes
    BY DEF PageBytes
  <2> HIDE DEF id
  <2> QED  BY <1>3, <1>6, <2>1, Refilled
<1>9. a.id = id /\ a.t = u
  BY <1>3 DEF AllocPage, PageTables
<1> HIDE DEF r, id, f, a
<1>10. /\ u \in PageTables /\ u.table = r.table /\ u.free_list = f
       /\ u.next_page_id = r.next_page_id /\ u.clock = r.clock /\ u.pages = r.pages
  BY <1>7, <1>8 DEF PageTables
<1> HIDE DEF u
<1>11. \A o \in Slots : u.table[o] # id
  BY <1>1, <1>5, <1>8, <1>10 DEF TableKept
<1>12. TableKept(u, {id})
  <2>1. DOMAIN u.pages = 0..(u.next_page_id - 1) /\ u.next_page_id <= MaxPhysicalPages
    BY <1>1, <1>8, <1>10 DEF TableKept
  <2>2. ASSUME NEW x \in DOMAIN u.pages PROVE u.pages[x].last_used <= u.clock
    <3>1. u.pages[x].last_used = t.pages[x].last_used
      BY <1>8, <1>10
    <3> QED  BY <1>1, <1>8, <1>10, <3>1 DEF TableKept
  <2>3. ASSUME NEW o \in Slots, u.table[o] # NoPage PROVE u.table[o] \in DOMAIN u.pages \ {id}
    <3>1. u.table[o] # id
      BY <1>11
    <3>2. u.table[o] \in DOMAIN u.pages
      BY <1>1, <1>8, <1>10, <2>3 DEF TableKept
    <3> QED  BY <3>1, <3>2
  <2>4. \A o, q \in Slots : u.table[o] # NoPage /\ u.table[o] = u.table[q] => o = q
    BY <1>1, <1>8, <1>10 DEF TableKept
  <2>5. ASSUME NEW k \in 1..(m - 1)
        PROVE  /\ f[k] \in DOMAIN u.pages \ {id}
               /\ \A o \in Slots : u.table[o] # f[k]
               /\ \A j \in 1..(m - 1) : f[j] = f[k] => j = k
    <3>1. k \in 1..m /\ k # m /\ 1..(m - 1) \subseteq 1..m
      BY <1>4
    <3>2. /\ t.free_list[k] \in DOMAIN t.pages /\ \A o \in Slots : t.table[o] # t.free_list[k]
          /\ \A j \in 1..m : t.free_list[j] = t.free_list[k] => j = k
      BY <1>1, <3>1 DEF TableKept
    <3> QED  BY <1>5, <1>7, <1>8, <1>10, <3>1, <3>2
  <2>6. ASSUME NEW x \in DOMAIN u.pages \ {id}
        PROVE  (\E k \in 1..(m - 1) : f[k] = x) \/ (\E o \in Slots : u.table[o] = x)
    <3>1. (\E k \in 1..m : t.free_list[k] = x) \/ (\E o \in Slots : t.table[o] = x)
      BY <1>1, <1>8, <1>10 DEF TableKept
    <3>2. ASSUME NEW k \in 1..m, t.free_list[k] = x PROVE k \in 1..(m - 1)
      BY <1>4, <1>5, <3>2
    <3> QED  BY <1>7, <1>8, <1>10, <3>1, <3>2
  <2> QED  BY <1>7, <1>10, <2>1, <2>2, <2>3, <2>4, <2>5, <2>6 DEF TableKept
<1>13. OrderKept(u, slots, 1)
  <2>1. ASSUME NEW j \in 1..n, NEW k \in 1..n, j < k
        PROVE  u.pages[u.table[slots[j]]].last_used < u.pages[u.table[slots[k]]].last_used
    BY <1>1, <1>2, <1>8, <1>10, <1>11, <2>1 DEF OrderKept
  <2>2. n + Len(u.free_list) + 1 = u.next_page_id
    <3>1. n + m + 0 = t.next_page_id
      BY <1>1 DEF OrderKept
    <3>2. Len(u.free_list) = m - 1 /\ u.next_page_id = t.next_page_id
      BY <1>7, <1>8, <1>10
    <3>3. n + (m - 1) + 1 = n + m + 0
      BY <1>2, <1>4
    <3> QED  BY <3>1, <3>2, <3>3
  <2> QED  BY <1>1, <1>3, <1>8, <1>10, <2>1, <2>2 DEF OrderKept
<1>14. TruthKept(u, bytes)
  BY <1>1, <1>8, <1>10, <1>11 DEF TruthKept, TableKept
<1>15. Used(slots, s) = Append(slots, s)
  <2>1. Without(slots, s) = slots
    BY <1>2, <1>3, WithoutOne
  <2>2. n + m + 0 = t.next_page_id /\ t.next_page_id <= MaxPhysicalPages
    BY <1>1 DEF OrderKept, TableKept
  <2>3. Len(Append(slots, s)) = n + 1
    BY <1>3, AppendProperties
  <2>4. ~(n + 1 > MaxPhysicalPages)
    BY <1>2, <1>4, <2>2, WindowSizes
  <2> QED  BY <2>1, <2>3, <2>4 DEF Used
<1> QED  BY <1>3, <1>6, <1>8, <1>9, <1>10, <1>12, <1>13, <1>14, <1>15 DEF Placing, a

\* A new page is made: no slot loses its own.
LEMMA AllocNew ==
    ASSUME NEW t, NEW slots, NEW bytes, CacheKept(Cache(t, slots), bytes), NEW s \in Slots,
           t.table[s] = NoPage, t.free_list = << >>, Cardinality(DOMAIN t.pages) < MaxPhysicalPages
    PROVE  Placing(AllocPage(t), Used(slots, s), bytes, s)
<1> DEFINE n == Len(slots)
           id == t.next_page_id
           new == [p \in DOMAIN t.pages \union {id} |->
                      IF p = id THEN [data |-> Zeroed, last_used |-> 0] ELSE t.pages[p]]
           a == AllocPage(t)
           u == [t EXCEPT !.next_page_id = id + 1, !.pages = new]
<1>1. TableKept(t, {}) /\ OrderKept(t, slots, 0) /\ TruthKept(t, bytes)
  BY DEF CacheKept, Cache
<1>2. /\ \A j, k \in 1..n : slots[j] = slots[k] => j = k
      /\ \A k \in 1..n : slots[k] \in Slots /\ t.table[slots[k]] # NoPage
                         /\ t.table[slots[k]] \in DOMAIN t.pages
      /\ n \in Nat
  BY <1>1, UsedOnce
<1>3. slots \in Seq(Slots) /\ t \in PageTables
  BY <1>1 DEF OrderKept, TableKept
<1>4. id \in Nat /\ t.clock \in Nat /\ DOMAIN t.pages = 0..(id - 1) /\ Len(t.free_list) = 0
  BY <1>1, <1>3, EmptySeq DEF TableKept, PageTables
<1>5. id < MaxPhysicalPages
  <2>1. Cardinality(0..(id - 1)) = id
    <3>1. 0 \in Int /\ id - 1 \in Int
      BY <1>4
    <3>2. Cardinality(0..(id - 1)) = IF 0 > id - 1 THEN 0 ELSE id - 1 - 0 + 1
      BY <3>1, FS_Interval
    <3> QED  BY <1>4, <3>2
  <2> QED  BY <1>4, <2>1
<1>6. PICK q \in Nat : t.pages \in [0..(q - 1) -> PageRecords]
  BY <1>3 DEF PageTables
<1>7. \A p \in 0..(id - 1) : t.pages[p] \in PageRecords
  BY <1>4, <1>6
<1>8. DOMAIN t.pages \union {id} = 0..((id + 1) - 1) /\ id \notin DOMAIN t.pages
  BY <1>4
<1>9. new \in [0..((id + 1) - 1) -> PageRecords]
  BY <1>4, <1>7, <1>8 DEF PageRecords, PageBytes
<1>10. /\ new[id].data = Zeroed /\ new[id].last_used = 0
       /\ \A p \in DOMAIN t.pages : p # id /\ new[p] = t.pages[p]
       /\ DOMAIN new = 0..((id + 1) - 1) /\ \A p \in DOMAIN new : p \in DOMAIN t.pages \/ p = id
  BY <1>8
<1>11. a.id = id /\ a.t = u
  BY <1>3 DEF AllocPage, PageTables
<1> HIDE DEF new, a
<1>12. /\ u.table = t.table /\ u.free_list = t.free_list
       /\ u.next_page_id = id + 1 /\ u.clock = t.clock /\ u.pages = new
  BY <1>3 DEF PageTables
<1>13. u \in PageTables
  <2>1. id + 1 \in Nat
    BY <1>4
  <2>2. new \in UNION {[0..(k - 1) -> PageRecords] : k \in Nat}
    BY <1>9, <2>1
  <2> QED  BY <1>3, <2>1, <2>2 DEF PageTables
<1> HIDE DEF u
<1>14. TableKept(u, {id})
  <2>1. DOMAIN u.pages = 0..(u.next_page_id - 1) /\ u.next_page_id <= MaxPhysicalPages
    BY <1>4, <1>5, <1>10, <1>12, WindowSizes
  <2>2. ASSUME NEW x \in DOMAIN u.pages PROVE u.pages[x].last_used <= u.clock
    <3>1. CASE x = id
      BY <1>4, <1>10, <1>12, <3>1
    <3>2. CASE x \in DOMAIN t.pages
      BY <1>1, <1>10, <1>12, <3>2 DEF TableKept
    <3> QED  BY <1>10, <1>12, <3>1, <3>2
  <2>3. \A o \in Slots : u.table[o] # NoPage => u.table[o] \in DOMAIN u.pages \ {id}
    BY <1>1, <1>4, <1>10, <1>12 DEF TableKept
  <2>4. \A o, r \in Slots : u.table[o] # NoPage /\ u.table[o] = u.table[r] => o = r
    BY <1>1, <1>12 DEF TableKept
  <2>5. 1..Len(u.free_list) = {}
    BY <1>4, <1>12
  <2>6. ASSUME NEW x \in DOMAIN u.pages \ {id} PROVE \E o \in Slots : u.table[o] = x
    <3>1. x \in DOMAIN t.pages
      BY <1>10, <1>12
    <3>2. 1..Len(t.free_list) = {}
      BY <1>4
    <3> QED  BY <1>1, <1>12, <3>1, <3>2 DEF TableKept
  <2> QED  BY <1>13, <2>1, <2>2, <2>3, <2>4, <2>5, <2>6 DEF TableKept
<1>15. OrderKept(u, slots, 1)
  <2>1. ASSUME NEW j \in 1..n, NEW k \in 1..n, j < k
        PROVE  u.pages[u.table[slots[j]]].last_used < u.pages[u.table[slots[k]]].last_used
    <3>1. t.pages[t.table[slots[j]]].last_used < t.pages[t.table[slots[k]]].last_used
      BY <1>1, <1>2, <2>1 DEF OrderKept
    <3>2. ASSUME NEW l \in 1..n PROVE u.pages[u.table[slots[l]]] = t.pages[t.table[slots[l]]]
      <4>1. slots[l] \in Slots /\ t.table[slots[l]] # NoPage
        BY <1>1, <1>2, ElementOfSeq DEF OrderKept
      <4>2. t.table[slots[l]] \in DOMAIN t.pages
        BY <1>1, <4>1 DEF TableKept
      <4> QED  BY <1>10, <1>12, <4>2
    <3> QED  BY <3>1, <3>2
  <2>2. n + Len(u.free_list) + 1 = u.next_page_id
    <3>1. n + 0 + 0 = id
      BY <1>1, <1>4 DEF OrderKept
    <3> QED  BY <1>2, <1>4, <1>12, <3>1
  <2> QED  BY <1>1, <1>3, <1>12, <2>1, <2>2 DEF OrderKept
<1>16. TruthKept(u, bytes)
  BY <1>1, <1>10, <1>12 DEF TruthKept, TableKept
<1>17. Used(slots, s) = Append(slots, s)
  <2>1. Without(slots, s) = slots
    BY <1>2, <1>3, WithoutOne
  <2>2. n + 0 + 0 = id
    BY <1>1, <1>4 DEF OrderKept
  <2>3. Len(Append(slots, s)) = n + 1
    BY <1>3, AppendProperties
  <2>4. ~(n + 1 > MaxPhysicalPages)
    BY <1>2, <1>4, <1>5, <2>2, WindowSizes
  <2> QED  BY <2>1, <2>3, <2>4 DEF Used
<1>18. id \in DOMAIN u.pages /\ u.pages[id].data = Zeroed
  BY <1>4, <1>10, <1>12
<1> HIDE DEF id
<1> QED  BY <1>3, <1>11, <1>12, <1>14, <1>15, <1>16, <1>17, <1>18 DEF Placing, a

\* The page used longest ago is taken, and only its slot loses it.
LEMMA AllocEvict ==
    ASSUME NEW t, NEW slots, NEW bytes, CacheKept(Cache(t, slots), bytes), NEW s \in Slots,
           t.table[s] = NoPage, t.free_list = << >>, ~(Cardinality(DOMAIN t.pages) < MaxPhysicalPages)
    PROVE  Placing(AllocPage(t), Used(slots, s), bytes, s)
<1> DEFINE n == Len(slots)
           age(x) == t.pages[x].last_used
           id == LeastRecentlyUsed(t)
           z == slots[1]
           kept == Tail(slots)
           r == [t EXCEPT !.pages = [@ EXCEPT ![id].data = Zeroed]]
           bare == Detached(t, id)
           a == AllocPage(t)
           u == [r EXCEPT !.table = bare]
<1>1. TableKept(t, {}) /\ OrderKept(t, slots, 0) /\ TruthKept(t, bytes)
  BY DEF CacheKept, Cache
<1>2. /\ \A j, k \in 1..n : slots[j] = slots[k] => j = k
      /\ \A k \in 1..n : /\ slots[k] \in Slots /\ t.table[slots[k]] # NoPage
                         /\ t.table[slots[k]] \in DOMAIN t.pages
                         /\ t.pages[t.table[slots[k]]].last_used \in Nat
      /\ n \in Nat
  BY <1>1, UsedOnce
<1>3. slots \in Seq(Slots) /\ t \in PageTables
  BY <1>1 DEF OrderKept, TableKept
<1>4. t.next_page_id \in Nat /\ DOMAIN t.pages = 0..(t.next_page_id - 1) /\ Len(t.free_list) = 0
  BY <1>1, <1>3, EmptySeq DEF TableKept, PageTables
<1>5. n = t.next_page_id /\ n = MaxPhysicalPages /\ n >= 1
  <2>1. Cardinality(0..(t.next_page_id - 1)) = t.next_page_id
    <3>1. 0 \in Int /\ t.next_page_id - 1 \in Int
      BY <1>4
    <3>2. Cardinality(0..(t.next_page_id - 1))
            = IF 0 > t.next_page_id - 1 THEN 0 ELSE t.next_page_id - 1 - 0 + 1
      BY <3>1, FS_Interval
    <3> QED  BY <1>4, <3>2
  <2>2. n + 0 + 0 = t.next_page_id /\ t.next_page_id <= MaxPhysicalPages
    BY <1>1, <1>4 DEF OrderKept, TableKept
  <2> QED  BY <1>2, <1>4, <2>1, <2>2, WindowSizes
<1>6. \A x \in DOMAIN t.pages : \E k \in 1..n : t.table[slots[k]] = x
  <2> SUFFICES ASSUME NEW x \in DOMAIN t.pages PROVE \E k \in 1..n : t.table[slots[k]] = x
    OBVIOUS
  <2>1. 1..Len(t.free_list) = {} /\ x # NoPage
    BY <1>4, WindowSizes
  <2>2. PICK o \in Slots : t.table[o] = x
    BY <1>1, <2>1 DEF TableKept
  <2> QED  BY <1>1, <2>1, <2>2 DEF OrderKept
<1>7. \A k \in 2..n : age(t.table[z]) < age(t.table[slots[k]])
  <2>1. 1 \in 1..n /\ \A k \in 2..n : k \in 1..n /\ 1 < k
    BY <1>2, <1>5
  <2> QED  BY <1>1, <2>1 DEF OrderKept
<1>8. id = t.table[z] /\ id \in DOMAIN t.pages /\ z \in Slots /\ t.table[z] # NoPage
  <2>1. 1 \in 1..n /\ \A k \in 1..n : k = 1 \/ k \in 2..n
    BY <1>2, <1>5
  <2>2. \A x \in DOMAIN t.pages : age(x) \in Nat
    BY <1>2, <1>6
  <2>3. t.table[z] \in DOMAIN t.pages /\ z \in Slots /\ t.table[z] # NoPage
    BY <1>2, <2>1
  <2>4. \A x \in DOMAIN t.pages : x # t.table[z] => age(t.table[z]) < age(x)
    BY <1>6, <1>7, <2>1
  <2>5. id = CHOOSE x \in DOMAIN t.pages : \A o \in DOMAIN t.pages : age(x) <= age(o)
    BY DEF LeastRecentlyUsed
  <2> HIDE DEF age, id
  <2>6. \A o \in DOMAIN t.pages : age(t.table[z]) <= age(o)
    BY <2>2, <2>3, <2>4
  <2>7. id \in DOMAIN t.pages /\ age(id) <= age(t.table[z])
    BY <2>3, <2>5, <2>6
  <2>8. id = t.table[z]
    BY <2>2, <2>3, <2>4, <2>7
  <2> QED  BY <2>3, <2>7, <2>8
<1>9. kept \in Seq(Slots) /\ Len(kept) = n - 1 /\ \A k \in 1..(n - 1) : kept[k] = slots[k + 1]
  <2>1. slots # << >>
    BY <1>5, EmptySeq
  <2> QED  BY <1>3, <2>1, HeadTailProperties
<1>10. /\ r \in PageTables /\ r.table = t.table /\ r.free_list = t.free_list
       /\ r.next_page_id = t.next_page_id /\ r.clock = t.clock
       /\ DOMAIN r.pages = DOMAIN t.pages
       /\ r.pages[id].data = Zeroed /\ r.pages[id].last_used = t.pages[id].last_used
       /\ \A p \in DOMAIN t.pages : p # id => r.pages[p] = t.pages[p]
  <2>1. Zeroed \in PageBytes
    BY DEF PageBytes
  <2>2. id \in DOMAIN t.pages
    BY <1>8
  <2> HIDE DEF id
  <2> QED  BY <1>3, <2>1, <2>2, Refilled
<1>11. a.id = id /\ a.t = u
  BY <1>3 DEF AllocPage, PageTables
<1>12. /\ bare \in [Slots -> Nat \union {NoPage}]
       /\ \A o \in Slots : bare[o] = IF o = z THEN NoPage ELSE t.table[o]
       /\ \A o \in Slots : t.table[o] = id => o = z
  <2>1. t.table \in [Slots -> Nat \union {NoPage}]
    BY <1>3 DEF PageTables
  <2>2. \A o \in Slots : t.table[o] = id => o = z
    BY <1>1, <1>8 DEF TableKept
  <2> HIDE DEF id, z
  <2> QED  BY <1>8, <2>1, <2>2 DEF Detached
<1> HIDE DEF r, id, a, kept, z, bare
<1>13. /\ u \in PageTables /\ u.table = bare /\ u.free_list = t.free_list
       /\ u.next_page_id = t.next_page_id /\ u.clock = t.clock /\ u.pages = r.pages
  BY <1>10, <1>12 DEF PageTables
<1> HIDE DEF u
<1>14. \A o \in Slots : u.table[o] # NoPage => u.table[o] = t.table[o] /\ u.table[o] # id /\ o # z
  BY <1>12, <1>13
<1>15. TableKept(u, {id})
  <2>1. DOMAIN u.pages = 0..(u.next_page_id - 1) /\ u.next_page_id <= MaxPhysicalPages
    BY <1>1, <1>10, <1>13 DEF TableKept
  <2>2. ASSUME NEW x \in DOMAIN u.pages PROVE u.pages[x].last_used <= u.clock
    <3>1. u.pages[x].last_used = t.pages[x].last_used
      BY <1>10, <1>13
    <3> QED  BY <1>1, <1>10, <1>13, <3>1 DEF TableKept
  <2>3. \A o \in Slots : u.table[o] # NoPage => u.table[o] \in DOMAIN u.pages \ {id}
    BY <1>1, <1>10, <1>13, <1>14 DEF TableKept
  <2>4. \A o, q \in Slots : u.table[o] # NoPage /\ u.table[o] = u.table[q] => o = q
    BY <1>1, <1>14 DEF TableKept
  <2>5. 1..Len(u.free_list) = {}
    BY <1>4, <1>13
  <2>6. ASSUME NEW x \in DOMAIN u.pages \ {id} PROVE \E o \in Slots : u.table[o] = x
    <3>1. PICK k \in 1..n : t.table[slots[k]] = x
      BY <1>6, <1>10, <1>13
    <3> QED  BY <1>2, <1>8, <1>12, <1>13, <3>1
  <2> QED  BY <1>13, <2>1, <2>2, <2>3, <2>4, <2>5, <2>6 DEF TableKept
<1>16. \A k \in 1..n : k # 1 => slots[k] # z
  BY <1>2, <1>5 DEF z
<1>17. \A k \in 1..Len(kept) : /\ k + 1 \in 1..n /\ kept[k] = slots[k + 1] /\ kept[k] \in Slots
                               /\ kept[k] # z /\ u.table[kept[k]] = t.table[kept[k]]
                               /\ u.pages[u.table[kept[k]]] = t.pages[t.table[kept[k]]]
  <2> SUFFICES ASSUME NEW k \in 1..Len(kept)
               PROVE  /\ k + 1 \in 1..n /\ kept[k] = slots[k + 1] /\ kept[k] \in Slots
                      /\ kept[k] # z /\ u.table[kept[k]] = t.table[kept[k]]
                      /\ u.pages[u.table[kept[k]]] = t.pages[t.table[kept[k]]]
    OBVIOUS
  <2>1. k + 1 \in 1..n /\ k + 1 # 1 /\ kept[k] = slots[k + 1]
    BY <1>2, <1>9
  <2>2. kept[k] \in Slots /\ kept[k] # z /\ t.table[kept[k]] \in DOMAIN t.pages
    BY <1>2, <1>16, <2>1
  <2>3. u.table[kept[k]] = t.table[kept[k]] /\ t.table[kept[k]] # id
    BY <1>12, <1>13, <2>2
  <2> QED  BY <1>10, <1>13, <2>1, <2>2, <2>3
<1>18. OrderKept(u, kept, 1)
  <2>1. ASSUME NEW j \in 1..Len(kept), NEW k \in 1..Len(kept), j < k
        PROVE  u.pages[u.table[kept[j]]].last_used < u.pages[u.table[kept[k]]].last_used
    <3>1. j + 1 \in 1..n /\ k + 1 \in 1..n /\ j + 1 < k + 1
      BY <1>9, <1>17, <2>1
    <3>2. age(t.table[slots[j + 1]]) < age(t.table[slots[k + 1]])
      BY <1>1, <3>1 DEF OrderKept
    <3> QED  BY <1>17, <3>2
  <2>2. Len(kept) + Len(u.free_list) + 1 = u.next_page_id
    <3>1. Len(kept) = n - 1 /\ Len(u.free_list) = 0 /\ u.next_page_id = n
      BY <1>4, <1>5, <1>9, <1>13
    <3>2. (n - 1) + 0 + 1 = n
      BY <1>2
    <3> QED  BY <3>1, <3>2
  <2>3. ASSUME NEW o \in Slots PROVE u.table[o] # NoPage <=> \E k \in 1..Len(kept) : kept[k] = o
    <3>1. ASSUME u.table[o] # NoPage PROVE \E k \in 1..Len(kept) : kept[k] = o
      <4>1. t.table[o] # NoPage /\ o # z
        BY <1>14, <3>1
      <4>2. PICK k \in 1..n : slots[k] = o
        BY <1>1, <4>1 DEF OrderKept
      <4>3. k # 1
        BY <4>1, <4>2 DEF z
      <4>4. k - 1 \in 1..Len(kept) /\ k - 1 + 1 = k
        BY <1>2, <1>9, <4>3
      <4>5. kept[k - 1] = slots[k]
        BY <1>17, <4>4
      <4> QED  BY <4>2, <4>4, <4>5
    <3>2. ASSUME NEW k \in 1..Len(kept), kept[k] = o PROVE u.table[o] # NoPage
      BY <1>2, <1>17, <3>2
    <3> QED  BY <3>1, <3>2
  <2> QED  BY <1>9, <2>1, <2>2, <2>3 DEF OrderKept
<1>19. TruthKept(u, bytes)
  <2> SUFFICES ASSUME NEW o \in Slots, u.table[o] # NoPage PROVE u.pages[u.table[o]].data = bytes[o]
    BY DEF TruthKept
  <2>1. u.table[o] = t.table[o] /\ t.table[o] # id /\ t.table[o] # NoPage
    BY <1>14
  <2>2. t.table[o] \in DOMAIN t.pages /\ t.pages[t.table[o]].data = bytes[o]
    BY <1>1, <2>1 DEF TableKept, TruthKept
  <2> QED  BY <1>10, <1>13, <2>1, <2>2
<1>20. Used(slots, s) = Append(kept, s)
  <2>1. Without(slots, s) = slots
    BY <1>2, <1>3, WithoutOne
  <2> DEFINE w == Append(slots, s)
             x == Append(kept, s)
  <2>2. /\ w \in Seq(Slots) /\ Len(w) = n + 1 /\ w[n + 1] = s /\ \A k \in 1..n : w[k] = slots[k]
    BY <1>3, AppendProperties
  <2>3. /\ x \in Seq(Slots) /\ Len(x) = (n - 1) + 1 /\ x[(n - 1) + 1] = s
        /\ \A k \in 1..(n - 1) : x[k] = kept[k]
    BY <1>9, AppendProperties
  <2> HIDE DEF w, x
  <2>4. Used(slots, s) = Tail(w)
    <3>1. n + 1 > MaxPhysicalPages
      BY <1>2, <1>5
    <3> QED  BY <2>1, <2>2, <3>1 DEF Used, w
  <2>5. w # << >> /\ (n + 1) - 1 = n /\ (n - 1) + 1 = n
    BY <1>2, <2>2, EmptySeq
  <2>6. Tail(w) \in Seq(Slots) /\ Len(Tail(w)) = n /\ \A k \in 1..n : Tail(w)[k] = w[k + 1]
    BY <2>2, <2>5, HeadTailProperties
  <2>7. \A k \in 1..n : Tail(w)[k] = x[k]
    <3> SUFFICES ASSUME NEW k \in 1..n PROVE w[k + 1] = x[k]
      BY <2>6
    <3>1. CASE k = n
      BY <2>2, <2>3, <2>5, <3>1
    <3>2. CASE k # n
      <4>1. k \in 1..(n - 1) /\ k \in 1..Len(kept)
        BY <1>2, <1>9, <3>2
      <4>2. k + 1 \in 1..n /\ kept[k] = slots[k + 1]
        BY <1>17, <4>1
      <4> QED  BY <2>2, <2>3, <4>1, <4>2
    <3> QED  BY <3>1, <3>2
  <2>8. Tail(w) = x
    BY <2>3, <2>5, <2>6, <2>7, SeqEqual
  <2> QED  BY <2>4, <2>8 DEF x
<1>21. u.table[s] = NoPage /\ id \in DOMAIN u.pages /\ u.pages[id].data = Zeroed
  BY <1>8, <1>10, <1>12, <1>13
<1> QED  BY <1>9, <1>11, <1>15, <1>18, <1>19, <1>20, <1>21 DEF Placing, a

\* Whichever page is found, it is found for the slot.
LEMMA AllocHolds ==
    ASSUME NEW t, NEW slots, NEW bytes, CacheKept(Cache(t, slots), bytes), NEW s \in Slots,
           t.table[s] = NoPage
    PROVE  Placing(AllocPage(t), Used(slots, s), bytes, s)
BY AllocFree, AllocNew, AllocEvict

\* The page found becomes the slot's, and was never used more recently.
LEMMA PlaceKeeps ==
    ASSUME NEW a, NEW uses, NEW bytes \in [Slots -> PageBytes], NEW s \in Slots,
           Placing(a, uses, bytes, s)
    PROVE  LET r == TouchById([a.t EXCEPT !.table[s] = a.id], a.id)
           IN  CacheKept(Cache(r, uses), [bytes EXCEPT ![s] = Zeroed]) /\ r.table[s] # NoPage
<1> DEFINE t == a.t
           id == a.id
           bare == [t.table EXCEPT ![s] = id]
           b == [t EXCEPT !.table[s] = id]
           r == TouchById(b, id)
           w == [bytes EXCEPT ![s] = Zeroed]
           m == Len(t.free_list)
<1>1. /\ TableKept(t, {id}) /\ id \in DOMAIN t.pages /\ t.pages[id].data = Zeroed
      /\ TruthKept(t, bytes) /\ t.table[s] = NoPage /\ t \in PageTables
  BY DEF Placing, TableKept
<1>2. PICK kept \in Seq(Slots) : OrderKept(t, kept, 1) /\ uses = Append(kept, s)
  BY DEF Placing
<1> DEFINE n == Len(kept)
<1>3. id \in Nat /\ id # NoPage
  <2>1. PICK q \in Nat : t.pages \in [0..(q - 1) -> PageRecords]
    BY <1>1 DEF PageTables
  <2>2. id \in 0..(q - 1)
    BY <1>1, <2>1
  <2> HIDE DEF id
  <2>3. id \in Nat
    BY <2>2
  <2> QED  BY <2>3, WindowSizes
<1>4. /\ \A j, k \in 1..n : kept[j] = kept[k] => j = k
      /\ \A k \in 1..n : kept[k] \in Slots /\ t.table[kept[k]] # NoPage
                         /\ t.table[kept[k]] \in DOMAIN t.pages
                         /\ t.pages[t.table[kept[k]]].last_used \in Nat
      /\ n \in Nat
  <2> HIDE DEF t, id
  <2> QED  BY <1>1, <1>2, UsedOnce
<1>5. t.clock \in Nat /\ t.free_list \in Seq(Nat) /\ m \in Nat /\ t.next_page_id \in Nat
  <2>1. t.clock \in Nat /\ t.free_list \in Seq(Nat) /\ t.next_page_id \in Nat
    BY <1>1 DEF PageTables
  <2> QED  BY <2>1, LenProperties
<1>6. /\ uses \in Seq(Slots) /\ Len(uses) = n + 1 /\ uses[n + 1] = s
      /\ \A k \in 1..n : uses[k] = kept[k]
  BY <1>2, AppendProperties
<1>7. b = [t EXCEPT !.table = bare]
  BY <1>1 DEF PageTables
<1>8. bare \in [Slots -> Nat \union {NoPage}] /\ bare[s] = id /\ \A o \in Slots : o # s => bare[o] = t.table[o]
  <2>1. t.table \in [Slots -> Nat \union {NoPage}]
    BY <1>1 DEF PageTables
  <2> QED  BY <1>3, <2>1
<1> HIDE DEF t, id, bare, b
<1>9. /\ b \in PageTables /\ b.table = bare /\ b.free_list = t.free_list
      /\ b.next_page_id = t.next_page_id /\ b.clock = t.clock /\ b.pages = t.pages
  BY <1>1, <1>7, <1>8 DEF PageTables
<1>10. /\ r \in PageTables /\ r.table = bare /\ r.free_list = t.free_list
       /\ r.next_page_id = t.next_page_id /\ r.clock = t.clock + 1
       /\ DOMAIN r.pages = DOMAIN t.pages
       /\ r.pages[id].data = Zeroed /\ r.pages[id].last_used = t.clock + 1
       /\ \A p \in DOMAIN t.pages : p # id => r.pages[p] = t.pages[p]
  BY <1>1, <1>9, Touched
<1> HIDE DEF r
<1>11. \A o \in Slots : t.table[o] # id
  BY <1>1, <1>3 DEF TableKept
<1>12. TableKept(r, {})
  <2>1. DOMAIN r.pages = 0..(r.next_page_id - 1) /\ r.next_page_id <= MaxPhysicalPages
    BY <1>1, <1>10 DEF TableKept
  <2>2. ASSUME NEW x \in DOMAIN r.pages PROVE r.pages[x].last_used <= r.clock
    <3>1. CASE x = id
      BY <1>5, <1>10, <3>1
    <3>2. CASE x # id
      <4>1. r.pages[x] = t.pages[x] /\ t.pages[x].last_used <= t.clock /\ x \in DOMAIN t.pages
        BY <1>1, <1>10, <3>2 DEF TableKept
      <4>2. t.pages[x].last_used \in Nat
        <5>1. PICK q \in Nat : t.pages \in [0..(q - 1) -> PageRecords]
          BY <1>1 DEF PageTables
        <5> QED  BY <4>1, <5>1 DEF PageRecords
      <4> QED  BY <1>5, <1>10, <4>1, <4>2
    <3> QED  BY <3>1, <3>2
  <2>3. \A o \in Slots : r.table[o] # NoPage => r.table[o] \in DOMAIN r.pages \ {}
    BY <1>1, <1>8, <1>10 DEF TableKept
  <2>4. \A o, q \in Slots : r.table[o] # NoPage /\ r.table[o] = r.table[q] => o = q
    BY <1>1, <1>8, <1>10, <1>11 DEF TableKept
  <2>5. ASSUME NEW k \in 1..m
        PROVE  /\ t.free_list[k] \in DOMAIN r.pages \ {}
               /\ \A o \in Slots : r.table[o] # t.free_list[k]
               /\ \A j \in 1..m : t.free_list[j] = t.free_list[k] => j = k
    <3>1. /\ t.free_list[k] \in DOMAIN t.pages /\ t.free_list[k] # id
          /\ \A o \in Slots : t.table[o] # t.free_list[k]
          /\ \A j \in 1..m : t.free_list[j] = t.free_list[k] => j = k
      BY <1>1 DEF TableKept
    <3>2. ASSUME NEW o \in Slots PROVE r.table[o] # t.free_list[k]
      BY <1>8, <1>10, <3>1
    <3> QED  BY <1>10, <3>1, <3>2
  <2>6. ASSUME NEW x \in DOMAIN r.pages
        PROVE  (\E k \in 1..m : t.free_list[k] = x) \/ (\E o \in Slots : r.table[o] = x)
    <3>1. CASE x = id
      BY <1>8, <1>10, <3>1
    <3>2. CASE x # id
      <4>1. (\E k \in 1..m : t.free_list[k] = x) \/ (\E o \in Slots : t.table[o] = x)
        BY <1>1, <1>10, <3>2 DEF TableKept
      <4>2. x # NoPage
        <5>1. DOMAIN r.pages = 0..(t.next_page_id - 1)
          BY <1>10, <2>1
        <5>2. x \in Nat
          BY <1>5, <5>1
        <5> QED  BY <5>2, WindowSizes
      <4> QED  BY <1>1, <1>8, <1>10, <4>1, <4>2
    <3> QED  BY <3>1, <3>2
  <2> QED  BY <1>10, <2>1, <2>2, <2>3, <2>4, <2>5, <2>6 DEF TableKept
<1>13. \A k \in 1..n : /\ uses[k] # s /\ uses[k] \in Slots
                       /\ r.table[uses[k]] = t.table[uses[k]]
                       /\ r.pages[r.table[uses[k]]] = t.pages[t.table[kept[k]]]
                       /\ r.pages[r.table[uses[k]]].last_used < t.clock + 1
  <2> SUFFICES ASSUME NEW k \in 1..n
               PROVE  /\ uses[k] # s /\ uses[k] \in Slots
                      /\ r.table[uses[k]] = t.table[uses[k]]
                      /\ r.pages[r.table[uses[k]]] = t.pages[t.table[kept[k]]]
                      /\ r.pages[r.table[uses[k]]].last_used < t.clock + 1
    OBVIOUS
  <2>1. uses[k] = kept[k] /\ uses[k] # s /\ uses[k] \in Slots
    BY <1>1, <1>4, <1>6
  <2>2. r.table[uses[k]] = t.table[uses[k]] /\ t.table[uses[k]] # id /\ t.table[uses[k]] \in DOMAIN t.pages
    BY <1>4, <1>8, <1>10, <1>11, <2>1
  <2>3. r.pages[r.table[uses[k]]] = t.pages[t.table[kept[k]]]
    BY <1>10, <2>1, <2>2
  <2>4. t.pages[t.table[kept[k]]].last_used <= t.clock /\ t.pages[t.table[kept[k]]].last_used \in Nat
    BY <1>1, <1>4 DEF TableKept
  <2>5. \A x \in Nat : x <= t.clock => x < t.clock + 1
    BY <1>5
  <2> QED  BY <2>1, <2>2, <2>3, <2>4, <2>5
<1>14. OrderKept(r, uses, 0)
  <2>1. ASSUME NEW j \in 1..Len(uses), NEW k \in 1..Len(uses), j < k
        PROVE  r.pages[r.table[uses[j]]].last_used < r.pages[r.table[uses[k]]].last_used
    <3>1. j \in 1..n
      BY <1>4, <1>6, <2>1
    <3>2. CASE k = n + 1
      BY <1>6, <1>8, <1>10, <1>13, <3>1, <3>2
    <3>3. CASE k # n + 1
      <4>1. k \in 1..n
        BY <1>4, <1>6, <3>3
      <4>2. t.pages[t.table[kept[j]]].last_used < t.pages[t.table[kept[k]]].last_used
        BY <1>2, <2>1, <3>1, <4>1 DEF OrderKept
      <4> QED  BY <1>13, <3>1, <4>1, <4>2
    <3> QED  BY <3>2, <3>3
  <2>2. ASSUME NEW o \in Slots PROVE r.table[o] # NoPage <=> \E k \in 1..Len(uses) : uses[k] = o
    <3>1. CASE o = s
      <4>1. n + 1 \in 1..Len(uses)
        BY <1>4, <1>6
      <4> QED  BY <1>3, <1>6, <1>8, <1>10, <3>1, <4>1
    <3>2. CASE o # s
      <4>1. r.table[o] # NoPage <=> \E k \in 1..n : kept[k] = o
        BY <1>2, <1>8, <1>10, <3>2 DEF OrderKept
      <4>2. \A k \in 1..Len(uses) : uses[k] = o => k \in 1..n
        BY <1>4, <1>6, <3>2
      <4>3. \A k \in 1..n : k \in 1..Len(uses)
        BY <1>4, <1>6
      <4> QED  BY <1>6, <4>1, <4>2, <4>3
    <3> QED  BY <3>1, <3>2
  <2>3. Len(uses) + Len(r.free_list) + 0 = r.next_page_id
    <3>1. n + m + 1 = t.next_page_id
      BY <1>2 DEF OrderKept
    <3>2. Len(uses) = n + 1 /\ Len(r.free_list) = m /\ r.next_page_id = t.next_page_id
      BY <1>6, <1>10
    <3>3. (n + 1) + m + 0 = n + m + 1
      <4>1. \A x, y \in Nat : (x + 1) + y + 0 = x + y + 1
        OBVIOUS
      <4> HIDE DEF n, m
      <4> QED  BY <1>4, <1>5, <4>1
    <3> QED  BY <3>1, <3>2, <3>3
  <2> QED  BY <1>6, <2>1, <2>2, <2>3 DEF OrderKept
<1>15. TruthKept(r, w)
  <2> SUFFICES ASSUME NEW o \in Slots, r.table[o] # NoPage PROVE r.pages[r.table[o]].data = w[o]
    BY DEF TruthKept
  <2>1. CASE o = s
    BY <1>8, <1>10, <2>1
  <2>2. CASE o # s
    <3>1. r.table[o] = t.table[o] /\ w[o] = bytes[o] /\ t.table[o] # id /\ t.table[o] # NoPage
      BY <1>8, <1>10, <1>11, <2>2
    <3>2. t.table[o] \in DOMAIN t.pages /\ t.pages[t.table[o]].data = bytes[o]
      BY <1>1, <3>1 DEF TruthKept, TableKept
    <3> QED  BY <1>10, <3>1, <3>2
  <2> QED  BY <2>1, <2>2
<1>16. r.table[s] # NoPage
  BY <1>3, <1>8, <1>10
<1> HIDE DEF w
<1>17. CacheKept(Cache(r, uses), w)
  BY <1>12, <1>14, <1>15 DEF CacheKept, Cache
<1> QED  BY <1>16, <1>17 DEF r, b, t, id, w

\* Other bytes on a slot's page.
LEMMA FillKeeps ==
    ASSUME NEW t, NEW slots, NEW bytes \in [Slots -> PageBytes], CacheKept(Cache(t, slots), bytes),
           NEW s \in Slots, t.table[s] # NoPage, NEW new \in PageBytes
    PROVE  LET r == [t EXCEPT !.pages = [@ EXCEPT ![t.table[s]].data = new]]
           IN  CacheKept(Cache(r, slots), [bytes EXCEPT ![s] = new]) /\ r.table = t.table
<1> DEFINE id == t.table[s]
           r == [t EXCEPT !.pages = [@ EXCEPT ![id].data = new]]
           w == [bytes EXCEPT ![s] = new]
<1>1. TableKept(t, {}) /\ OrderKept(t, slots, 0) /\ TruthKept(t, bytes)
  BY DEF CacheKept, Cache
<1>2. id \in DOMAIN t.pages /\ t \in PageTables
  BY <1>1 DEF TableKept
<1>3. /\ r \in PageTables /\ r.table = t.table /\ r.free_list = t.free_list
      /\ r.next_page_id = t.next_page_id /\ r.clock = t.clock
      /\ DOMAIN r.pages = DOMAIN t.pages
      /\ r.pages[id].data = new /\ r.pages[id].last_used = t.pages[id].last_used
      /\ \A p \in DOMAIN t.pages : p # id => r.pages[p] = t.pages[p]
  <2> HIDE DEF id
  <2> QED  BY <1>2, Refilled
<1> HIDE DEF r
<1>4. \A p \in DOMAIN t.pages : r.pages[p].last_used = t.pages[p].last_used
  BY <1>3
<1>5. TableKept(r, {})
  BY <1>1, <1>3, <1>4 DEF TableKept
<1>6. OrderKept(r, slots, 0)
  <2>1. \A k \in 1..Len(slots) : t.table[slots[k]] \in DOMAIN t.pages
    BY <1>1, UsedOnce
  <2>2. \A k \in 1..Len(slots) :
           r.pages[r.table[slots[k]]].last_used = t.pages[t.table[slots[k]]].last_used
    BY <1>3, <1>4, <2>1
  <2>3. \A j, k \in 1..Len(slots) : j < k =>
           r.pages[r.table[slots[j]]].last_used < r.pages[r.table[slots[k]]].last_used
    BY <1>1, <2>2 DEF OrderKept
  <2> QED  BY <1>1, <1>3, <2>3 DEF OrderKept
<1>7. TruthKept(r, w)
  <2> SUFFICES ASSUME NEW o \in Slots, r.table[o] # NoPage PROVE r.pages[r.table[o]].data = w[o]
    BY DEF TruthKept
  <2>1. CASE o = s
    BY <1>3, <2>1
  <2>2. CASE o # s
    <3>1. t.table[o] # id /\ t.table[o] \in DOMAIN t.pages /\ t.pages[t.table[o]].data = bytes[o]
      BY <1>1, <1>3, <2>2 DEF TruthKept, TableKept
    <3> QED  BY <1>3, <2>2, <3>1
  <2> QED  BY <2>1, <2>2
<1> HIDE DEF w
<1>8. CacheKept(Cache(r, slots), w)
  BY <1>5, <1>6, <1>7 DEF CacheKept, Cache
<1> QED  BY <1>3, <1>8 DEF r, w

\* No more slots have a page than there are pages.
LEMMA UsesFit ==
    ASSUME NEW t, NEW slots, NEW bytes, CacheKept(Cache(t, slots), bytes)
    PROVE  slots \in Seq(Slots) /\ t \in PageTables /\ Len(slots) <= MaxPhysicalPages
<1> DEFINE n == Len(slots)
           m == Len(t.free_list)
           p == t.next_page_id
<1>1. TableKept(t, {}) /\ OrderKept(t, slots, 0)
  BY DEF CacheKept, Cache
<1>2. slots \in Seq(Slots) /\ t \in PageTables
  BY <1>1 DEF OrderKept, TableKept
<1>3. n \in Nat /\ m \in Nat /\ p \in Nat
  <2>1. t.free_list \in Seq(Nat) /\ p \in Nat
    BY <1>2 DEF PageTables
  <2> QED  BY <1>2, <2>1, LenProperties
<1>4. n + m + 0 = p /\ p <= MaxPhysicalPages
  BY <1>1 DEF OrderKept, TableKept
<1> HIDE DEF n, m, p
<1>5. n <= MaxPhysicalPages
  BY <1>3, <1>4, WindowSizes
<1> QED  BY <1>2, <1>5 DEF n

\* A slot that has a page and is used again becomes the last one used.
LEMMA UsedMoves ==
    ASSUME NEW slots \in Seq(Slots), NEW s \in Slots, NEW i \in 1..Len(slots), slots[i] = s,
           \A j, k \in 1..Len(slots) : slots[j] = slots[k] => j = k,
           Len(slots) <= MaxPhysicalPages
    PROVE  /\ Used(slots, s) \in Seq(Slots) /\ Len(Used(slots, s)) = Len(slots)
           /\ Used(slots, s)[Len(slots)] = s
           /\ \A k \in 1..(Len(slots) - 1) : Used(slots, s)[k] = slots[IF k < i THEN k ELSE k + 1]
<1> DEFINE n == Len(slots)
           v == Without(slots, s)
           u == Append(v, s)
<1>1. n \in Nat
  BY LenProperties
<1>2. v \in Seq(Slots) /\ Len(v) = n - 1 /\ \A k \in 1..Len(v) : v[k] = slots[IF k < i THEN k ELSE k + 1]
  BY WithoutOne
<1>3. /\ u \in Seq(Slots) /\ Len(u) = Len(v) + 1 /\ u[Len(v) + 1] = s
      /\ \A k \in 1..Len(v) : u[k] = v[k]
  BY <1>2, AppendProperties
<1> HIDE DEF u
<1>4. (n - 1) + 1 = n /\ ~(n > MaxPhysicalPages)
  BY <1>1, WindowSizes
<1>5. Used(slots, s) = u
  BY <1>2, <1>3, <1>4 DEF Used, u
<1> HIDE DEF v
<1> QED  BY <1>2, <1>3, <1>4, <1>5

\* A slot used last, used again, changes nothing.
LEMMA UsedAgain ==
    ASSUME NEW slots \in Seq(Slots), NEW s \in Slots, NEW n, n = Len(slots), n \in 1..Len(slots),
           slots[n] = s, \A j, k \in 1..Len(slots) : slots[j] = slots[k] => j = k,
           Len(slots) <= MaxPhysicalPages
    PROVE  Used(slots, s) = slots
<1> DEFINE u == Used(slots, s)
<1>1. /\ u \in Seq(Slots) /\ Len(u) = Len(slots) /\ u[Len(slots)] = s
      /\ \A k \in 1..(Len(slots) - 1) : u[k] = slots[IF k < n THEN k ELSE k + 1]
  BY UsedMoves
<1>2. Len(slots) \in Nat
  BY LenProperties
<1> HIDE DEF u
<1>3. ASSUME NEW k \in 1..Len(u) PROVE u[k] = slots[k]
  <2>1. CASE k = n
    BY <1>1, <2>1
  <2>2. CASE k # n
    <3>1. k \in 1..(Len(slots) - 1) /\ k < n
      BY <1>1, <1>2, <2>2
    <3> QED  BY <1>1, <3>1
  <2> QED  BY <2>1, <2>2
<1>4. u = slots
  BY <1>1, <1>3, SeqEqual
<1> QED  BY <1>4 DEF u

\* Reading a slot that has a page: nothing changes but the order of use.
LEMMA ReadKeeps ==
    ASSUME NEW t, NEW slots, NEW bytes, CacheKept(Cache(t, slots), bytes), NEW s \in Slots,
           t.table[s] # NoPage
    PROVE  CacheKept(Cache(ReadSlot(t, s), Used(slots, s)), bytes) /\ ReadSlot(t, s).table = t.table
<1> DEFINE id == t.table[s]
           n == Len(slots)
           r == TouchById(t, id)
           u == Used(slots, s)
<1>1. TableKept(t, {}) /\ OrderKept(t, slots, 0) /\ TruthKept(t, bytes)
  BY DEF CacheKept, Cache
<1>2. /\ \A j, k \in 1..n : slots[j] = slots[k] => j = k
      /\ \A k \in 1..n : slots[k] \in Slots /\ t.table[slots[k]] # NoPage
                         /\ t.table[slots[k]] \in DOMAIN t.pages
                         /\ t.pages[t.table[slots[k]]].last_used \in Nat
      /\ n \in Nat
  BY <1>1, UsedOnce
<1>3. slots \in Seq(Slots) /\ t \in PageTables /\ n <= MaxPhysicalPages
  BY UsesFit
<1>4. id \in DOMAIN t.pages /\ t.clock \in Nat
  BY <1>1, <1>3 DEF TableKept, PageTables
<1>5. /\ r \in PageTables /\ r.table = t.table /\ r.free_list = t.free_list
      /\ r.next_page_id = t.next_page_id /\ r.clock = t.clock + 1
      /\ DOMAIN r.pages = DOMAIN t.pages
      /\ r.pages[id].data = t.pages[id].data /\ r.pages[id].last_used = t.clock + 1
      /\ \A p \in DOMAIN t.pages : p # id => r.pages[p] = t.pages[p]
  <2> HIDE DEF id
  <2> QED  BY <1>3, <1>4, Touched
<1>6. PICK i \in 1..n : slots[i] = s
  BY <1>1 DEF OrderKept
<1>7. /\ u \in Seq(Slots) /\ Len(u) = n /\ u[n] = s
      /\ \A k \in 1..(n - 1) : u[k] = slots[IF k < i THEN k ELSE k + 1]
  BY <1>2, <1>3, <1>6, UsedMoves
<1> HIDE DEF r, u
<1>8. \A x \in DOMAIN t.pages : r.pages[x].data = t.pages[x].data
  BY <1>5
<1>9. \A x \in DOMAIN t.pages : t.pages[x].last_used \in Nat /\ t.pages[x].last_used <= t.clock
  <2>1. PICK q \in Nat : t.pages \in [0..(q - 1) -> PageRecords]
    BY <1>3 DEF PageTables
  <2> QED  BY <1>1, <2>1 DEF TableKept, PageRecords
<1>10. TableKept(r, {})
  <2>1. ASSUME NEW x \in DOMAIN r.pages PROVE r.pages[x].last_used <= r.clock
    <3>1. CASE x = id
      BY <1>4, <1>5, <3>1
    <3>2. CASE x # id
      <4>1. r.pages[x] = t.pages[x] /\ x \in DOMAIN t.pages
        BY <1>5, <3>2
      <4>2. \A y \in Nat : y <= t.clock => y <= t.clock + 1
        BY <1>4
      <4> QED  BY <1>5, <1>9, <4>1, <4>2
    <3> QED  BY <3>1, <3>2
  <2> QED  BY <1>1, <1>5, <2>1 DEF TableKept
<1>11. \A k \in 1..(n - 1) : /\ (IF k < i THEN k ELSE k + 1) \in 1..n
                             /\ u[k] = slots[IF k < i THEN k ELSE k + 1] /\ u[k] # s /\ u[k] \in Slots
                             /\ t.table[u[k]] \in DOMAIN t.pages /\ t.table[u[k]] # id
  <2> SUFFICES ASSUME NEW k \in 1..(n - 1)
               PROVE  /\ (IF k < i THEN k ELSE k + 1) \in 1..n
                      /\ u[k] = slots[IF k < i THEN k ELSE k + 1] /\ u[k] # s /\ u[k] \in Slots
                      /\ t.table[u[k]] \in DOMAIN t.pages /\ t.table[u[k]] # id
    OBVIOUS
  <2> DEFINE j == IF k < i THEN k ELSE k + 1
  <2>1. j \in 1..n /\ j # i
    BY <1>2
  <2>2. u[k] = slots[j]
    BY <1>7
  <2> HIDE DEF j
  <2>3. u[k] # s /\ u[k] \in Slots /\ t.table[u[k]] \in DOMAIN t.pages /\ t.table[u[k]] # NoPage
    BY <1>2, <1>6, <2>1, <2>2
  <2>4. t.table[u[k]] # id
    BY <1>1, <2>3 DEF TableKept
  <2> QED  BY <2>1, <2>2, <2>3, <2>4 DEF j
<1>12. OrderKept(r, u, 0)
  <2>1. ASSUME NEW j \in 1..n, NEW k \in 1..n, j < k
        PROVE  r.pages[r.table[u[j]]].last_used < r.pages[r.table[u[k]]].last_used
    <3>1. j \in 1..(n - 1)
      BY <1>2, <2>1
    <3>2. r.pages[r.table[u[j]]] = t.pages[t.table[u[j]]]
      BY <1>5, <1>11, <3>1
    <3>3. CASE k = n
      <4>1. r.pages[r.table[u[k]]].last_used = t.clock + 1
        BY <1>5, <1>7, <3>3
      <4>2. \A y \in Nat : y <= t.clock => y < t.clock + 1
        BY <1>4
      <4> QED  BY <1>9, <1>11, <3>1, <3>2, <4>1, <4>2
    <3>4. CASE k # n
      <4>1. k \in 1..(n - 1)
        BY <1>2, <3>4
      <4> DEFINE x == IF j < i THEN j ELSE j + 1
                 y == IF k < i THEN k ELSE k + 1
      <4>2. x \in 1..n /\ y \in 1..n /\ u[j] = slots[x] /\ u[k] = slots[y]
        BY <1>11, <3>1, <4>1
      <4>3. x < y
        BY <2>1
      <4> HIDE DEF x, y
      <4>4. t.pages[t.table[u[j]]].last_used < t.pages[t.table[u[k]]].last_used
        BY <1>1, <4>2, <4>3 DEF OrderKept
      <4> QED  BY <1>5, <1>11, <3>2, <4>1, <4>4
    <3> QED  BY <3>3, <3>4
  <2>2. ASSUME NEW o \in Slots PROVE r.table[o] # NoPage <=> \E k \in 1..n : u[k] = o
    <3>1. ASSUME r.table[o] # NoPage PROVE \E k \in 1..n : u[k] = o
      <4>1. PICK k \in 1..n : slots[k] = o
        BY <1>1, <1>5, <3>1 DEF OrderKept
      <4>2. CASE k = i
        <5>1. n \in 1..n
          BY <1>2
        <5> QED  BY <1>6, <1>7, <4>1, <4>2, <5>1
      <4>3. CASE k < i
        <5>1. k \in 1..(n - 1)
          BY <1>2, <4>3
        <5>2. u[k] = slots[k]
          BY <1>7, <4>3, <5>1
        <5> QED  BY <4>1, <5>2
      <4>4. CASE k > i
        <5>1. k - 1 \in 1..(n - 1) /\ ~(k - 1 < i) /\ k - 1 + 1 = k /\ k - 1 \in 1..n
          BY <1>2, <4>4
        <5>2. u[k - 1] = slots[k]
          BY <1>7, <5>1
        <5> QED  BY <4>1, <5>1, <5>2
      <4> QED  BY <1>2, <4>2, <4>3, <4>4
    <3>2. ASSUME NEW k \in 1..n, u[k] = o PROVE r.table[o] # NoPage
      <4>1. CASE k = n
        BY <1>5, <1>7, <3>2, <4>1
      <4>2. CASE k # n
        <5>1. k \in 1..(n - 1)
          BY <1>2, <4>2
        <5> QED  BY <1>2, <1>5, <1>11, <3>2, <5>1
      <4> QED  BY <4>1, <4>2
    <3> QED  BY <3>1, <3>2
  <2>3. n + Len(r.free_list) + 0 = r.next_page_id
    BY <1>1, <1>5 DEF OrderKept
  <2> QED  BY <1>7, <2>1, <2>2, <2>3 DEF OrderKept
<1>13. TruthKept(r, bytes)
  BY <1>1, <1>5, <1>8 DEF TruthKept, TableKept
<1>14. ReadSlot(t, s) = r
  BY DEF ReadSlot, r
<1>15. CacheKept(Cache(r, u), bytes)
  BY <1>10, <1>12, <1>13 DEF CacheKept, Cache
<1> QED  BY <1>5, <1>14, <1>15 DEF u

LastUsed(slots, s) == \E n \in 1..Len(slots) : n = Len(slots) /\ slots[n] = s

\* A slot that is mapped holds an empty page, and is the last one used.
LEMMA MapKeeps ==
    ASSUME NEW t, NEW slots, NEW bytes \in [Slots -> PageBytes], CacheKept(Cache(t, slots), bytes),
           NEW s \in Slots
    PROVE  /\ CacheKept(Cache(MapSlot(t, s), Used(slots, s)), [bytes EXCEPT ![s] = Zeroed])
           /\ MapSlot(t, s).table[s] # NoPage
           /\ LastUsed(Used(slots, s), s)
<1> DEFINE b == UnmapSlot(t, s)
           v == Without(slots, s)
           a == AllocPage(b)
           u == Used(v, s)
           r == TouchById([a.t EXCEPT !.table[s] = a.id], a.id)
<1>1. CacheKept(Cache(b, v), bytes) /\ b.table[s] = NoPage /\ \A k \in 1..Len(v) : v[k] # s
  <2>1. UnmapNext(Cache(t, slots), s) = Cache(b, v)
    BY DEF UnmapNext, Cache
  <2>2. Cache(b, v).t = b /\ Cache(b, v).used = v
    BY DEF Cache
  <2>3. LET c == UnmapNext(Cache(t, slots), s)
        IN  CacheKept(c, bytes) /\ c.t.table[s] = NoPage /\ \A k \in 1..Len(c.used) : c.used[k] # s
    BY UnmapKeeps
  <2> HIDE DEF b, v
  <2> QED  BY <2>1, <2>2, <2>3
<1>2. MapSlot(t, s) = r
  BY DEF MapSlot
<1>3. Used(slots, s) = u
  <2> HIDE DEF b, v
  <2>1. TableKept(b, {}) /\ OrderKept(b, v, 0) /\ v \in Seq(Slots)
    BY <1>1 DEF CacheKept, Cache, OrderKept
  <2>2. \A j, k \in 1..Len(v) : v[j] = v[k] => j = k
    BY <2>1, UsedOnce
  <2>3. Without(v, s) = v
    BY <1>1, <2>1, <2>2, WithoutOne
  <2> QED  BY <2>3 DEF Used, v
<1> HIDE DEF b, v
<1>4. Placing(a, u, bytes, s)
  BY <1>1, AllocHolds
<1> HIDE DEF a
<1>5. PICK kept \in Seq(Slots) : u = Append(kept, s)
  BY <1>4 DEF Placing
<1>6. CacheKept(Cache(r, u), [bytes EXCEPT ![s] = Zeroed]) /\ r.table[s] # NoPage
  <2> HIDE DEF u
  <2> QED  BY <1>4, PlaceKeeps
<1> HIDE DEF u, r
<1>7. LastUsed(u, s)
  <2> DEFINE w == Append(kept, s)
             n == Len(kept) + 1
  <2>1. Len(w) = n /\ w[n] = s /\ Len(kept) \in Nat
    BY AppendProperties, LenProperties
  <2>2. n \in 1..n
    BY <2>1
  <2> HIDE DEF w, n
  <2> QED  BY <1>5, <2>1, <2>2 DEF LastUsed, w
<1> QED  BY <1>2, <1>3, <1>6, <1>7

\* A slot that is written holds what was written, and is the last one used.
LEMMA WriteKeeps ==
    ASSUME NEW t, NEW slots, NEW bytes \in [Slots -> PageBytes], CacheKept(Cache(t, slots), bytes),
           NEW s \in Slots, NEW new \in PageBytes
    PROVE  CacheKept(Cache(WriteSlot(t, s, new), Used(slots, s)), [bytes EXCEPT ![s] = new])
<1> DEFINE Overlaid(x) == [x EXCEPT !.pages = [@ EXCEPT ![x.table[s]].data = new]]
<1>1. CASE t.table[s] # NoPage
  <2> DEFINE f == Overlaid(t)
             w == [bytes EXCEPT ![s] = new]
  <2>1. CacheKept(Cache(f, slots), w) /\ f.table = t.table
    BY <1>1, FillKeeps
  <2>2. WriteSlot(t, s, new) = TouchById(f, t.table[s])
    BY <1>1 DEF WriteSlot
  <2> HIDE DEF f, w
  <2>3. WriteSlot(t, s, new) = ReadSlot(f, s)
    BY <2>1, <2>2 DEF ReadSlot
  <2>4. CacheKept(Cache(ReadSlot(f, s), Used(slots, s)), w)
    BY <1>1, <2>1, ReadKeeps
  <2> QED  BY <2>3, <2>4 DEF w
<1>2. CASE t.table[s] = NoPage
  <2> DEFINE m == MapSlot(t, s)
             u == Used(slots, s)
             z == [bytes EXCEPT ![s] = Zeroed]
             f == Overlaid(m)
             w == [z EXCEPT ![s] = new]
  <2>0. m.table[s] # NoPage
    BY MapKeeps
  <2>1. CacheKept(Cache(m, u), z)
    BY MapKeeps
  <2>10. LastUsed(u, s)
    BY MapKeeps
  <2>2. z \in [Slots -> PageBytes]
    BY DEF PageBytes
  <2>3. w = [bytes EXCEPT ![s] = new]
    OBVIOUS
  <2>4. WriteSlot(t, s, new) = TouchById(f, m.table[s])
    BY <1>2 DEF WriteSlot
  <2> HIDE DEF m, u, z
  <2>5. CacheKept(Cache(f, u), w) /\ f.table = m.table
    <3>1. \A x \in [Slots -> PageBytes] :
             CacheKept(Cache(m, u), x) => CacheKept(Cache(f, u), [x EXCEPT ![s] = new]) /\ f.table = m.table
      BY <2>0, FillKeeps
    <3> HIDE DEF f
    <3> QED  BY <2>1, <2>2, <3>1
  <2> HIDE DEF f, w
  <2>6. WriteSlot(t, s, new) = ReadSlot(f, s)
    BY <2>4, <2>5 DEF ReadSlot
  <2>7. CacheKept(Cache(ReadSlot(f, s), Used(u, s)), w)
    BY <2>0, <2>5, ReadKeeps
  <2>8. Used(u, s) = u
    <3>1. PICK n \in 1..Len(u) : n = Len(u) /\ u[n] = s
      BY <2>10 DEF LastUsed
    <3>2. u \in Seq(Slots) /\ Len(u) <= MaxPhysicalPages
      BY <2>1, UsesFit
    <3>3. TableKept(m, {}) /\ OrderKept(m, u, 0)
      BY <2>1 DEF CacheKept, Cache
    <3>4. \A j, k \in 1..Len(u) : u[j] = u[k] => j = k
      BY <3>3, UsedOnce
    <3> QED  BY <3>1, <3>2, <3>4, UsedAgain
  <2>9. CacheKept(Cache(WriteSlot(t, s, new), u), w)
    BY <2>6, <2>7, <2>8
  <2> QED  BY <2>3, <2>9 DEF u
<1> QED  BY <1>1, <1>2

Caches == [t : PageTables, used : Seq(Slots)]

\* The loops of gather and clear.
Gathered(c, start, stop) == FoldLeft(LAMBDA d, s : ReadNext(d, s), c, SlotsFrom(start, stop))
Cleared(c, start, stop) == FoldLeft(LAMBDA d, s : UnmapNext(d, s), c, SlotsFrom(start, stop))

\* A kept cache, as a record.
LEMMA CacheTyped ==
    ASSUME NEW t, NEW slots, NEW bytes, CacheKept(Cache(t, slots), bytes)
    PROVE  Cache(t, slots) \in Caches
BY UsesFit DEF Caches, Cache

\* Slots that have a page, read one after the other.
LEMMA GatherKeeps ==
    ASSUME NEW t, NEW slots, NEW bytes, CacheKept(Cache(t, slots), bytes),
           NEW start \in Nat, NEW stop \in Nat, start <= stop, stop <= MaxTokens,
           \A s \in start..(stop - 1) : t.table[s] # NoPage
    PROVE  CacheKept(Gathered(Cache(t, slots), start, stop), bytes)
<1> DEFINE n == stop - start
           ss == SlotsFrom(start, stop)
           base == Cache(t, slots)
           X == {c \in Caches : CacheKept(c, bytes) /\ c.t.table = t.table}
           step == [z \in X \X (1..n) |-> ReadNext(z[1], ss[z[2]])]
           Rec(f) == [s \in SUBSET DOMAIN ss |->
                         IF s = {} THEN base ELSE ReadNext(f[s \ {Max(s)}], ss[Max(s)])]
           iter == CHOOSE f : f = Rec(f)
           g == [i \in 0..n |-> iter[1..i]]
<1>1. n \in Nat /\ DOMAIN ss = 1..n /\ \A i \in 1..n : ss[i] \in Slots /\ t.table[ss[i]] # NoPage
  <2>1. \A i \in 1..n : start + i - 1 \in start..(stop - 1) /\ start + i - 1 \in 0..(MaxTokens - 1)
    BY WindowSizes
  <2> QED  BY <2>1 DEF SlotsFrom, Slots
<1>2. Gathered(base, start, stop) = iter[DOMAIN ss]
  BY DEF Gathered, FoldLeft, MapThenFoldSet
<1>3. base \in X
  BY CacheTyped DEF Cache
<1> HIDE DEF n, ss, base
<1>4. \A c \in X, i \in 1..n : ReadNext(c, ss[i]) \in X
  <2> SUFFICES ASSUME NEW c \in X, NEW i \in 1..n PROVE ReadNext(c, ss[i]) \in X
    OBVIOUS
  <2> DEFINE d == c.t
             u == c.used
             s == ss[i]
             r == ReadSlot(d, s)
             v == Used(u, s)
  <2>1. c = Cache(d, u) /\ CacheKept(c, bytes) /\ d.table = t.table
    BY DEF Caches, Cache
  <2>2. s \in Slots /\ d.table[s] # NoPage
    BY <1>1, <2>1
  <2>3. ReadNext(c, s) = Cache(r, v)
    BY DEF ReadNext
  <2> HIDE DEF d, u, s
  <2>4. CacheKept(Cache(r, v), bytes) /\ r.table = d.table
    BY <2>1, <2>2, ReadKeeps
  <2> HIDE DEF r, v
  <2>5. Cache(r, v) \in Caches /\ Cache(r, v).t = r
    BY <2>4, CacheTyped DEF Cache
  <2> QED  BY <2>1, <2>3, <2>4, <2>5 DEF s
<1> HIDE DEF X
<1>5. step \in [X \X (1..n) -> X] /\ \A c \in X, i \in 1..n : step[<<c, i>>] = ReadNext(c, ss[i])
  BY <1>4
<1>6. \E f : f = Rec(f)
  <2> HIDE DEF step
  <2>1. PICK f : Folding(f, step, base, n)
    BY <1>1, FoldingExists
  <2>2. ASSUME NEW s \in SUBSET (1..n), s # {}
        PROVE  f[s] = ReadNext(f[s \ {Max(s)}], ss[Max(s)])
    <3> DEFINE r == s \ {Max(s)}
    <3>1. n # 0
      <4>1. 1..0 = {}
        OBVIOUS
      <4> QED  BY <2>2, <4>1
    <3>2. r \in SUBSET (1..n) /\ Max(s) \in 1..n
      BY <1>1, <2>2, <3>1, WithoutTheLast
    <3> HIDE DEF r
    <3>3. f[r] \in X
      BY <1>1, <1>3, <1>5, <2>1, <3>2, FoldingTyped
    <3>4. f[s] = step[<<f[r], Max(s)>>]
      BY <2>1, <2>2 DEF Folding, r
    <3> QED  BY <1>5, <3>2, <3>3, <3>4 DEF r
  <2>3. f = Rec(f)
    <3>1. f = [s \in SUBSET (1..n) |-> IF s = {} THEN base ELSE step[<<f[s \ {Max(s)}], Max(s)>>]]
      BY <2>1 DEF Folding
    <3>2. f = [s \in SUBSET (1..n) |-> f[s]]
      BY <3>1
    <3>3. {} \in SUBSET (1..n) /\ f[{}] = base
      BY <3>1
    <3> QED  BY <1>1, <2>2, <3>2, <3>3
  <2> QED  BY <2>3
<1>7. iter = [s \in SUBSET (1..n) |-> IF s = {} THEN base ELSE ReadNext(iter[s \ {Max(s)}], ss[Max(s)])]
  BY <1>1, <1>6
<1> HIDE DEF iter
<1>8. g[0] \in X
  <2>1. 1..0 = {} /\ {} \in SUBSET (1..n) /\ 0 \in 0..n
    BY <1>1
  <2> QED  BY <1>3, <1>7, <2>1
<1>9. ASSUME NEW i \in 1..n, g[i - 1] \in X PROVE g[i] \in X
  <2>1. 1..i \in SUBSET (1..n) /\ 1..i # {} /\ i \in Nat /\ i # 0 /\ i \in 0..n /\ i - 1 \in 0..n
    <3>1. i \in Nat /\ i # 0 /\ i \in 1..i /\ i <= n /\ i - 1 \in Nat /\ i - 1 <= n
      BY <1>1
    <3>2. n \in Nat
      BY <1>1
    <3>3. \A k \in 1..i : k \in 1..n
      BY <3>1, <3>2
    <3>4. i \in 0..n /\ i - 1 \in 0..n
      BY <3>1, <3>2
    <3> QED  BY <3>1, <3>3, <3>4
  <2>2. Max(1..i) = i /\ (1..i) \ {i} = 1..(i - 1)
    BY <2>1, LastOfPlaces
  <2>3. g[i] = ReadNext(g[i - 1], ss[i])
    BY <1>7, <2>1, <2>2
  <2> HIDE DEF g
  <2> QED  BY <1>4, <1>9, <2>3
<1>10. n \in 0..n /\ g[n] = iter[1..n]
  BY <1>1
<1>11. g[n] \in X
  <2> HIDE DEF g
  <2> QED  BY <1>1, <1>8, <1>9, <1>10, StepByStep
<1> QED  BY <1>1, <1>2, <1>10, <1>11 DEF X, base

\* Slots, given up one after the other.
LEMMA ClearKeeps ==
    ASSUME NEW t, NEW slots, NEW bytes, CacheKept(Cache(t, slots), bytes),
           NEW start \in Nat, NEW stop \in Nat, start <= stop, stop <= MaxTokens
    PROVE  CacheKept(Cleared(Cache(t, slots), start, stop), bytes)
<1> DEFINE n == stop - start
           ss == SlotsFrom(start, stop)
           base == Cache(t, slots)
           X == {c \in Caches : CacheKept(c, bytes)}
           step == [z \in X \X (1..n) |-> UnmapNext(z[1], ss[z[2]])]
           Rec(f) == [s \in SUBSET DOMAIN ss |->
                         IF s = {} THEN base ELSE UnmapNext(f[s \ {Max(s)}], ss[Max(s)])]
           iter == CHOOSE f : f = Rec(f)
           g == [i \in 0..n |-> iter[1..i]]
<1>1. n \in Nat /\ DOMAIN ss = 1..n /\ \A i \in 1..n : ss[i] \in Slots
  <2>1. \A i \in 1..n : start + i - 1 \in 0..(MaxTokens - 1)
    BY WindowSizes
  <2> QED  BY <2>1 DEF SlotsFrom, Slots
<1>2. Cleared(base, start, stop) = iter[DOMAIN ss]
  BY DEF Cleared, FoldLeft, MapThenFoldSet
<1>3. base \in X
  BY CacheTyped DEF Cache
<1> HIDE DEF n, ss, base
<1>4. \A c \in X, i \in 1..n : UnmapNext(c, ss[i]) \in X
  <2> SUFFICES ASSUME NEW c \in X, NEW i \in 1..n PROVE UnmapNext(c, ss[i]) \in X
    OBVIOUS
  <2> DEFINE d == c.t
             u == c.used
             s == ss[i]
             r == UnmapSlot(d, s)
             v == Without(u, s)
  <2>1. c = Cache(d, u) /\ CacheKept(c, bytes)
    BY DEF Caches, Cache
  <2>2. s \in Slots
    BY <1>1
  <2>3. UnmapNext(c, s) = Cache(r, v)
    BY DEF UnmapNext
  <2> HIDE DEF d, u, s
  <2>4. CacheKept(UnmapNext(Cache(d, u), s), bytes)
    BY <2>1, <2>2, UnmapKeeps
  <2>5. CacheKept(Cache(r, v), bytes)
    BY <2>1, <2>3, <2>4
  <2> HIDE DEF r, v
  <2>6. Cache(r, v) \in Caches
    BY <2>5, CacheTyped
  <2> QED  BY <2>3, <2>5, <2>6 DEF s
<1> HIDE DEF X
<1>5. step \in [X \X (1..n) -> X] /\ \A c \in X, i \in 1..n : step[<<c, i>>] = UnmapNext(c, ss[i])
  BY <1>4
<1>6. \E f : f = Rec(f)
  <2> HIDE DEF step
  <2>1. PICK f : Folding(f, step, base, n)
    BY <1>1, FoldingExists
  <2>2. ASSUME NEW s \in SUBSET (1..n), s # {}
        PROVE  f[s] = UnmapNext(f[s \ {Max(s)}], ss[Max(s)])
    <3> DEFINE r == s \ {Max(s)}
    <3>1. n # 0
      <4>1. 1..0 = {}
        OBVIOUS
      <4> QED  BY <2>2, <4>1
    <3>2. r \in SUBSET (1..n) /\ Max(s) \in 1..n
      BY <1>1, <2>2, <3>1, WithoutTheLast
    <3> HIDE DEF r
    <3>3. f[r] \in X
      BY <1>1, <1>3, <1>5, <2>1, <3>2, FoldingTyped
    <3>4. f[s] = step[<<f[r], Max(s)>>]
      BY <2>1, <2>2 DEF Folding, r
    <3> QED  BY <1>5, <3>2, <3>3, <3>4 DEF r
  <2>3. f = Rec(f)
    <3>1. f = [s \in SUBSET (1..n) |-> IF s = {} THEN base ELSE step[<<f[s \ {Max(s)}], Max(s)>>]]
      BY <2>1 DEF Folding
    <3>2. f = [s \in SUBSET (1..n) |-> f[s]]
      BY <3>1
    <3>3. {} \in SUBSET (1..n) /\ f[{}] = base
      BY <3>1
    <3> QED  BY <1>1, <2>2, <3>2, <3>3
  <2> QED  BY <2>3
<1>7. iter = [s \in SUBSET (1..n) |-> IF s = {} THEN base ELSE UnmapNext(iter[s \ {Max(s)}], ss[Max(s)])]
  BY <1>1, <1>6
<1> HIDE DEF iter
<1>8. g[0] \in X
  <2>1. 1..0 = {} /\ {} \in SUBSET (1..n) /\ 0 \in 0..n
    BY <1>1
  <2> QED  BY <1>3, <1>7, <2>1
<1>9. ASSUME NEW i \in 1..n, g[i - 1] \in X PROVE g[i] \in X
  <2>1. 1..i \in SUBSET (1..n) /\ 1..i # {} /\ i \in Nat /\ i # 0 /\ i \in 0..n /\ i - 1 \in 0..n
    <3>1. i \in Nat /\ i # 0 /\ i \in 1..i /\ i <= n /\ i - 1 \in Nat /\ i - 1 <= n
      BY <1>1
    <3>2. n \in Nat
      BY <1>1
    <3>3. \A k \in 1..i : k \in 1..n
      BY <3>1, <3>2
    <3>4. i \in 0..n /\ i - 1 \in 0..n
      BY <3>1, <3>2
    <3> QED  BY <3>1, <3>3, <3>4
  <2>2. Max(1..i) = i /\ (1..i) \ {i} = 1..(i - 1)
    BY <2>1, LastOfPlaces
  <2>3. g[i] = UnmapNext(g[i - 1], ss[i])
    BY <1>7, <2>1, <2>2
  <2> HIDE DEF g
  <2> QED  BY <1>4, <1>9, <2>3
<1>10. n \in 0..n /\ g[n] = iter[1..n]
  BY <1>1
<1>11. g[n] \in X
  <2> HIDE DEF g
  <2> QED  BY <1>1, <1>8, <1>9, <1>10, StepByStep
<1> QED  BY <1>1, <1>2, <1>10, <1>11 DEF X, base

\* What a peer decoded of slots start .. end - 1.
Window(bytes, start, end) == [i \in 1 .. end - start |-> bytes[start + i - 1]]

\* The invariant: the window is kept, the tokens that count are in it, and what
\* a peer decoded is still what its slots hold.
PagesInv ==
    /\ CacheKept(Cache(pt, used), written) /\ written \in [Slots -> PageBytes]
    /\ next_token \in Nat /\ next_token <= MaxTokens
    /\ holder = "table" => handed = {}
    /\ \A h \in handed : /\ h.start \in Nat /\ h.end \in Nat /\ h.end <= next_token
                         /\ h.tensor.data = Window(written, h.start, h.end)

\* An empty window.
LEMMA PagesInvAtFirst == PageInit => PagesInv
<1> SUFFICES ASSUME PageInit PROVE PagesInv
  OBVIOUS
<1> DEFINE e == << >>
<1>1. /\ pt = [table |-> [s \in Slots |-> NoPage], pages |-> << >>, free_list |-> << >>,
               next_page_id |-> 0, clock |-> 0]
      /\ used = << >> /\ handed = {} /\ next_token = 0 /\ written = [s \in Slots |-> Zeroed]
  BY DEF PageInit
<1>2. /\ e \in Seq(Nat) /\ e \in Seq(Slots) /\ Len(e) = 0 /\ 1..0 = {} /\ 0..(0 - 1) = {}
      /\ e \in [0..(0 - 1) -> PageRecords] /\ DOMAIN e = {}
  <2>1. /\ e \in Seq(Nat) /\ e \in Seq(Slots) /\ Len(e) = 0 /\ 1..0 = {} /\ 0..(0 - 1) = {}
    BY EmptySeq
  <2>2. e \in [1..0 -> PageRecords]
    OBVIOUS
  <2> QED  BY <2>1, <2>2
<1> HIDE DEF e
<1>3. /\ pt.table = [s \in Slots |-> NoPage] /\ pt.pages = e /\ pt.free_list = e
      /\ pt.next_page_id = 0 /\ pt.clock = 0 /\ used = e
  BY <1>1 DEF e
<1>4. pt \in PageTables
  <2>1. e \in UNION {[0..(n - 1) -> PageRecords] : n \in Nat}
    BY <1>2
  <2> QED  BY <1>1, <1>2, <2>1 DEF PageTables, e
<1>5. TableKept(pt, {})
  BY <1>2, <1>3, <1>4, WindowSizes DEF TableKept
<1>6. OrderKept(pt, used, 0)
  BY <1>2, <1>3 DEF OrderKept
<1>7. TruthKept(pt, written)
  BY <1>3 DEF TruthKept
<1> QED  BY <1>1, <1>5, <1>6, <1>7, WindowSizes DEF PagesInv, CacheKept, Cache, PageBytes

\* What the invariant says of what can be read.
LEMMA PagesInvImplies == PagesInv => TokensReadTrue
<1> SUFFICES ASSUME PagesInv PROVE TokensReadTrue
  OBVIOUS
<1>1. TableKept(pt, {}) /\ OrderKept(pt, used, 0) /\ TruthKept(pt, written)
  BY DEF PagesInv, CacheKept, Cache
<1>2. \A s \in Slots : pt.table[s] # NoPage => PageOf(pt, s) = written[s]
  BY <1>1 DEF TruthKept, PageOf
<1>3. \A h \in handed : h.tensor.data = [i \in 1 .. h.end - h.start |-> written[h.start + i - 1]]
  BY DEF PagesInv, Window
<1>4. RecentSlotsStay
  <2>1. used \in Seq(Slots) /\ DOMAIN used = 1..Len(used)
    BY <1>1, LenProperties DEF OrderKept
  <2>2. \A k \in 1..Len(used) : used[k] \in Slots
    BY <2>1, ElementOfSeq
  <2> QED  BY <1>1, <2>1, <2>2 DEF OrderKept, RecentSlotsStay, Range
<1> QED  BY <1>2, <1>3, <1>4 DEF TokensReadTrue, GatherTellsTruth

\* A token that is written behind the window a peer holds.
LEMMA AppendKeepsPages ==
    ASSUME PagesInv, NEW bytes \in TokenBlobs, AppendToken(bytes) PROVE PagesInv'
<1> DEFINE k == next_token
           w == [written EXCEPT ![k] = bytes]
<1>1. /\ holder = "attention" /\ k < MaxTokens /\ pt' = WriteSlot(pt, k, bytes) /\ written' = w
      /\ used' = Used(used, k) /\ holder' = holder /\ handed' = handed
      /\ next_token' = k + 1 \/ next_token' = k
  BY DEF AppendToken
<1>2. /\ CacheKept(Cache(pt, used), written) /\ written \in [Slots -> PageBytes] /\ k \in Nat
      /\ k <= MaxTokens
  BY DEF PagesInv
<1>3. k \in Slots /\ bytes \in PageBytes
  BY <1>1, <1>2, WindowSizes DEF Slots, PageBytes
<1>4. CacheKept(Cache(pt', used'), written')
  BY <1>1, <1>2, <1>3, WriteKeeps
<1>5. w \in [Slots -> PageBytes]
  BY <1>2, <1>3
<1>6. next_token' \in Nat /\ k <= next_token' /\ next_token' <= MaxTokens
  BY <1>1, <1>2, WindowSizes
<1>7. ASSUME NEW h \in handed
      PROVE  /\ h.start \in Nat /\ h.end \in Nat /\ h.end <= next_token'
             /\ h.tensor.data = Window(w, h.start, h.end)
  <2>1. /\ h.start \in Nat /\ h.end \in Nat /\ h.end <= k
        /\ h.tensor.data = Window(written, h.start, h.end)
    BY DEF PagesInv
  <2>2. \A i \in 1..(h.end - h.start) : h.start + i - 1 # k /\ h.start + i - 1 \in Slots
    BY <1>2, <2>1, WindowSizes DEF Slots
  <2>3. \A i \in 1..(h.end - h.start) : w[h.start + i - 1] = written[h.start + i - 1]
    BY <1>2, <2>2
  <2>4. Window(w, h.start, h.end) = Window(written, h.start, h.end)
    BY <2>3 DEF Window
  <2>5. h.end <= next_token'
    BY <1>2, <1>6, <2>1
  <2> QED  BY <2>1, <2>4, <2>5
<1> HIDE DEF w
<1> QED  BY <1>1, <1>4, <1>5, <1>6, <1>7 DEF PagesInv

\* A window that is gathered shows what its slots hold.
LEMMA GatherKeepsPages ==
    ASSUME PagesInv, NEW start \in 0..MaxTokens, NEW end \in 0..MaxTokens, NEW lost,
           GatherFp32Tensor(start, end, lost)
    PROVE  PagesInv'
<1> DEFINE c == Cache(pt, used)
           gone == {s \in start .. end - 1 : c.t.table[s] = NoPage}
           stop == IF gone = {} THEN end ELSE Min(gone)
           bytes == [i \in 1 .. stop - start |-> PageOf(c.t, start + i - 1)]
           g == Gather(c, start, end)
           tensor == Tensor(<<end - start, TokenBytes \div 4>>, "Fp32", g.bytes)
           buf == ToBytes(tensor, BlobBytes(tensor) - lost)
<1>1. CacheKept(c, written) /\ TruthKept(pt, written) /\ c.t = pt /\ c.used = used
  BY DEF PagesInv, CacheKept, Cache
<1>2. g.ok = (gone = {}) /\ g.bytes = bytes /\ g.after = Gathered(c, start, stop)
  BY DEF Gather, Gathered
<1>3. /\ holder = "attention" /\ start <= end /\ end <= next_token
      /\ pt' = g.after.t /\ used' = g.after.used /\ holder' = holder
      /\ next_token' = next_token /\ written' = written
      /\ handed' = {} \/ (g.ok /\ handed' = {[start |-> start, end |-> end, tensor |-> x] : x \in FromBytes(buf)})
  BY DEF GatherFp32Tensor
<1>4. start \in Nat /\ end \in Nat /\ start <= MaxTokens /\ end <= MaxTokens
  BY WindowSizes
<1> HIDE DEF c, g, tensor, buf
<1>5. /\ stop \in Nat /\ start <= stop /\ stop <= MaxTokens
      /\ \A s \in start..(stop - 1) : pt.table[s] # NoPage
  <2>1. CASE gone = {}
    <3>1. stop = end /\ \A s \in start..(end - 1) : pt.table[s] # NoPage
      BY <1>1, <2>1
    <3> QED  BY <1>3, <1>4, <3>1
  <2>2. CASE gone # {}
    <3>1. gone \subseteq start..(end - 1) /\ \A s \in start..(end - 1) : s \in Nat
      BY <1>4
    <3>2. gone \subseteq Nat
      BY <3>1
    <3> DEFINE least == Min(gone)
    <3>3. least \in gone /\ \A s \in gone : least <= s
      BY <2>2, <3>2, MinIsLeast
    <3>4. stop = least
      BY <2>2
    <3> HIDE DEF least, stop
    <3>5. least \in start..(end - 1) /\ start <= least /\ least <= MaxTokens /\ least \in Nat
      <4>1. least \in start..(end - 1)
        BY <3>1, <3>3
      <4> QED  BY <1>4, <4>1, WindowSizes
    <3>6. ASSUME NEW s \in start..(least - 1) PROVE pt.table[s] # NoPage
      <4>1. s \in start..(end - 1) /\ ~(least <= s)
        BY <1>4, <3>5
      <4> QED  BY <1>1, <3>3, <4>1
    <3> QED  BY <3>4, <3>5, <3>6
  <2> QED  BY <2>1, <2>2
<1> HIDE DEF stop
<1>6. CacheKept(g.after, written)
  <2>1. CacheKept(Gathered(Cache(pt, used), start, stop), written)
    BY <1>1, <1>4, <1>5, GatherKeeps DEF c
  <2> QED  BY <1>2, <2>1 DEF c
<1>7. CacheKept(Cache(pt', used'), written')
  <2>1. Cache(pt', used').t = g.after.t /\ Cache(pt', used').used = g.after.used
    BY <1>3 DEF Cache
  <2> QED  BY <1>3, <1>6, <2>1 DEF CacheKept
<1>8. ASSUME g.ok PROVE g.bytes = Window(written, start, end)
  <2>1. gone = {} /\ stop = end
    BY <1>2, <1>8 DEF stop
  <2>2. \A i \in 1..(end - start) : start + i - 1 \in start..(end - 1) /\ start + i - 1 \in Slots
    BY <1>4, WindowSizes DEF Slots
  <2>3. \A i \in 1..(end - start) : PageOf(c.t, start + i - 1) = written[start + i - 1]
    BY <1>1, <2>1, <2>2 DEF TruthKept, PageOf
  <2> QED  BY <1>2, <2>1, <2>3 DEF Window
<1>9. ASSUME NEW h \in handed'
      PROVE  /\ h.start \in Nat /\ h.end \in Nat /\ h.end <= next_token
             /\ h.tensor.data = Window(written, h.start, h.end)
  <2>1. g.ok /\ handed' = {[start |-> start, end |-> end, tensor |-> x] : x \in FromBytes(buf)}
    BY <1>3, <1>9
  <2>2. PICK x \in FromBytes(buf) : h = [start |-> start, end |-> end, tensor |-> x]
    BY <1>9, <2>1
  <2>3. x = tensor
    BY <2>2 DEF FromBytes, ToBytes, buf
  <2>4. tensor.data = g.bytes
    BY DEF Tensor, tensor
  <2> QED  BY <1>3, <1>4, <1>8, <2>1, <2>2, <2>3, <2>4
<1> QED  BY <1>3, <1>7, <1>9 DEF PagesInv

\* A window that is cleared.
LEMMA ClearKeepsPages == ASSUME PagesInv, Clear PROVE PagesInv'
<1> DEFINE c == Cache(pt, used)
           after == Cleared(c, 0, next_token)
<1>1. CacheKept(c, written) /\ next_token \in Nat /\ next_token <= MaxTokens
  BY DEF PagesInv
<1>2. /\ pt' = after.t /\ used' = after.used /\ next_token' = 0 /\ handed' = {}
      /\ written' = written
  BY DEF Clear, Cleared
<1>3. CacheKept(after, written)
  BY <1>1, ClearKeeps
<1> HIDE DEF after
<1>4. CacheKept(Cache(pt', used'), written')
  <2>1. Cache(pt', used').t = after.t /\ Cache(pt', used').used = after.used
    BY <1>2 DEF Cache
  <2> QED  BY <1>2, <1>3, <2>1 DEF CacheKept
<1> QED  BY <1>2, <1>4, WindowSizes DEF PagesInv

\* A bare table that is called.
LEMMA CallKeepsPages == ASSUME PagesInv, NEW slot \in Slots, CallTable(slot) PROVE PagesInv'
<1>1. /\ holder = "table" /\ handed' = handed /\ holder' = holder /\ next_token' = next_token
  BY DEF CallTable
<1>2. /\ CacheKept(Cache(pt, used), written) /\ written \in [Slots -> PageBytes] /\ handed = {}
  BY <1>1 DEF PagesInv
<1>3. CacheKept(Cache(pt', used'), written') /\ written' \in [Slots -> PageBytes]
  <2>1. CASE /\ pt' = MapSlot(pt, slot)
             /\ written' = [written EXCEPT ![slot] = Zeroed]
             /\ used' = Used(used, slot)
    <3>1. CacheKept(Cache(MapSlot(pt, slot), Used(used, slot)), [written EXCEPT ![slot] = Zeroed])
      BY <1>2, MapKeeps
    <3> QED  BY <1>2, <2>1, <3>1 DEF PageBytes
  <2>2. CASE \E bytes \in TokenBlobs : /\ pt' = WriteSlot(pt, slot, bytes)
                                       /\ written' = [written EXCEPT ![slot] = bytes]
                                       /\ used' = Used(used, slot)
    <3>1. PICK bytes \in TokenBlobs : /\ pt' = WriteSlot(pt, slot, bytes)
                                      /\ written' = [written EXCEPT ![slot] = bytes]
                                      /\ used' = Used(used, slot)
      BY <2>2
    <3>2. bytes \in PageBytes
      BY DEF PageBytes
    <3>3. CacheKept(Cache(WriteSlot(pt, slot, bytes), Used(used, slot)), [written EXCEPT ![slot] = bytes])
      BY <1>2, <3>2, WriteKeeps
    <3> QED  BY <1>2, <3>1, <3>2, <3>3
  <2>3. CASE /\ pt.table[slot] # NoPage
             /\ pt' = ReadSlot(pt, slot)
             /\ used' = Used(used, slot)
             /\ UNCHANGED written
    <3>1. CacheKept(Cache(ReadSlot(pt, slot), Used(used, slot)), written)
      BY <1>2, <2>3, ReadKeeps
    <3> QED  BY <1>2, <2>3, <3>1
  <2>4. CASE /\ pt' = UnmapSlot(pt, slot)
             /\ used' = Without(used, slot)
             /\ UNCHANGED written
    <3>1. UnmapNext(Cache(pt, used), slot) = Cache(UnmapSlot(pt, slot), Without(used, slot))
      BY DEF UnmapNext, Cache
    <3>2. CacheKept(UnmapNext(Cache(pt, used), slot), written)
      BY <1>2, UnmapKeeps
    <3> QED  BY <1>2, <2>4, <3>1, <3>2
  <2> QED  BY <2>1, <2>2, <2>3, <2>4 DEF CallTable
<1> QED  BY <1>1, <1>2, <1>3 DEF PagesInv

\* Every step keeps the window.
LEMMA PagesInvInductive == ASSUME PagesInv, [PageNext]_pageVars PROVE PagesInv'
<1>1. ASSUME NEW bytes \in TokenBlobs, AppendToken(bytes) PROVE PagesInv'
  BY <1>1, AppendKeepsPages
<1>2. ASSUME NEW bytes \in TokenBlobs, NEW tensor \in TokenTensors(bytes), AppendTensor(tensor)
      PROVE  PagesInv'
  <2>1. tensor.data = <<bytes>>
    BY DEF TokenTensors, Tensor
  <2>2. tensor.data[1] = bytes
    BY <2>1
  <2>3. AppendToken(bytes)
    BY <1>2, <2>2 DEF AppendTensor
  <2> QED  BY <2>3, AppendKeepsPages
<1>3. ASSUME NEW start \in 0..MaxTokens, NEW end \in 0..MaxTokens, NEW lost \in Losses,
             GatherFp32Tensor(start, end, lost)
      PROVE  PagesInv'
  BY <1>3, GatherKeepsPages
<1>4. CASE Clear
  BY <1>4, ClearKeepsPages
<1>5. ASSUME NEW slot \in Slots, CallTable(slot) PROVE PagesInv'
  BY <1>5, CallKeepsPages
<1>6. CASE UNCHANGED pageVars
  BY <1>6 DEF pageVars, PagesInv, CacheKept, Cache
<1> QED  BY <1>1, <1>2, <1>3, <1>4, <1>5, <1>6 DEF PageNext

PagesSpec == PageInit /\ [][PageNext]_pageVars

\* "Same append sequence always gathers the same bytes", and "eviction is
\* deterministic LRU": in every reachable state a slot that can be read and a
\* window a peer decoded hold what was put there, and the slots that can be read
\* are those used last, whatever was evicted, unmapped or cleared in between.
THEOREM TokensStayTrue == PagesSpec => []TokensReadTrue
<1>1. PagesSpec => []PagesInv
  BY PagesInvAtFirst, PagesInvInductive, PTL DEF PagesSpec
<1> QED  BY <1>1, PagesInvImplies, PTL

-----------------------------------------------------------------------------
(***************************************************************************)
(* The engine.  negamax and plain minimax are recursive functions: first   *)
(* that they exist, that is, that the equations that define them have a    *)
(* solution, and the loop over the moves one move at a time.  Then what    *)
(* holds in that loop, the search of a node from the searches below it,    *)
(* and all searches by the smallest depth at which one would be wrong.     *)
(***************************************************************************)

\* What a search returns, and what it keeps while it tries the moves.
Results == [score : Int, best_move : Nat, nodes : Nat]
Attempts == [score : Int, best_move : Nat, nodes : Nat, window : Windows]

\* The loop over the moves, given what searches of one ply less find.
MovesTried(f, depth, pos, window) ==
    FoldLeft(LAMBDA a, m : Try(a, m, f[<<depth - 1, pos.next[m], Opposed(a.window)>>]),
             Untried(window), [m \in 1 .. Len(pos.next) |-> m])

\* The same, move by move.
TriedOneByOne(A, f, depth, pos, window) ==
    /\ A \in [0 .. Len(pos.next) -> Attempts]
    /\ A[0] = Untried(window)
    /\ \A i \in 1 .. Len(pos.next) :
          A[i] = Try(A[i - 1], i, f[<<depth - 1, pos.next[i], Opposed(A[i - 1].window)>>])

\* f finds results in searches of that depth.
FindsResults(f, depth) ==
    \A pos \in Positions, window \in Windows : f[<<depth, pos, window>>] \in Results

LEMMA EngineNumbers ==
    /\ MaxDepth \in Nat /\ MateScore \in Nat /\ MateBand \in Nat /\ MateBand <= MateScore
    /\ MaxDepth + 1 < MateBand /\ Games \subseteq Positions /\ Depths \subseteq Nat
BY EngineAssumption DEF EngineAssumption

LEMMA MovesOf ==
    ASSUME NEW pos \in Positions
    PROVE  /\ Len(pos.next) \in Nat /\ \A m \in 1 .. Len(pos.next) : pos.next[m] \in Positions
           /\ pos.eval \in Int
           /\ pos.eval <= MateScore - MateBand /\ -(MateScore - MateBand) <= pos.eval
<1>1. pos.next \in Seq(Positions) /\ pos.eval \in -(MateScore - MateBand) .. (MateScore - MateBand)
  BY EngineAssumption DEF EngineAssumption
<1>2. Len(pos.next) \in Nat /\ \A m \in 1 .. Len(pos.next) : pos.next[m] \in Positions
  BY <1>1, LenProperties, ElementOfSeq
<1> QED  BY <1>1, <1>2, EngineNumbers

LEMMA OpposedWindow ==
    ASSUME NEW window \in Windows
    PROVE  /\ Opposed(window) \in Windows
           /\ Opposed(window).alpha = -window.beta /\ Opposed(window).beta = -window.alpha
BY DEF Opposed, Windows

LEMMA TriesTyped ==
    ASSUME NEW acc \in Attempts, NEW m \in Nat, NEW child \in Results
    PROVE  Try(acc, m, child) \in Attempts
<1>1. /\ acc.window \in Windows /\ acc.score \in Int /\ acc.best_move \in Nat /\ acc.nodes \in Nat
      /\ child.score \in Int /\ child.nodes \in Nat
  BY DEF Attempts, Results
<1>2. acc.window.alpha \in Int /\ acc.window.beta \in Int
  BY <1>1 DEF Windows
<1> DEFINE score == -child.score
           alpha == IF score > acc.window.alpha THEN score ELSE acc.window.alpha
<1>3. score \in Int /\ alpha \in Int
  BY <1>1, <1>2
<1>4. [acc.window EXCEPT !.alpha = alpha] \in Windows
  BY <1>1, <1>3 DEF Windows
<1>5. acc.nodes + child.nodes \in Nat
  BY <1>1
<1>6. Try(acc, m, child) = acc
      \/ Try(acc, m, child) = [score |-> IF score > acc.score THEN score ELSE acc.score,
                               best_move |-> IF score > acc.score THEN m ELSE acc.best_move,
                               nodes |-> acc.nodes + child.nodes,
                               window |-> [acc.window EXCEPT !.alpha = alpha]]
  BY DEF Try
<1> HIDE DEF score, alpha
<1> QED  BY <1>1, <1>3, <1>4, <1>5, <1>6 DEF Attempts

\* The fold tries the moves one by one.
LEMMA MovesAreTried ==
    ASSUME NEW f, NEW depth \in Nat, FindsResults(f, depth - 1),
           NEW pos \in Positions, NEW window \in Windows
    PROVE  \E A : /\ TriedOneByOne(A, f, depth, pos, window)
                  /\ MovesTried(f, depth, pos, window) = A[Len(pos.next)]
<1> DEFINE n == Len(pos.next)
           places == [m \in 1 .. n |-> m]
           Reply(a, m) == f[<<depth - 1, pos.next[m], Opposed(a.window)>>]
           Tried(a, m) == Try(a, m, Reply(a, m))
           step == [z \in Attempts \X (1..n) |-> Tried(z[1], z[2])]
           start == Untried(window)
           Rec(h) == [s \in SUBSET DOMAIN places |->
                        IF s = {} THEN start ELSE Tried(h[s \ {Max(s)}], places[Max(s)])]
           iter == CHOOSE h : h = Rec(h)
           A == [i \in 0..n |-> iter[1..i]]
<1>1. n \in Nat /\ DOMAIN places = 1..n
  BY MovesOf
<1>2. MovesTried(f, depth, pos, window) = iter[DOMAIN places]
  BY DEF MovesTried, FoldLeft, MapThenFoldSet
<1>3. start \in Attempts
  <2>1. MateScore \in Nat /\ window \in Windows
    BY EngineNumbers
  <2> QED  BY <2>1 DEF Untried, Attempts
<1>4. \A a \in Attempts, m \in 1..n : Tried(a, m) \in Attempts
  <2> SUFFICES ASSUME NEW a \in Attempts, NEW m \in 1..n PROVE Tried(a, m) \in Attempts
    OBVIOUS
  <2>1. a.window \in Windows
    BY DEF Attempts
  <2>2. Opposed(a.window) \in Windows
    BY <2>1, OpposedWindow
  <2>3. pos.next[m] \in Positions /\ m \in Nat
    BY <1>1, MovesOf
  <2>4. Reply(a, m) \in Results
    BY <2>2, <2>3 DEF FindsResults
  <2> HIDE DEF Reply
  <2> QED  BY <2>3, <2>4, TriesTyped
<1> HIDE DEF n, Tried, start
<1>5. step \in [Attempts \X (1..n) -> Attempts] /\ \A a \in Attempts, m \in 1..n : step[<<a, m>>] = Tried(a, m)
  BY <1>4
<1> HIDE DEF step
<1>6. \E h : h = Rec(h) /\ \A s \in SUBSET (1..n) : h[s] \in Attempts
  <2>1. PICK h : Folding(h, step, start, n)
    BY <1>1, FoldingExists
  <2>2. \A s \in SUBSET (1..n) : h[s] \in Attempts
    BY <1>1, <1>3, <1>5, <2>1, FoldingTyped
  <2>3. ASSUME NEW s \in SUBSET (1..n), s # {}
        PROVE  h[s] = Tried(h[s \ {Max(s)}], places[Max(s)])
    <3> DEFINE r == s \ {Max(s)}
    <3>1. n # 0
      <4>1. 1..0 = {}
        OBVIOUS
      <4> QED  BY <2>3, <4>1
    <3>2. r \in SUBSET (1..n) /\ Max(s) \in 1..n
      BY <1>1, <2>3, <3>1, WithoutTheLast
    <3>3. places[Max(s)] = Max(s)
      BY <3>2
    <3> HIDE DEF r, places
    <3>4. h[s] = step[<<h[r], Max(s)>>]
      BY <2>1, <2>3 DEF Folding, r
    <3> QED  BY <1>5, <2>2, <3>2, <3>3, <3>4 DEF r
  <2>4. h = Rec(h)
    <3> HIDE DEF places
    <3>1. h = [s \in SUBSET (1..n) |-> IF s = {} THEN start ELSE step[<<h[s \ {Max(s)}], Max(s)>>]]
      BY <2>1 DEF Folding
    <3>2. h = [s \in SUBSET (1..n) |-> h[s]]
      BY <3>1
    <3>3. {} \in SUBSET (1..n) /\ h[{}] = start
      BY <3>1
    <3> QED  BY <1>1, <2>3, <3>2, <3>3
  <2> QED  BY <2>2, <2>4
<1>7. iter = Rec(iter)
  BY <1>6
<1> HIDE DEF iter
<1>8. iter[{}] = start /\ \A i \in 1..n : iter[1..i] = Tried(iter[1..(i - 1)], i)
  <2>1. iter[{}] = start
    BY <1>1, <1>7
  <2>2. ASSUME NEW i \in 1..n PROVE iter[1..i] = Tried(iter[1..(i - 1)], i)
    <3>1. 1..i \in SUBSET (1..n) /\ 1..i # {} /\ i \in Nat /\ i # 0
      <4>1. i \in Nat /\ i # 0 /\ i \in 1..i /\ i <= n
        BY <1>1
      <4>2. \A x \in 1..i : x \in 1..n
        BY <1>1, <4>1
      <4> QED  BY <4>1, <4>2
    <3>2. Max(1..i) = i /\ (1..i) \ {i} = 1..(i - 1) /\ places[i] = i
      BY <3>1, LastOfPlaces DEF n
    <3> QED  BY <1>1, <1>7, <3>1, <3>2
  <2> QED  BY <2>1, <2>2
<1>9. A[0] = start
  <2>1. 1..0 = {} /\ 0 \in 0..n
    BY <1>1
  <2> QED  BY <1>8, <2>1
<1>10. \A i \in 1..n : A[i] = Tried(A[i - 1], i)
  <2> SUFFICES ASSUME NEW i \in 1..n PROVE A[i] = Tried(A[i - 1], i)
    OBVIOUS
  <2>1. i \in 0..n /\ i - 1 \in 0..n
    BY <1>1
  <2> QED  BY <1>8, <2>1
<1>11. \A i \in 0..n : A[i] \in Attempts
  <2>1. \A i \in 1..n : A[i - 1] \in Attempts => A[i] \in Attempts
    BY <1>4, <1>10
  <2> HIDE DEF A
  <2> QED  BY <1>1, <1>3, <1>9, <2>1, StepByStep
<1>12. A \in [0..n -> Attempts]
  BY <1>11
<1>13. A[n] = iter[1..n]
  BY <1>1
<1> HIDE DEF A
<1>14. TriedOneByOne(A, f, depth, pos, window)
  BY <1>9, <1>10, <1>12 DEF TriedOneByOne, Tried, start, n
<1>15. MovesTried(f, depth, pos, window) = A[Len(pos.next)]
  BY <1>1, <1>2, <1>13 DEF n
<1> QED  BY <1>14, <1>15

\* f and h find the same in searches of that depth.
FindsAlike(f, h, depth) ==
    \A pos \in Positions, window \in Windows : f[<<depth, pos, window>>] = h[<<depth, pos, window>>]

\* The moves are tried in one way only, by searches that find the same.
LEMMA TriedInOneWay ==
    ASSUME NEW f, NEW h, NEW depth \in Nat, NEW pos \in Positions, NEW window \in Windows,
           FindsAlike(f, h, depth - 1),
           NEW A, TriedOneByOne(A, f, depth, pos, window),
           NEW B, TriedOneByOne(B, h, depth, pos, window)
    PROVE  A[Len(pos.next)] = B[Len(pos.next)]
<1> DEFINE n == Len(pos.next)
           Same == {i \in 0..n : A[i] = B[i]}
           e == [i \in 0..n |-> i]
<1>1. n \in Nat
  BY MovesOf
<1>2. e[0] \in Same
  BY <1>1 DEF TriedOneByOne
<1>3. \A i \in 1..n : e[i - 1] \in Same => e[i] \in Same
  <2> SUFFICES ASSUME NEW i \in 1..n, e[i - 1] \in Same PROVE e[i] \in Same
    OBVIOUS
  <2>1. i \in 0..n /\ i - 1 \in 0..n /\ A[i - 1] = B[i - 1] /\ A[i - 1] \in Attempts
    <3>1. A \in [0..n -> Attempts]
      BY DEF TriedOneByOne
    <3> HIDE DEF n
    <3>2. i \in 0..n /\ i - 1 \in 0..n
      BY <1>1
    <3> QED  BY <3>1, <3>2
  <2>2. pos.next[i] \in Positions /\ Opposed(A[i - 1].window) \in Windows
    BY <2>1, MovesOf, OpposedWindow DEF Attempts
  <2>3. f[<<depth - 1, pos.next[i], Opposed(A[i - 1].window)>>]
            = h[<<depth - 1, pos.next[i], Opposed(A[i - 1].window)>>]
    BY <2>2 DEF FindsAlike
  <2>4. A[i] = B[i]
    BY <2>1, <2>3 DEF TriedOneByOne
  <2> QED  BY <2>1, <2>4
<1>4. \A i \in 0..n : e[i] \in Same
  <2> HIDE DEF n, e, Same
  <2> QED  BY <1>1, <1>2, <1>3, StepByStep
<1>5. n \in 0..n
  BY <1>1
<1> QED  BY <1>4, <1>5

\* What negamax returns, given what searches of one ply less find.
NegamaxRule(f, depth, pos, window) ==
    IF depth > 0 /\ GoesOn(pos)
    THEN [score |-> Taper(MovesTried(f, depth, pos, window).score),
          best_move |-> MovesTried(f, depth, pos, window).best_move,
          nodes |-> MovesTried(f, depth, pos, window).nodes]
    ELSE Leaf(Standing(pos))

LEMMA TaperedNumber == ASSUME NEW score \in Int PROVE Taper(score) \in Int
BY DEF Taper

LEMMA StandingNumber == ASSUME NEW pos \in Positions PROVE Standing(pos) \in Int
BY MovesOf, EngineNumbers DEF Standing

LEMMA RuleTyped ==
    ASSUME NEW f, NEW depth \in Nat, NEW pos \in Positions, NEW window \in Windows,
           depth > 0 => FindsResults(f, depth - 1)
    PROVE  NegamaxRule(f, depth, pos, window) \in Results
<1>1. CASE depth > 0 /\ GoesOn(pos)
  <2>1. PICK A : /\ TriedOneByOne(A, f, depth, pos, window)
                 /\ MovesTried(f, depth, pos, window) = A[Len(pos.next)]
    BY <1>1, MovesAreTried
  <2> DEFINE acc == MovesTried(f, depth, pos, window)
  <2>2. acc \in Attempts
    BY <2>1, MovesOf DEF TriedOneByOne
  <2> HIDE DEF acc
  <2>3. acc.score \in Int /\ acc.best_move \in Nat /\ acc.nodes \in Nat
    BY <2>2 DEF Attempts
  <2>4. Taper(acc.score) \in Int
    BY <2>3, TaperedNumber
  <2>5. NegamaxRule(f, depth, pos, window)
            = [score |-> Taper(acc.score), best_move |-> acc.best_move, nodes |-> acc.nodes]
    BY <1>1 DEF NegamaxRule, acc
  <2> QED  BY <2>3, <2>4, <2>5 DEF Results
<1>2. CASE ~(depth > 0 /\ GoesOn(pos))
  <2>1. Standing(pos) \in Int /\ NegamaxRule(f, depth, pos, window) = Leaf(Standing(pos))
    BY <1>2, StandingNumber DEF NegamaxRule
  <2> QED  BY <2>1 DEF Leaf, Results
<1> QED  BY <1>1, <1>2

\* Searches that find the same one ply below find the same.
LEMMA RuleAgrees ==
    ASSUME NEW f, NEW h, NEW depth \in Nat, NEW pos \in Positions, NEW window \in Windows,
           depth > 0 => FindsResults(f, depth - 1) /\ FindsAlike(f, h, depth - 1)
    PROVE  NegamaxRule(f, depth, pos, window) = NegamaxRule(h, depth, pos, window)
<1>1. CASE depth > 0 /\ GoesOn(pos)
  <2>1. FindsResults(f, depth - 1) /\ FindsResults(h, depth - 1) /\ FindsAlike(f, h, depth - 1)
    BY <1>1 DEF FindsResults, FindsAlike
  <2>2. PICK A : /\ TriedOneByOne(A, f, depth, pos, window)
                 /\ MovesTried(f, depth, pos, window) = A[Len(pos.next)]
    BY <2>1, MovesAreTried
  <2>3. PICK B : /\ TriedOneByOne(B, h, depth, pos, window)
                 /\ MovesTried(h, depth, pos, window) = B[Len(pos.next)]
    BY <2>1, MovesAreTried
  <2>4. A[Len(pos.next)] = B[Len(pos.next)]
    BY <2>1, <2>2, <2>3, TriedInOneWay
  <2> QED  BY <1>1, <2>2, <2>3, <2>4 DEF NegamaxRule
<1>2. CASE ~(depth > 0 /\ GoesOn(pos))
  BY <1>2 DEF NegamaxRule
<1> QED  BY <1>1, <1>2

\* There is a search that follows the rule: the one whose results with n plies are
\* those of the rule applied n + 1 times, to anything.
LEMMA SearchExists ==
    \E f : /\ f = [node \in Nat \X Positions \X Windows |-> NegamaxRule(f, node[1], node[2], node[3])]
           /\ \A depth \in Nat : FindsResults(f, depth)
<1> DEFINE Nodes == Nat \X Positions \X Windows
           X == [Nodes -> Results]
           Next1(h) == [node \in Nodes |-> NegamaxRule(h, node[1], node[2], node[3])]
           step == [h \in X |-> Next1(h)]
           start == [node \in Nodes |-> NoResult]
<1>1. \A node \in Nodes : /\ node[1] \in Nat /\ node[2] \in Positions /\ node[3] \in Windows
                          /\ node = <<node[1], node[2], node[3]>>
  OBVIOUS
<1>2. \A d \in Nat, pos \in Positions, window \in Windows :
         LET node == <<d, pos, window>>
         IN  node \in Nodes /\ node[1] = d /\ node[2] = pos /\ node[3] = window
  OBVIOUS
<1> HIDE DEF Nodes
<1>3. ASSUME NEW h \in X, NEW d \in Nat PROVE FindsResults(h, d)
  BY <1>2 DEF FindsResults
<1>4. ASSUME NEW h \in X PROVE Next1(h) \in X
  <2> SUFFICES ASSUME NEW node \in Nodes
               PROVE  NegamaxRule(h, node[1], node[2], node[3]) \in Results
    OBVIOUS
  <2> DEFINE d == node[1]
             pos == node[2]
             window == node[3]
  <2>1. d \in Nat /\ pos \in Positions /\ window \in Windows
    BY <1>1
  <2> HIDE DEF d, pos, window
  <2>2. d > 0 => d - 1 \in Nat
    BY <2>1
  <2>3. d > 0 => FindsResults(h, d - 1)
    BY <1>3, <2>2
  <2>4. NegamaxRule(h, d, pos, window) \in Results
    BY <2>1, <2>3, RuleTyped
  <2> QED  BY <2>4 DEF d, pos, window
<1>5. step \in [X -> X] /\ \A h \in X : step[h] = Next1(h)
  BY <1>4
<1>6. start \in X
  BY DEF NoResult, Results
<1> HIDE DEF Next1
<1>7. PICK F : Levels(F, X, step, start)
  <2> HIDE DEF X, step, start
  <2> QED  BY <1>5, <1>6, LevelsExist
<1>8. \A n \in Nat : F[n] \in X /\ F[n + 1] = Next1(F[n])
  <2> HIDE DEF X, step, start
  <2>1. F \in [Nat -> X] /\ \A n \in Nat : F[n + 1] = step[F[n]]
    BY <1>7 DEF Levels
  <2> QED  BY <1>5, <2>1
<1> DEFINE f == [node \in Nodes |-> F[node[1] + 1][node]]
<1>9. \A d \in Nat, pos \in Positions, window \in Windows :
         f[<<d, pos, window>>] = F[d + 1][<<d, pos, window>>]
  BY <1>2
<1>10. f \in X
  <2> SUFFICES ASSUME NEW node \in Nodes PROVE F[node[1] + 1][node] \in Results
    OBVIOUS
  <2>1. node[1] + 1 \in Nat
    BY <1>1
  <2>2. F[node[1] + 1] \in X
    BY <1>8, <2>1
  <2> QED  BY <2>2
<1>11. ASSUME NEW node \in Nodes
       PROVE  f[node] = NegamaxRule(f, node[1], node[2], node[3])
  <2> DEFINE d == node[1]
             pos == node[2]
             window == node[3]
             h == F[d]
  <2>1. d \in Nat /\ pos \in Positions /\ window \in Windows
    BY <1>1
  <2>2. f[node] = F[d + 1][node]
    OBVIOUS
  <2>3. h \in X /\ F[d + 1] = Next1(h)
    BY <1>8, <2>1
  <2>4. Next1(h)[node] = NegamaxRule(h, d, pos, window)
    BY DEF Next1
  <2>5. ASSUME d > 0 PROVE FindsAlike(f, h, d - 1)
    <3>1. d - 1 \in Nat /\ (d - 1) + 1 = d
      BY <2>1, <2>5
    <3> HIDE DEF d, f
    <3>2. \A p \in Positions, w \in Windows : f[<<d - 1, p, w>>] = F[(d - 1) + 1][<<d - 1, p, w>>]
      BY <1>9, <3>1
    <3> QED  BY <3>1, <3>2 DEF FindsAlike
  <2>6. d > 0 => FindsResults(f, d - 1)
    <3>1. d > 0 => d - 1 \in Nat
      BY <2>1
    <3> HIDE DEF d, f, X
    <3> QED  BY <1>3, <1>10, <3>1
  <2> HIDE DEF d, pos, window, h, f
  <2>7. NegamaxRule(f, d, pos, window) = NegamaxRule(h, d, pos, window)
    BY <2>1, <2>5, <2>6, RuleAgrees
  <2>8. f[node] = NegamaxRule(f, d, pos, window)
    BY <2>2, <2>3, <2>4, <2>7
  <2> QED  BY <2>8 DEF d, pos, window
<1>12. f = [node \in Nodes |-> NegamaxRule(f, node[1], node[2], node[3])]
  <2>1. f = [node \in Nodes |-> f[node]]
    OBVIOUS
  <2> HIDE DEF f
  <2> QED  BY <1>11, <2>1
<1>13. \A depth \in Nat : FindsResults(f, depth)
  <2> HIDE DEF f, X
  <2> QED  BY <1>3, <1>10
<1> HIDE DEF f
<1> QED  BY <1>12, <1>13 DEF Nodes

\* negamax follows its rule.
LEMMA NegamaxUnfolds ==
    ASSUME NEW depth \in Nat, NEW pos \in Positions, NEW window \in Windows
    PROVE  /\ FindsResults(Negamax, depth)
           /\ Negamax[<<depth, pos, window>>] = NegamaxRule(Negamax, depth, pos, window)
<1> DEFINE Defining(f) ==
             f = [node \in Nat \X Positions \X Windows |-> NegamaxRule(f, node[1], node[2], node[3])]
           None == {d \in Nat : ~FindsResults(Negamax, d)}
<1>1. Negamax = CHOOSE f : Defining(f)
  BY DEF Negamax, NegamaxRule, MovesTried
<1>2. Defining(Negamax)
  <2>1. \E f : Defining(f)
    BY SearchExists
  <2> HIDE DEF Defining
  <2> QED  BY <1>1, <2>1
<1>3. \A d \in Nat, p \in Positions, w \in Windows :
         Negamax[<<d, p, w>>] = NegamaxRule(Negamax, d, p, w)
  BY <1>2
<1>4. None = {}
  <2> SUFFICES ASSUME None # {} PROVE FALSE
    OBVIOUS
  <2>1. PICK d \in None : \A l \in None : d <= l
    <3>1. None \subseteq Nat
      OBVIOUS
    <3> HIDE DEF None
    <3> QED  BY <3>1, LeastNumber
  <2>2. d \in Nat /\ ~FindsResults(Negamax, d)
    OBVIOUS
  <2>3. d > 0 => d - 1 \in Nat /\ ~(d <= d - 1)
    BY <2>2
  <2>4. d > 0 => FindsResults(Negamax, d - 1)
    <3> HIDE DEF None
    <3>1. d > 0 => d - 1 \notin None
      BY <2>1, <2>3
    <3> QED  BY <2>3, <3>1 DEF None
  <2>5. ASSUME NEW p \in Positions, NEW w \in Windows PROVE Negamax[<<d, p, w>>] \in Results
    BY <1>3, <2>2, <2>4, RuleTyped
  <2> QED  BY <2>2, <2>5 DEF FindsResults
<1> QED  BY <1>3, <1>4

\* Plain minimax follows its rule as well.
WorthRule(f, depth, pos) ==
    IF depth > 0 /\ GoesOn(pos)
    THEN Taper(Max({-f[<<depth - 1, pos.next[m]>>] : m \in 1 .. Len(pos.next)}))
    ELSE Standing(pos)

WorthsAreNumbers(f, depth) == \A pos \in Positions : f[<<depth, pos>>] \in Int

\* The best reply is one of the replies, and none is better.
LEMMA BestReply ==
    ASSUME NEW f, NEW depth \in Nat, WorthsAreNumbers(f, depth - 1),
           NEW pos \in Positions, GoesOn(pos)
    PROVE  LET replies == {-f[<<depth - 1, pos.next[m]>>] : m \in 1 .. Len(pos.next)}
           IN  /\ Max(replies) \in Int
               /\ \E m \in 1 .. Len(pos.next) : Max(replies) = -f[<<depth - 1, pos.next[m]>>]
               /\ \A m \in 1 .. Len(pos.next) : -f[<<depth - 1, pos.next[m]>>] <= Max(replies)
<1> DEFINE n == Len(pos.next)
           v == [m \in 1..n |-> -f[<<depth - 1, pos.next[m]>>]]
           S == {v[m] : m \in 1..n}
           replies == {-f[<<depth - 1, pos.next[m]>>] : m \in 1..n}
<1>1. n \in Nat /\ \A m \in 1..n : pos.next[m] \in Positions
  BY MovesOf
<1>2. n >= 1
  <2>1. pos.next # << >> /\ pos.next \in Seq(Positions)
    BY EngineAssumption DEF GoesOn, EngineAssumption
  <2>2. Len(pos.next) # 0
    BY <2>1, EmptySeq
  <2> QED  BY <1>1, <2>2
<1> HIDE DEF n
<1>3. v \in [1..n -> Int]
  <2> SUFFICES ASSUME NEW m \in 1..n PROVE -f[<<depth - 1, pos.next[m]>>] \in Int
    OBVIOUS
  <2>1. f[<<depth - 1, pos.next[m]>>] \in Int
    BY <1>1 DEF WorthsAreNumbers
  <2> QED  BY <2>1
<1>4. S = replies
  OBVIOUS
<1>5. Max(S) \in S /\ \A x \in S : x <= Max(S)
  <2> HIDE DEF v
  <2> QED  BY <1>1, <1>2, <1>3, LargestOf
<1>6. S \subseteq Int
  BY <1>3
<1> DEFINE top == Max(S)
<1>7. top \in Int /\ \E m \in 1..n : top = -f[<<depth - 1, pos.next[m]>>]
  <2> HIDE DEF top
  <2>1. top \in S /\ top \in Int
    BY <1>5, <1>6 DEF top
  <2> QED  BY <2>1
<1>8. \A m \in 1..n : -f[<<depth - 1, pos.next[m]>>] <= top
  <2> HIDE DEF top
  <2>1. \A x \in S : x <= top
    BY <1>5 DEF top
  <2>2. \A m \in 1..n : v[m] = -f[<<depth - 1, pos.next[m]>>] /\ v[m] \in S
    OBVIOUS
  <2> HIDE DEF S, v
  <2> QED  BY <2>1, <2>2
<1>9. top = Max(replies)
  BY <1>4
<1> HIDE DEF top, S, v
<1> QED  BY <1>7, <1>8, <1>9 DEF n

LEMMA WorthRuleTyped ==
    ASSUME NEW f, NEW depth \in Nat, NEW pos \in Positions,
           depth > 0 => WorthsAreNumbers(f, depth - 1)
    PROVE  WorthRule(f, depth, pos) \in Int
<1>1. CASE depth > 0 /\ GoesOn(pos)
  <2> DEFINE top == Max({-f[<<depth - 1, pos.next[m]>>] : m \in 1 .. Len(pos.next)})
  <2>1. top \in Int
    <3>1. WorthsAreNumbers(f, depth - 1)
      BY <1>1
    <3> QED  BY <1>1, <3>1, BestReply
  <2>2. WorthRule(f, depth, pos) = Taper(top)
    BY <1>1 DEF WorthRule
  <2> HIDE DEF top
  <2> QED  BY <2>1, <2>2, TaperedNumber
<1>2. CASE ~(depth > 0 /\ GoesOn(pos))
  BY <1>2, StandingNumber DEF WorthRule
<1> QED  BY <1>1, <1>2

\* It exists for the same reason as negamax.
LEMMA WorthExists ==
    \E f : f = [node \in Nat \X Positions |-> WorthRule(f, node[1], node[2])]
<1> DEFINE Nodes == Nat \X Positions
           X == [Nodes -> Int]
           Next1(h) == [node \in Nodes |-> WorthRule(h, node[1], node[2])]
           step == [h \in X |-> Next1(h)]
           start == [node \in Nodes |-> 0]
<1>1. \A node \in Nodes : node[1] \in Nat /\ node[2] \in Positions /\ node = <<node[1], node[2]>>
  OBVIOUS
<1>2. \A d \in Nat, pos \in Positions :
         LET node == <<d, pos>>
         IN  node \in Nodes /\ node[1] = d /\ node[2] = pos
  OBVIOUS
<1> HIDE DEF Nodes
<1>3. ASSUME NEW h \in X, NEW d \in Nat PROVE WorthsAreNumbers(h, d)
  BY <1>2 DEF WorthsAreNumbers
<1>4. ASSUME NEW h \in X PROVE Next1(h) \in X
  <2> SUFFICES ASSUME NEW node \in Nodes PROVE WorthRule(h, node[1], node[2]) \in Int
    OBVIOUS
  <2> DEFINE d == node[1]
             pos == node[2]
  <2>1. d \in Nat /\ pos \in Positions
    BY <1>1
  <2> HIDE DEF d, pos
  <2>2. d > 0 => d - 1 \in Nat
    BY <2>1
  <2>3. d > 0 => WorthsAreNumbers(h, d - 1)
    BY <1>3, <2>2
  <2>4. WorthRule(h, d, pos) \in Int
    BY <2>1, <2>3, WorthRuleTyped
  <2> QED  BY <2>4 DEF d, pos
<1>5. step \in [X -> X] /\ \A h \in X : step[h] = Next1(h)
  BY <1>4
<1>6. start \in X
  OBVIOUS
<1> HIDE DEF Next1
<1>7. PICK F : Levels(F, X, step, start)
  <2> HIDE DEF X, step, start
  <2> QED  BY <1>5, <1>6, LevelsExist
<1>8. \A n \in Nat : F[n] \in X /\ F[n + 1] = Next1(F[n])
  <2> HIDE DEF X, step, start
  <2>1. F \in [Nat -> X] /\ \A n \in Nat : F[n + 1] = step[F[n]]
    BY <1>7 DEF Levels
  <2> QED  BY <1>5, <2>1
<1> DEFINE f == [node \in Nodes |-> F[node[1] + 1][node]]
<1>9. \A d \in Nat, pos \in Positions : f[<<d, pos>>] = F[d + 1][<<d, pos>>]
  BY <1>2
<1>10. ASSUME NEW node \in Nodes
       PROVE  f[node] = WorthRule(f, node[1], node[2])
  <2> DEFINE d == node[1]
             pos == node[2]
             h == F[d]
  <2>1. d \in Nat /\ pos \in Positions
    BY <1>1
  <2>2. f[node] = F[d + 1][node]
    OBVIOUS
  <2>3. h \in X /\ F[d + 1] = Next1(h)
    BY <1>8, <2>1
  <2>4. Next1(h)[node] = WorthRule(h, d, pos)
    BY DEF Next1
  <2>5. ASSUME d > 0 PROVE \A p \in Positions : f[<<d - 1, p>>] = h[<<d - 1, p>>]
    <3>1. d - 1 \in Nat /\ (d - 1) + 1 = d
      BY <2>1, <2>5
    <3> HIDE DEF d, f
    <3>2. \A p \in Positions : f[<<d - 1, p>>] = F[(d - 1) + 1][<<d - 1, p>>]
      BY <1>9, <3>1
    <3> QED  BY <3>1, <3>2
  <2> HIDE DEF d, pos, h, f
  <2>6. WorthRule(f, d, pos) = WorthRule(h, d, pos)
    <3>1. CASE d > 0
      <4>1. \A m \in 1 .. Len(pos.next) : f[<<d - 1, pos.next[m]>>] = h[<<d - 1, pos.next[m]>>]
        BY <2>1, <2>5, <3>1, MovesOf
      <4>2. {-f[<<d - 1, pos.next[m]>>] : m \in 1 .. Len(pos.next)}
                = {-h[<<d - 1, pos.next[m]>>] : m \in 1 .. Len(pos.next)}
        BY <4>1
      <4> QED  BY <4>2 DEF WorthRule
    <3>2. CASE ~(d > 0)
      BY <3>2 DEF WorthRule
    <3> QED  BY <3>1, <3>2
  <2>7. f[node] = WorthRule(f, d, pos)
    BY <2>2, <2>3, <2>4, <2>6
  <2> QED  BY <2>7 DEF d, pos
<1>11. f = [node \in Nodes |-> WorthRule(f, node[1], node[2])]
  <2>1. f = [node \in Nodes |-> f[node]]
    OBVIOUS
  <2> HIDE DEF f
  <2> QED  BY <1>10, <2>1
<1> HIDE DEF f
<1> QED  BY <1>11 DEF Nodes

LEMMA WorthUnfolds ==
    ASSUME NEW depth \in Nat, NEW pos \in Positions
    PROVE  /\ WorthsAreNumbers(Worth, depth)
           /\ Worth[<<depth, pos>>] = WorthRule(Worth, depth, pos)
<1> DEFINE Defining(f) == f = [node \in Nat \X Positions |-> WorthRule(f, node[1], node[2])]
           None == {d \in Nat : ~WorthsAreNumbers(Worth, d)}
<1>1. Worth = CHOOSE f : Defining(f)
  BY DEF Worth, WorthRule
<1>2. Defining(Worth)
  <2>1. \E f : Defining(f)
    BY WorthExists
  <2> HIDE DEF Defining
  <2> QED  BY <1>1, <2>1
<1>3. \A d \in Nat, p \in Positions : Worth[<<d, p>>] = WorthRule(Worth, d, p)
  BY <1>2
<1>4. None = {}
  <2> SUFFICES ASSUME None # {} PROVE FALSE
    OBVIOUS
  <2>1. PICK d \in None : \A l \in None : d <= l
    <3>1. None \subseteq Nat
      OBVIOUS
    <3> HIDE DEF None
    <3> QED  BY <3>1, LeastNumber
  <2>2. d \in Nat /\ ~WorthsAreNumbers(Worth, d)
    OBVIOUS
  <2>3. d > 0 => d - 1 \in Nat /\ ~(d <= d - 1)
    BY <2>2
  <2>4. d > 0 => WorthsAreNumbers(Worth, d - 1)
    <3> HIDE DEF None
    <3>1. d > 0 => d - 1 \notin None
      BY <2>1, <2>3
    <3> QED  BY <2>3, <3>1 DEF None
  <2>5. ASSUME NEW p \in Positions PROVE Worth[<<d, p>>] \in Int
    BY <1>3, <2>2, <2>4, WorthRuleTyped
  <2> QED  BY <2>2, <2>5 DEF WorthsAreNumbers
<1> QED  BY <1>3, <1>4

\* The scores that a search of so many plies finds: an evaluation, or a mate that
\* is no further away.
Plausible(depth, score) ==
    /\ score \in Int
    /\ \/ -(MateScore - MateBand) <= score /\ score <= MateScore - MateBand
       \/ MateScore - 1 - depth <= score /\ score <= MateScore - 1
       \/ -(MateScore - 1) <= score /\ score <= -(MateScore - 1 - depth)

LEMMA VerdictsAreOrdered ==
    ASSUME NEW s \in Int, NEW t \in Int
    PROVE  /\ Verdict(s) \in Int /\ -MateScore <= Verdict(s) /\ Verdict(s) <= MateScore
           /\ Verdict(-s) = -Verdict(s)
           /\ s <= t => Verdict(s) <= Verdict(t)
<1>1. MateScore \in Nat /\ MateBand \in Nat /\ MateBand <= MateScore
  BY EngineNumbers
<1> QED  BY <1>1 DEF Verdict

LEMMA PlausibleScores ==
    ASSUME NEW depth \in Nat, depth <= MaxDepth, NEW score, Plausible(depth, score)
    PROVE  /\ score \in Int /\ -MateScore < score /\ score < MateScore
           /\ Plausible(depth, -score)
<1>1. /\ MateScore \in Nat /\ MateBand \in Nat /\ MateBand <= MateScore
      /\ MaxDepth \in Nat /\ MaxDepth + 1 < MateBand
  BY EngineNumbers
<1> QED  BY <1>1 DEF Plausible

\* The taper keeps the verdict; what it moves is a mate.
LEMMA TaperKeepsVerdict ==
    ASSUME NEW depth \in Nat, depth + 1 <= MaxDepth, NEW score, Plausible(depth, score)
    PROVE  /\ Plausible(depth + 1, Taper(score))
           /\ Verdict(Taper(score)) = Verdict(score)
           /\ Taper(score) < score => Verdict(score) = MateScore
           /\ Taper(score) > score => Verdict(score) = -MateScore
<1>1. /\ MateScore \in Nat /\ MateBand \in Nat /\ MateBand <= MateScore
      /\ MaxDepth \in Nat /\ MaxDepth + 1 < MateBand
  BY EngineNumbers
<1>2. score \in Int
  BY DEF Plausible
<1>3. CASE -(MateScore - MateBand) <= score /\ score <= MateScore - MateBand
  BY <1>1, <1>2, <1>3 DEF Plausible, Taper
<1>4. CASE MateScore - 1 - depth <= score /\ score <= MateScore - 1
  <2>1. score > MateScore - MateBand /\ score - 1 > MateScore - MateBand
    BY <1>1, <1>2, <1>4
  <2>2. Taper(score) = score - 1
    BY <2>1 DEF Taper
  <2>3. Verdict(score) = MateScore /\ Verdict(score - 1) = MateScore
    BY <2>1 DEF Verdict
  <2>4. Plausible(depth + 1, score - 1)
    BY <1>1, <1>2, <1>4 DEF Plausible
  <2> QED  BY <1>2, <2>2, <2>3, <2>4
<1>5. CASE -(MateScore - 1) <= score /\ score <= -(MateScore - 1 - depth)
  <2>1. /\ score < -MateScore + MateBand /\ score + 1 < -MateScore + MateBand
        /\ ~(score > MateScore - MateBand) /\ ~(score + 1 > MateScore - MateBand)
    BY <1>1, <1>2, <1>5
  <2>2. Taper(score) = score + 1
    BY <2>1 DEF Taper
  <2>3. Verdict(score) = -MateScore /\ Verdict(score + 1) = -MateScore
    BY <2>1 DEF Verdict
  <2>4. Plausible(depth + 1, score + 1)
    BY <1>1, <1>2, <1>5 DEF Plausible
  <2> QED  BY <1>2, <2>2, <2>3, <2>4
<1> QED  BY <1>3, <1>4, <1>5 DEF Plausible

\* The windows that searches are started with.
Open(window) ==
    -MateScore <= window.alpha /\ window.alpha < window.beta /\ window.beta <= MateScore

\* What holds after so many moves, value being what each is worth to the mover:
\* alpha is where it began or the best score; as long as the window is open no
\* move tried is worth more than the best score says; and a best score above the
\* window's alpha is not more than the best move is worth.
LoopHolds(acc, i, depth, value, window) ==
    /\ acc \in Attempts
    /\ acc.window.beta = window.beta
    /\ window.alpha <= acc.window.alpha
    /\ acc.score <= acc.window.alpha
    /\ acc.window.alpha = window.alpha \/ acc.window.alpha = acc.score
    /\ i = 0 => acc.score = -MateScore /\ acc.window.alpha = window.alpha
    /\ i > 0 => Plausible(depth, acc.score)
    /\ acc.window.alpha < window.beta => \A k \in 1..i : Verdict(value[k]) <= Verdict(acc.score)
    /\ acc.score > window.alpha =>
          acc.best_move \in 1..i /\ Verdict(value[acc.best_move]) >= Verdict(acc.score)

\* A result tells how a position is worth what it is, as far as the window shows.
Tells(score, worth, window) ==
    /\ score < window.beta => Verdict(worth) <= Verdict(score)
    /\ score > window.alpha => Verdict(worth) >= Verdict(score)

LEMMA TryingAMove ==
    ASSUME NEW depth \in Nat, depth <= MaxDepth, NEW n \in Nat, NEW value \in [1..n -> Int],
           NEW window \in Windows, Open(window), NEW i \in 1..n,
           NEW acc, LoopHolds(acc, i - 1, depth, value, window),
           NEW child \in Results,
           acc.window.alpha < window.beta =>
               Plausible(depth, child.score) /\ Tells(child.score, -value[i], Opposed(acc.window))
    PROVE  LoopHolds(Try(acc, i, child), i, depth, value, window)
<1> DEFINE alpha == acc.window.alpha
           beta == window.beta
           best == acc.score
           score == -child.score
           after == Try(acc, i, child)
<1>1. acc \in Attempts /\ acc.window \in Windows
  BY DEF LoopHolds, Attempts
<1>2. /\ alpha \in Int /\ beta \in Int /\ best \in Int /\ window.alpha \in Int /\ score \in Int
      /\ child.score \in Int /\ MateScore \in Nat
  BY <1>1, EngineNumbers DEF Windows, Attempts, Results
<1>3. acc.window.beta = beta /\ window.alpha <= alpha /\ best <= alpha /\ window.alpha < beta
  BY DEF LoopHolds, Open
<1>4. after \in Attempts
  BY <1>1, TriesTyped
<1>5. CASE alpha >= beta
  <2>1. after = acc
    BY <1>3, <1>5 DEF Try
  <2>2. i - 1 # 0
    BY <1>2, <1>3, <1>5 DEF LoopHolds
  <2>3. i - 1 > 0 /\ i > 0 /\ i # 0 /\ \A k : k \in 1..(i - 1) => k \in 1..i
    BY <2>2
  <2>4. ~(alpha < beta)
    BY <1>2, <1>5
  <2> QED  BY <2>1, <2>3, <2>4 DEF LoopHolds
<1>6. CASE ~(alpha >= beta)
  <2> DEFINE newBest == IF score > best THEN score ELSE best
             newAlpha == IF score > alpha THEN score ELSE alpha
             newMove == IF score > best THEN i ELSE acc.best_move
  <2>1. /\ after.score = newBest /\ after.best_move = newMove
        /\ after.window = [acc.window EXCEPT !.alpha = newAlpha]
    BY <1>3, <1>6 DEF Try
  <2>2. after.window.alpha = newAlpha /\ after.window.beta = beta
    BY <1>1, <1>3, <2>1 DEF Windows
  <2>3. alpha < beta
    BY <1>2, <1>6
  <2>4. Plausible(depth, child.score) /\ Tells(child.score, -value[i], Opposed(acc.window))
    BY <2>3
  <2>5. /\ Plausible(depth, score) /\ -MateScore < score
    BY <1>2, <2>4, PlausibleScores
  <2>6. Opposed(acc.window).alpha = -beta /\ Opposed(acc.window).beta = -alpha
    BY <1>1, <1>3, OpposedWindow
  <2>7. value[i] \in Int /\ -(-value[i]) = value[i] /\ -score = child.score
    BY <1>2
  <2>8. Verdict(-value[i]) = -Verdict(value[i]) /\ Verdict(child.score) = -Verdict(score)
        /\ Verdict(value[i]) \in Int /\ Verdict(score) \in Int /\ Verdict(best) \in Int
    BY <1>2, <2>7, VerdictsAreOrdered
  <2>9. score < beta => Verdict(value[i]) <= Verdict(score)
    <3>1. child.score > -beta => Verdict(-value[i]) >= Verdict(child.score)
      BY <2>4, <2>6 DEF Tells
    <3>2. score < beta => child.score > -beta
      BY <1>2
    <3> HIDE DEF score, alpha, beta
    <3> QED  BY <2>8, <3>1, <3>2
  <2>10. score > alpha => Verdict(value[i]) >= Verdict(score)
    <3>1. child.score < -alpha => Verdict(-value[i]) <= Verdict(child.score)
      BY <2>4, <2>6 DEF Tells
    <3>2. score > alpha => child.score < -alpha
      BY <1>2
    <3> HIDE DEF score, alpha, beta
    <3> QED  BY <2>8, <3>1, <3>2
  <2>11. \A k : k \in 1..i <=> (k \in 1..(i - 1) \/ k = i)
    OBVIOUS
  <2>12. i > 0 /\ i # 0 /\ i \in 1..i /\ i \in Nat
    OBVIOUS
  <2> HIDE DEF alpha, beta, best, score, after
  <2>13. newBest \in Int /\ newAlpha \in Int /\ best <= newBest /\ score <= newBest
         /\ (newBest = score \/ newBest = best) /\ newBest <= newAlpha /\ alpha <= newAlpha
         /\ score <= newAlpha /\ (newAlpha = window.alpha \/ newAlpha = newBest)
    <3>1. alpha = window.alpha \/ alpha = best
      BY DEF LoopHolds, alpha, best
    <3> QED  BY <1>2, <1>3, <3>1
  <2>14. Verdict(newBest) \in Int /\ Verdict(best) <= Verdict(newBest) /\ Verdict(score) <= Verdict(newBest)
    BY <1>2, <2>13, VerdictsAreOrdered
  <2>15. Plausible(depth, newBest)
    <3>1. CASE i - 1 = 0
      <4>1. best = -MateScore
        BY <3>1 DEF LoopHolds, best
      <4> QED  BY <1>2, <2>5, <4>1
    <3>2. CASE i - 1 # 0
      <4>1. i - 1 > 0
        BY <3>2
      <4>2. Plausible(depth, best)
        BY <4>1 DEF LoopHolds, best
      <4> QED  BY <2>5, <4>2
    <3> QED  BY <3>1, <3>2
  <2>16. ASSUME newAlpha < beta, NEW k \in 1..i PROVE Verdict(value[k]) <= Verdict(newBest)
    <3>1. score < beta
      BY <1>2, <2>13, <2>16
    <3>2. CASE k = i
      BY <2>8, <2>9, <2>14, <3>1, <3>2
    <3>3. CASE k # i
      <4>1. k \in 1..(i - 1) /\ k \in 1..n
        BY <3>3
      <4>2. Verdict(value[k]) <= Verdict(best)
        BY <2>3, <4>1 DEF LoopHolds, alpha, beta, best
      <4>3. Verdict(value[k]) \in Int
        BY <4>1, VerdictsAreOrdered
      <4> QED  BY <2>8, <2>14, <4>2, <4>3
    <3> QED  BY <3>2, <3>3
  <2>17. ASSUME newBest > window.alpha
         PROVE  newMove \in 1..i /\ Verdict(value[newMove]) >= Verdict(newBest)
    <3>1. CASE score > best
      <4>1. newBest = score /\ newMove = i
        BY <3>1
      <4>2. score > alpha
        <5>1. alpha = window.alpha \/ alpha = best
          BY DEF LoopHolds, alpha, best
        <5> QED  BY <2>17, <3>1, <4>1, <5>1
      <4> QED  BY <2>10, <2>12, <4>1, <4>2
    <3>2. CASE ~(score > best)
      <4>1. newBest = best /\ newMove = acc.best_move
        BY <3>2
      <4>2. acc.best_move \in 1..(i - 1) /\ Verdict(value[acc.best_move]) >= Verdict(best)
        BY <2>17, <4>1 DEF LoopHolds, best
      <4>3. acc.best_move \in 1..i
        BY <2>11, <4>2
      <4> QED  BY <4>1, <4>2, <4>3
    <3> QED  BY <3>1, <3>2
  <2>18. window.alpha <= newAlpha
    BY <1>2, <1>3, <2>13
  <2> HIDE DEF newBest, newAlpha, newMove
  <2>19. LoopHolds(after, i, depth, value, window)
    BY <1>4, <2>1, <2>2, <2>12, <2>13, <2>15, <2>16, <2>17, <2>18 DEF LoopHolds, beta
  <2> QED  BY <2>19 DEF after
<1> QED  BY <1>5, <1>6

\* A search of so many plies tells every position's worth.
TellsWorths(depth) ==
    \A pos \in Positions :
        /\ Plausible(depth, Worth[<<depth, pos>>])
        /\ \A window \in Windows :
              Open(window) =>
                  LET score == Negamax[<<depth, pos, window>>].score
                  IN  Plausible(depth, score) /\ Tells(score, Worth[<<depth, pos>>], window)

LEMMA WindowNumbers ==
    ASSUME NEW window \in Windows PROVE window.alpha \in Int /\ window.beta \in Int
BY DEF Windows

\* After the last move, with the worths of the positions the moves lead to.
LEMMA LoopTells ==
    ASSUME NEW depth \in Nat, depth > 0, depth <= MaxDepth, TellsWorths(depth - 1),
           NEW pos \in Positions, GoesOn(pos), NEW window \in Windows, Open(window)
    PROVE  LET value == [m \in 1 .. Len(pos.next) |-> -Worth[<<depth - 1, pos.next[m]>>]]
               acc == MovesTried(Negamax, depth, pos, window)
           IN  /\ value \in [1 .. Len(pos.next) -> Int]
               /\ LoopHolds(acc, Len(pos.next), depth - 1, value, window)
<1> DEFINE n == Len(pos.next)
           d == depth - 1
           value == [m \in 1..n |-> -Worth[<<d, pos.next[m]>>]]
           acc == MovesTried(Negamax, depth, pos, window)
<1>1. n \in Nat /\ d \in Nat /\ d <= MaxDepth /\ \A m \in 1..n : pos.next[m] \in Positions
  BY MovesOf, EngineNumbers
<1>2. FindsResults(Negamax, d) /\ WorthsAreNumbers(Worth, d)
  <2>1. \A p \in Positions, w \in Windows : FindsResults(Negamax, d) /\ WorthsAreNumbers(Worth, d)
    BY <1>1, NegamaxUnfolds, WorthUnfolds
  <2> QED  BY <2>1
<1>3. PICK A : TriedOneByOne(A, Negamax, depth, pos, window) /\ acc = A[n]
  <2>1. FindsResults(Negamax, depth - 1)
    BY <1>2
  <2> QED  BY <2>1, MovesAreTried
<1>4. value \in [1..n -> Int]
  <2> SUFFICES ASSUME NEW m \in 1..n PROVE -Worth[<<d, pos.next[m]>>] \in Int
    OBVIOUS
  <2>1. Worth[<<d, pos.next[m]>>] \in Int
    BY <1>1, <1>2 DEF WorthsAreNumbers
  <2> QED  BY <2>1
<1>5. \A m \in 1..n : -value[m] = Worth[<<d, pos.next[m]>>]
  <2> SUFFICES ASSUME NEW m \in 1..n PROVE -value[m] = Worth[<<d, pos.next[m]>>]
    OBVIOUS
  <2>1. Worth[<<d, pos.next[m]>>] \in Int /\ value[m] = -Worth[<<d, pos.next[m]>>]
    BY <1>1, <1>2 DEF WorthsAreNumbers
  <2> QED  BY <2>1
<1>6. /\ \A i \in 0..n : A[i] \in Attempts
      /\ A[0] = Untried(window)
      /\ \A i \in 1..n : A[i] = Try(A[i - 1], i, Negamax[<<d, pos.next[i], Opposed(A[i - 1].window)>>])
  BY <1>3 DEF TriedOneByOne
<1>7. A[n] = acc
  BY <1>3
<1> HIDE DEF n, d, value, acc
<1> DEFINE Holding == {x \in (0..n) \X Attempts : LoopHolds(x[2], x[1], d, value, window)}
           g == [i \in 0..n |-> <<i, A[i]>>]
<1>8. g[0] \in Holding
  <2> DEFINE a == Untried(window)
  <2>1. A[0] \in Attempts /\ A[0] = a
    BY <1>1, <1>6
  <2>2. a.score = -MateScore /\ a.window = window
    BY DEF Untried
  <2> HIDE DEF a
  <2>3. window.alpha \in Int /\ MateScore \in Nat /\ -MateScore <= window.alpha
    BY WindowNumbers, EngineNumbers DEF Open
  <2>4. LoopHolds(a, 0, d, value, window)
    BY <2>1, <2>2, <2>3 DEF LoopHolds
  <2>5. 0 \in 0..n /\ g[0] = <<0, a>>
    BY <1>1, <2>1
  <2> QED  BY <2>1, <2>4, <2>5
<1>9. ASSUME NEW i \in 1..n, g[i - 1] \in Holding PROVE g[i] \in Holding
  <2> DEFINE before == A[i - 1]
             p == pos.next[i]
             opposed == Opposed(before.window)
             child == Negamax[<<d, p, opposed>>]
  <2>1. i - 1 \in 0..n /\ i \in 0..n
    BY <1>1
  <2>2. LoopHolds(before, i - 1, d, value, window)
    <3>1. g[i - 1] = <<i - 1, before>>
      BY <2>1
    <3> HIDE DEF g, before
    <3> QED  BY <1>9, <3>1
  <2>3. A[i] = Try(before, i, child) /\ A[i] \in Attempts /\ before \in Attempts
    BY <1>6, <2>1
  <2> HIDE DEF before
  <2>4. before.window \in Windows /\ p \in Positions
    BY <1>1, <2>3 DEF Attempts
  <2>5. opposed \in Windows /\ opposed.alpha = -before.window.beta /\ opposed.beta = -before.window.alpha
    BY <2>4, OpposedWindow
  <2>6. -value[i] = Worth[<<d, p>>]
    BY <1>5
  <2> HIDE DEF p, opposed
  <2>7. child \in Results
    BY <1>2, <2>4, <2>5 DEF FindsResults
  <2>8. ASSUME before.window.alpha < window.beta
        PROVE  Plausible(d, child.score) /\ Tells(child.score, -value[i], opposed)
    <3>1. /\ before.window.alpha \in Int /\ window.beta \in Int /\ window.alpha \in Int
          /\ MateScore \in Nat
      BY <2>4, WindowNumbers, EngineNumbers
    <3>2. before.window.beta = window.beta /\ window.alpha <= before.window.alpha
          /\ -MateScore <= window.alpha /\ window.beta <= MateScore
      BY <2>2 DEF LoopHolds, Open
    <3>3. Open(opposed)
      BY <2>5, <2>8, <3>1, <3>2 DEF Open
    <3>4. Plausible(d, child.score) /\ Tells(child.score, Worth[<<d, p>>], opposed)
      <4>1. TellsWorths(d)
        BY DEF d
      <4> QED  BY <2>4, <2>5, <3>3, <4>1 DEF TellsWorths
    <3> QED  BY <2>6, <3>4
  <2> HIDE DEF child
  <2>9. LoopHolds(Try(before, i, child), i, d, value, window)
    BY <1>1, <1>4, <2>2, <2>7, <2>8, TryingAMove DEF opposed
  <2>10. g[i] = <<i, A[i]>>
    BY <2>1
  <2> HIDE DEF g
  <2> QED  BY <2>1, <2>3, <2>9, <2>10
<1>10. g[n] \in Holding
  <2> HIDE DEF g, Holding
  <2>1. \A i \in 0..n : g[i] \in Holding
    BY <1>1, <1>8, <1>9, StepByStep
  <2> QED  BY <1>1, <2>1
<1>11. LoopHolds(acc, n, d, value, window)
  <2>1. n \in 0..n /\ g[n] = <<n, A[n]>>
    BY <1>1
  <2> HIDE DEF g
  <2> QED  BY <1>7, <1>10, <2>1
<1> QED  BY <1>4, <1>11 DEF n, d, value, acc

\* A node tells its worth when the nodes below it do; and of the whole window, what
\* the best move leads to.
LEMMA NodeTells ==
    ASSUME NEW depth \in Nat, depth > 0, depth <= MaxDepth, TellsWorths(depth - 1),
           NEW pos \in Positions, GoesOn(pos), NEW window \in Windows, Open(window)
    PROVE  LET answer == Negamax[<<depth, pos, window>>]
               worth == Worth[<<depth, pos>>]
           IN  /\ Plausible(depth, answer.score) /\ Plausible(depth, worth)
               /\ Tells(answer.score, worth, window)
               /\ window.alpha = -MateScore =>
                     /\ answer.best_move \in 1 .. Len(pos.next)
                     /\ LET reply == -Worth[<<depth - 1, pos.next[answer.best_move]>>]
                        IN  Verdict(answer.score) <= Verdict(reply) /\ Verdict(reply) <= Verdict(worth)
<1> DEFINE n == Len(pos.next)
           d == depth - 1
           value == [m \in 1..n |-> -Worth[<<d, pos.next[m]>>]]
           acc == MovesTried(Negamax, depth, pos, window)
           answer == Negamax[<<depth, pos, window>>]
           worth == Worth[<<depth, pos>>]
           top == Max({-Worth[<<d, pos.next[m]>>] : m \in 1..n})
           best == acc.score
<1>1. n \in Nat /\ d \in Nat /\ d + 1 = depth /\ d <= MaxDepth /\ \A m \in 1..n : pos.next[m] \in Positions
  BY MovesOf, EngineNumbers
<1>2. value \in [1..n -> Int] /\ LoopHolds(acc, n, d, value, window)
  BY LoopTells
<1>3. answer.score = Taper(best) /\ answer.best_move = acc.best_move
  <2> HIDE DEF acc
  <2>1. answer = NegamaxRule(Negamax, depth, pos, window)
    BY NegamaxUnfolds
  <2>2. NegamaxRule(Negamax, depth, pos, window)
            = [score |-> Taper(acc.score), best_move |-> acc.best_move, nodes |-> acc.nodes]
    BY DEF NegamaxRule, acc
  <2> HIDE DEF answer
  <2> QED  BY <2>1, <2>2
<1>4. worth = Taper(top)
  BY WorthUnfolds DEF WorthRule
<1>5. /\ top \in Int
      /\ \E m \in 1..n : top = -Worth[<<d, pos.next[m]>>]
      /\ \A m \in 1..n : -Worth[<<d, pos.next[m]>>] <= top
  <2>1. WorthsAreNumbers(Worth, depth - 1)
    BY <1>1, WorthUnfolds
  <2> QED  BY <2>1, BestReply
<1>6. \A m \in 1..n : value[m] = -Worth[<<d, pos.next[m]>>] /\ value[m] \in Int
  BY <1>2
<1> HIDE DEF n, value, acc, top
<1>7. PICK m \in 1..n : top = value[m]
  BY <1>5, <1>6
<1>8. n > 0
  BY <1>1
<1>9. \A k \in 1..n : value[k] <= top
  BY <1>5, <1>6
<1> HIDE DEF d
<1>10. Plausible(d, top)
  <2>1. Plausible(d, Worth[<<d, pos.next[m]>>])
    <3>1. TellsWorths(d)
      BY DEF d
    <3> QED  BY <1>1, <3>1 DEF TellsWorths
  <2> QED  BY <1>1, <1>6, <1>7, <2>1, PlausibleScores
<1>11. Plausible(d, best)
  BY <1>2, <1>8 DEF LoopHolds
<1> HIDE DEF best, answer, worth
<1>12. best \in Int /\ -MateScore < best
  BY <1>1, <1>11, PlausibleScores
<1>13. /\ Plausible(depth, worth) /\ Verdict(worth) = Verdict(top)
       /\ Plausible(depth, answer.score) /\ Verdict(answer.score) = Verdict(best)
       /\ answer.score < best => Verdict(best) = MateScore
       /\ answer.score > best => Verdict(best) = -MateScore
  BY <1>1, <1>3, <1>4, <1>10, <1>11, TaperKeepsVerdict
<1>14. answer.score \in Int /\ window.alpha \in Int /\ window.beta \in Int /\ MateScore \in Nat
       /\ Verdict(top) \in Int /\ Verdict(best) \in Int
       /\ Verdict(top) <= MateScore /\ -MateScore <= Verdict(top)
  BY <1>5, <1>12, <1>13, WindowNumbers, EngineNumbers, VerdictsAreOrdered DEF Plausible
<1>15. best > window.alpha =>
          /\ acc.best_move \in 1..n
          /\ Verdict(best) <= Verdict(value[acc.best_move])
          /\ Verdict(value[acc.best_move]) <= Verdict(top)
  <2> SUFFICES ASSUME best > window.alpha
               PROVE  /\ acc.best_move \in 1..n
                      /\ Verdict(best) <= Verdict(value[acc.best_move])
                      /\ Verdict(value[acc.best_move]) <= Verdict(top)
    OBVIOUS
  <2> DEFINE k == acc.best_move
  <2>1. k \in 1..n /\ Verdict(value[k]) >= Verdict(best)
    BY <1>2 DEF LoopHolds, best
  <2> HIDE DEF k
  <2>2. value[k] \in Int /\ value[k] <= top
    BY <1>6, <1>9, <2>1
  <2>3. Verdict(value[k]) \in Int /\ Verdict(value[k]) <= Verdict(top)
    BY <1>5, <2>2, VerdictsAreOrdered
  <2>4. Verdict(best) <= Verdict(value[k])
    BY <1>14, <2>1, <2>3
  <2> QED  BY <2>1, <2>3, <2>4 DEF k
<1>16. answer.score < window.beta => Verdict(top) <= Verdict(best)
  <2>1. CASE acc.window.alpha < window.beta
    BY <1>2, <1>7, <2>1 DEF LoopHolds, best
  <2>2. CASE ~(acc.window.alpha < window.beta)
    <3>1. acc.window.alpha \in Int
      BY <1>2, WindowNumbers DEF LoopHolds, Attempts
    <3>2. acc.window.alpha = best
      BY <1>2, <1>14, <2>2, <3>1 DEF LoopHolds, Open, best
    <3>3. answer.score < window.beta => answer.score < best
      BY <1>12, <1>14, <2>2, <3>2
    <3> QED  BY <1>13, <1>14, <3>3
  <2> QED  BY <2>1, <2>2
<1>17. answer.score > window.alpha => Verdict(top) >= Verdict(best)
  <2>1. CASE best > window.alpha
    <3>1. acc.best_move \in 1..n
      BY <1>15, <2>1
    <3>2. Verdict(value[acc.best_move]) \in Int
      BY <1>6, <3>1, VerdictsAreOrdered
    <3> QED  BY <1>14, <1>15, <2>1, <3>2
  <2>2. CASE ~(best > window.alpha)
    <3>1. answer.score > window.alpha => answer.score > best
      BY <1>12, <1>14, <2>2
    <3> QED  BY <1>13, <1>14, <3>1
  <2> QED  BY <2>1, <2>2
<1>18. Tells(answer.score, worth, window)
  BY <1>13, <1>16, <1>17 DEF Tells
<1>19. window.alpha = -MateScore =>
          /\ answer.best_move \in 1..n
          /\ Verdict(answer.score) <= Verdict(-Worth[<<d, pos.next[answer.best_move]>>])
          /\ Verdict(-Worth[<<d, pos.next[answer.best_move]>>]) <= Verdict(worth)
  <2> SUFFICES ASSUME window.alpha = -MateScore
               PROVE  /\ answer.best_move \in 1..n
                      /\ Verdict(answer.score) <= Verdict(-Worth[<<d, pos.next[answer.best_move]>>])
                      /\ Verdict(-Worth[<<d, pos.next[answer.best_move]>>]) <= Verdict(worth)
    OBVIOUS
  <2>1. best > window.alpha
    BY <1>12, <1>14
  <2>2. answer.best_move \in 1..n
    BY <1>3, <1>15, <2>1
  <2>3. value[answer.best_move] = -Worth[<<d, pos.next[answer.best_move]>>]
    BY <1>6, <2>2
  <2> QED  BY <1>3, <1>13, <1>15, <2>1, <2>2, <2>3
<1> QED  BY <1>13, <1>18, <1>19 DEF n, d, answer, worth

\* So every search that is not too deep tells every position's worth.
LEMMA SearchesTell ==
    ASSUME NEW depth \in Nat, depth <= MaxDepth PROVE TellsWorths(depth)
<1> DEFINE Wrong == {d \in Nat : d <= MaxDepth /\ ~TellsWorths(d)}
<1> SUFFICES ASSUME Wrong # {} PROVE FALSE
  OBVIOUS
<1>1. PICK d \in Wrong : \A l \in Wrong : d <= l
  <2>1. Wrong \subseteq Nat
    OBVIOUS
  <2> HIDE DEF Wrong
  <2> QED  BY <2>1, LeastNumber
<1>2. d \in Nat /\ d <= MaxDepth /\ ~TellsWorths(d) /\ MaxDepth \in Nat
  BY EngineNumbers
<1>3. d > 0 => TellsWorths(d - 1)
  <2>1. d > 0 => d - 1 \in Nat /\ d - 1 <= MaxDepth /\ ~(d <= d - 1)
    BY <1>2
  <2>2. d > 0 => d - 1 \notin Wrong
    <3> HIDE DEF Wrong
    <3> QED  BY <1>1, <2>1
  <2> QED  BY <2>1, <2>2
<1> HIDE DEF Wrong
<1>4. ASSUME NEW pos \in Positions
      PROVE  /\ Plausible(d, Worth[<<d, pos>>])
             /\ \A window \in Windows :
                   Open(window) =>
                       LET score == Negamax[<<d, pos, window>>].score
                       IN  Plausible(d, score) /\ Tells(score, Worth[<<d, pos>>], window)
  <2>1. CASE d > 0 /\ GoesOn(pos)
    <3>1. ASSUME NEW window \in Windows, Open(window)
          PROVE  LET score == Negamax[<<d, pos, window>>].score
                 IN  /\ Plausible(d, score) /\ Tells(score, Worth[<<d, pos>>], window)
                     /\ Plausible(d, Worth[<<d, pos>>])
      BY <1>2, <1>3, <2>1, <3>1, NodeTells
    <3>2. \E window \in Windows : Open(window)
      <4> DEFINE whole == [alpha |-> -MateScore, beta |-> MateScore]
      <4>1. MateScore \in Nat /\ MateScore > 0
        BY EngineNumbers
      <4>2. whole \in Windows /\ whole.alpha = -MateScore /\ whole.beta = MateScore
        BY <4>1 DEF Windows
      <4> HIDE DEF whole
      <4>3. Open(whole)
        BY <4>1, <4>2 DEF Open
      <4> QED  BY <4>2, <4>3
    <3> QED  BY <3>1, <3>2
  <2>2. CASE ~(d > 0 /\ GoesOn(pos))
    <3> DEFINE s == Standing(pos)
    <3>1. Worth[<<d, pos>>] = s
      BY <1>2, <2>2, WorthUnfolds DEF WorthRule
    <3>2. ASSUME NEW window \in Windows PROVE Negamax[<<d, pos, window>>].score = s
      <4>1. Negamax[<<d, pos, window>>] = Leaf(s)
        BY <1>2, <2>2, NegamaxUnfolds DEF NegamaxRule
      <4> HIDE DEF s
      <4> QED  BY <4>1 DEF Leaf
    <3>3. Plausible(d, s)
      <4>1. /\ MateScore \in Nat /\ MateBand \in Nat /\ MateBand <= MateScore
            /\ MaxDepth + 1 < MateBand /\ MaxDepth \in Nat
        BY EngineNumbers
      <4>2. s = -MateScore + 1 \/ s = 0 \/ s = pos.eval
        BY DEF Standing
      <4>3. /\ pos.eval \in Int /\ pos.eval <= MateScore - MateBand
            /\ -(MateScore - MateBand) <= pos.eval
        BY MovesOf
      <4> HIDE DEF s
      <4> QED  BY <1>2, <4>1, <4>2, <4>3 DEF Plausible
    <3> HIDE DEF s
    <3>4. Verdict(s) <= Verdict(s) /\ Verdict(s) >= Verdict(s)
      BY <3>3, VerdictsAreOrdered DEF Plausible
    <3> QED  BY <3>1, <3>2, <3>3, <3>4 DEF Tells
  <2> QED  BY <2>1, <2>2
<1>5. TellsWorths(d)
  BY <1>4 DEF TellsWorths
<1> QED  BY <1>2, <1>5

\* Of the whole window, the verdict is the position's and the best move's.
LEMMA WholeWindow ==
    ASSUME NEW depth \in Nat, depth > 0, depth <= MaxDepth, NEW pos \in Positions
    PROVE  LET answer == Negamax[<<depth, pos, [alpha |-> -MateScore, beta |-> MateScore]>>]
           IN  /\ Verdict(answer.score) = Verdict(Worth[<<depth, pos>>])
               /\ GoesOn(pos) =>
                     /\ answer.best_move \in 1 .. Len(pos.next)
                     /\ Verdict(-Worth[<<depth - 1, pos.next[answer.best_move]>>]) = Verdict(answer.score)
<1> DEFINE whole == [alpha |-> -MateScore, beta |-> MateScore]
           answer == Negamax[<<depth, pos, whole>>]
           worth == Worth[<<depth, pos>>]
<1>1. MateScore \in Nat /\ MateScore > 0 /\ MaxDepth \in Nat
  BY EngineNumbers
<1>2. whole \in Windows /\ whole.alpha = -MateScore /\ whole.beta = MateScore
  BY <1>1 DEF Windows
<1>3. Open(whole)
  BY <1>1, <1>2 DEF Open
<1> HIDE DEF whole
<1>4. Plausible(depth, answer.score) /\ Tells(answer.score, worth, whole) /\ Plausible(depth, worth)
  BY <1>2, <1>3, SearchesTell DEF TellsWorths
<1>5. /\ answer.score \in Int /\ worth \in Int
      /\ -MateScore < answer.score /\ answer.score < MateScore
  BY <1>4, PlausibleScores
<1>6. /\ Verdict(answer.score) \in Int /\ Verdict(worth) \in Int
      /\ Verdict(worth) <= Verdict(answer.score) /\ Verdict(worth) >= Verdict(answer.score)
  BY <1>2, <1>4, <1>5, VerdictsAreOrdered DEF Tells
<1>7. Verdict(answer.score) = Verdict(worth)
  BY <1>6
<1>8. ASSUME GoesOn(pos)
      PROVE  /\ answer.best_move \in 1 .. Len(pos.next)
             /\ Verdict(-Worth[<<depth - 1, pos.next[answer.best_move]>>]) = Verdict(answer.score)
  <2>1. depth - 1 \in Nat /\ depth - 1 <= MaxDepth
    BY <1>1
  <2>2. TellsWorths(depth - 1)
    BY <2>1, SearchesTell
  <2> DEFINE m == answer.best_move
             below == Worth[<<depth - 1, pos.next[m]>>]
             reply == -below
  <2>3. /\ m \in 1 .. Len(pos.next)
        /\ Verdict(answer.score) <= Verdict(reply) /\ Verdict(reply) <= Verdict(worth)
    BY <1>2, <1>3, <1>8, <2>2, NodeTells
  <2> HIDE DEF m
  <2>4. below \in Int
    <3>1. pos.next[m] \in Positions
      BY <2>3, MovesOf
    <3> QED  BY <2>1, <3>1, WorthUnfolds DEF WorthsAreNumbers
  <2> HIDE DEF below
  <2>5. reply \in Int /\ Verdict(reply) \in Int
    BY <2>4, VerdictsAreOrdered
  <2>6. Verdict(reply) = Verdict(answer.score)
    BY <1>6, <2>3, <2>5
  <2> QED  BY <2>3, <2>6 DEF m, below
<1> QED  BY <1>7, <1>8 DEF whole, answer, worth

\* What the engine keeps: a position, those before it, and the last answer.
EngineInv ==
    /\ position \in Positions
    /\ history \in Seq(Positions)
    /\ searched \in 0 .. MaxDepth
    /\ searched > 0 =>
          found = Negamax[<<searched, position, [alpha |-> -MateScore, beta |-> MateScore]>>]

\* For any game tree and any numbers that keep evaluations and mates apart:
\* searching with a window changes no verdict, neither the score's nor the best
\* move's, at any depth up to the cap (negamax, negamax_search).
THEOREM PruningIsHarmless == EngineSpec => []SearchIsExact
<1>1. EngineInit => EngineInv
  <2>1. 0 \in 0 .. MaxDepth /\ ~(0 > 0) /\ << >> \in Seq(Positions) /\ Games \subseteq Positions
    BY EngineNumbers, EmptySeq
  <2> QED  BY <2>1 DEF EngineInit, EngineInv
<1>2. EngineInv /\ [EngineNext]_engineVars => EngineInv'
  <2> SUFFICES ASSUME EngineInv, [EngineNext]_engineVars PROVE EngineInv'
    OBVIOUS
  <2>1. ASSUME NEW d \in Depths, Search(d) PROVE EngineInv'
    <3>1. Clamp(d) \in 0 .. MaxDepth
      BY EngineNumbers DEF Clamp
    <3> QED  BY <2>1, <3>1 DEF Search, EngineInv
  <2>2. ASSUME NEW m \in 1 .. Len(position.next), MakeMove(m) PROVE EngineInv'
    <3>1. position \in Positions /\ history \in Seq(Positions)
      BY DEF EngineInv
    <3>2. position.next[m] \in Positions
      BY <3>1, MovesOf
    <3>3. Append(history, position) \in Seq(Positions)
      BY <3>1, AppendProperties
    <3>4. 0 \in 0 .. MaxDepth /\ ~(0 > 0)
      BY EngineNumbers
    <3> QED  BY <2>2, <3>2, <3>3, <3>4 DEF MakeMove, EngineInv
  <2>3. CASE UnmakeMove
    <3>1. history \in Seq(Positions) /\ history # << >>
      BY <2>3 DEF EngineInv, UnmakeMove
    <3>2. Last(history) \in Positions /\ Front(history) \in Seq(Positions)
      <4> DEFINE n == Len(history)
      <4>1. n \in Nat /\ n # 0
        BY <3>1, LenProperties, EmptySeq
      <4> HIDE DEF n
      <4>2. \A i \in 1..n : history[i] \in Positions
        BY <3>1, ElementOfSeq DEF n
      <4>3. n \in 1..n /\ \A i \in 1 .. (n - 1) : i \in 1..n
        BY <4>1
      <4>4. Last(history) = history[n]
        BY DEF Last, n
      <4>5. Front(history) = [i \in 1 .. (n - 1) |-> history[i]]
        BY <3>1, <4>1, SubSeqProperties DEF Front, n
      <4> QED  BY <4>1, <4>2, <4>3, <4>4, <4>5
    <3>3. 0 \in 0 .. MaxDepth /\ ~(0 > 0)
      BY EngineNumbers
    <3> QED  BY <2>3, <3>2, <3>3 DEF UnmakeMove, EngineInv
  <2>4. CASE ClearHistory
    <3>1. << >> \in Seq(Positions)
      BY EmptySeq
    <3> QED  BY <2>4, <3>1 DEF ClearHistory, EngineInv
  <2>5. CASE UNCHANGED engineVars
    BY <2>5 DEF engineVars, EngineInv
  <2> QED  BY <2>1, <2>2, <2>3, <2>4, <2>5 DEF EngineNext
<1>3. EngineInv => SearchIsExact
  <2> SUFFICES ASSUME EngineInv, searched > 0
               PROVE  /\ searched <= MaxDepth
                      /\ Verdict(found.score) = Verdict(Worth[<<searched, position>>])
                      /\ GoesOn(position) =>
                            /\ found.best_move \in 1 .. Len(position.next)
                            /\ Verdict(-Worth[<<searched - 1, position.next[found.best_move]>>])
                                   = Verdict(found.score)
    BY DEF SearchIsExact
  <2>1. searched \in Nat /\ searched <= MaxDepth /\ position \in Positions
    BY EngineNumbers DEF EngineInv
  <2>2. found = Negamax[<<searched, position, [alpha |-> -MateScore, beta |-> MateScore]>>]
    BY DEF EngineInv
  <2> QED  BY <2>1, <2>2, WholeWindow
<1> QED  BY <1>1, <1>2, <1>3, PTL DEF EngineSpec
=============================================================================
