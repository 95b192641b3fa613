-------------------------------- MODULE Sums --------------------------------
(***************************************************************************)
(* Sums over finite sets, for proofs: MapThenSumSet is a recursive         *)
(* function on the subsets of a set, each taken apart at an element that   *)
(* CHOOSE picks.  That the function exists, that any other element would   *)
(* do, and that a sum depends on its summands only, is proved by the       *)
(* smallest set for which it would fail.  The same for the sums FoldLeft   *)
(* makes of a sequence.  Besides, remainders, and the ends of sequences    *)
(* whose elements have no set of their own.                                *)
(***************************************************************************)
EXTENDS Integers, FiniteSetsExt, FiniteSetTheorems, SequenceTheorems, WellFoundedInduction, TLAPS

\* Every set of natural numbers that is not empty has a least element.
LEMMA LeastNumber ==
    ASSUME NEW T, T \subseteq Nat, T # {}
    PROVE  \E x \in T : \A y \in T : x <= y
<1> DEFINE R == OpToRel(<, Nat)
<1>1. IsWellFoundedOn(R, Nat)
  BY NatLessThanWellFounded
<1>2. \A x, y \in Nat : x < y => <<x, y>> \in R
  BY DEF OpToRel
<1> HIDE DEF R
<1>3. PICK x \in T : \A y \in T : ~ (<<y, x>> \in R)
  BY <1>1, WFMin
<1>4. \A y \in T : ~ (y < x)
  BY <1>2, <1>3
<1> QED
  BY <1>4

LEMMA MinIsLeast ==
    ASSUME NEW T, T \subseteq Nat, T # {}
    PROVE  Min(T) \in T /\ \A y \in T : Min(T) <= y
BY LeastNumber DEF Min

-----------------------------------------------------------------------------
\* Remainders.
LEMMA Division ==
    ASSUME NEW a \in Int, NEW n \in Nat, n >= 1
    PROVE  /\ a \div n \in Int /\ (a >= 0 => a \div n \in Nat) /\ a % n \in 0 .. n - 1
           /\ a = n * (a \div n) + (a % n)
OBVIOUS

LEMMA SmallRest ==
    ASSUME NEW n \in Nat, n >= 1, NEW r \in 0 .. n - 1
    PROVE  r % n = r
OBVIOUS

LEMMA UniqueRest ==
    ASSUME NEW n \in Nat, n >= 1, NEW p \in Int, NEW q \in Int,
           NEW r \in 0 .. n - 1, NEW s \in 0 .. n - 1, n * p + r = n * q + s
    PROVE  r = s
<1>1. n * (p - q) = s - r
  OBVIOUS
<1>2. CASE p = q
  BY <1>2
<1>3. CASE p - q >= 1
  <2>1. n * (p - q) >= n * 1
    BY <1>3
  <2> QED
    BY <2>1, <1>1
<1>4. CASE q - p >= 1
  <2>1. n * (q - p) >= n * 1
    BY <1>4
  <2>2. n * (q - p) = r - s
    OBVIOUS
  <2> QED
    BY <2>1, <2>2
<1> QED
  BY <1>2, <1>3, <1>4

LEMMA RestOfMultiple ==
    ASSUME NEW n \in Nat, n >= 1, NEW k \in Int, NEW c \in Int
    PROVE  (n * k + c) % n = c % n
<1> DEFINE a == n * k + c
<1>1. a \in Int
  OBVIOUS
<1>2. /\ a \div n \in Int /\ a % n \in 0 .. n - 1 /\ a = n * (a \div n) + (a % n)
  BY <1>1, Division
<1>3. /\ c \div n \in Int /\ c % n \in 0 .. n - 1 /\ c = n * (c \div n) + (c % n)
  BY Division
<1> DEFINE q == a \div n
           r == a % n
           u == c \div n
           s == c % n
<1>4. n * q + r = n * (k + u) + s
  <2>1. n * (k + u) = n * k + n * u
    BY <1>3
  <2> QED
    BY <1>2, <1>3, <2>1
<1>5. q \in Int /\ k + u \in Int /\ r \in 0 .. n - 1 /\ s \in 0 .. n - 1
  BY <1>2, <1>3
<1> HIDE DEF q, r, u, s
<1>6. r = s
  BY <1>4, <1>5, UniqueRest
<1> QED
  BY <1>6 DEF r, s

\* Numbers closer than n to each other have different remainders.
LEMMA NearRests ==
    ASSUME NEW n \in Nat, n >= 1, NEW a \in Int, NEW b \in Int, a % n = b % n,
           a - b < n, b - a < n
    PROVE  a = b
<1> DEFINE p == a \div n
           q == b \div n
<1>1. /\ p \in Int /\ q \in Int /\ a = n * p + (a % n) /\ b = n * q + (b % n)
      /\ a % n \in 0..(n - 1)
  BY Division
<1> HIDE DEF p, q
<1>2. a - b = n * (p - q)
  <2>1. n * (p - q) = n * p - n * q
    BY <1>1
  <2> QED BY <1>1, <2>1
<1>3. CASE p = q
  BY <1>1, <1>3
<1>4. CASE p - q >= 1
  <2>1. n * (p - q) >= n * 1
    BY <1>1, <1>4
  <2> QED BY <1>2, <2>1
<1>5. CASE q - p >= 1
  <2>1. n * (q - p) >= n * 1
    BY <1>1, <1>5
  <2>2. b - a = n * (q - p)
    BY <1>1, <1>2
  <2> QED BY <2>1, <2>2
<1> QED BY <1>1, <1>3, <1>4, <1>5

LEMMA RestsAdd ==
    ASSUME NEW n \in Nat, n >= 1, NEW a \in Int, NEW d \in Int
    PROVE  ((a % n) + d) % n = (a + d) % n
<1> DEFINE p == a \div n
           r == a % n
<1>1. p \in Int /\ r \in Int /\ a = n * p + r
  BY Division
<1> HIDE DEF p, r
<1>2. (n * p + (r + d)) % n = (r + d) % n
  <2> DEFINE c == r + d
  <2>1. c \in Int
    BY <1>1
  <2> HIDE DEF c
  <2>2. (n * p + c) % n = c % n
    BY <1>1, <2>1, RestOfMultiple
  <2> QED BY <2>2 DEF c
<1>3. n * p + (r + d) = a + d
  BY <1>1
<1> QED BY <1>2, <1>3 DEF r

-----------------------------------------------------------------------------
AnySeq(s) == \E S : s \in Seq(S)

LEMMA AnyLength == ASSUME NEW s, AnySeq(s) PROVE Len(s) \in Nat /\ DOMAIN s = 1..Len(s)
BY LenProperties DEF AnySeq

LEMMA AnyAppended ==
    ASSUME NEW s, NEW x, AnySeq(s)
    PROVE  /\ AnySeq(Append(s, x))
           /\ Len(Append(s, x)) = Len(s) + 1
           /\ \A k \in 1..Len(s) : Append(s, x)[k] = s[k]
           /\ Append(s, x)[Len(s) + 1] = x
<1>1. PICK S : s \in Seq(S)
  BY DEF AnySeq
<1> DEFINE T == S \union {x}
<1>2. s \in Seq(T)
  <2>1. S \subseteq T
    OBVIOUS
  <2> QED BY <1>1, <2>1, SeqMonotonic
<1>3. x \in T
  OBVIOUS
<1> HIDE DEF T
<1>4. /\ Append(s, x) \in Seq(T)
      /\ Len(Append(s, x)) = Len(s) + 1
      /\ \A k \in 1..Len(s) : Append(s, x)[k] = s[k]
      /\ Append(s, x)[Len(s) + 1] = x
  BY <1>2, <1>3, AppendProperties
<1> QED BY <1>4 DEF AnySeq

LEMMA AnyTail ==
    ASSUME NEW s, AnySeq(s), s # << >>
    PROVE  /\ AnySeq(Tail(s)) /\ Head(s) = s[1] /\ 1 \in 1..Len(s)
           /\ Len(Tail(s)) = Len(s) - 1
           /\ \A k \in 1..Len(Tail(s)) : Tail(s)[k] = s[k + 1]
<1>1. PICK S : s \in Seq(S)
  BY DEF AnySeq
<1>2. /\ Tail(s) \in Seq(S)
      /\ Len(Tail(s)) = Len(s) - 1
      /\ \A k \in 1..Len(Tail(s)) : Tail(s)[k] = s[k + 1]
  BY <1>1, HeadTailProperties
<1>3. Len(s) \in Nat \ {0}
  BY <1>1, EmptySeq
<1>4. Head(s) = s[1]
  BY <1>1, <1>3
<1> QED BY <1>2, <1>3, <1>4 DEF AnySeq

-----------------------------------------------------------------------------
\* iter gives the sum of g over every subset of S, Total the sum over S.
Picked(s) == CHOOSE x \in s : TRUE

Summing(iter, g, S) ==
    iter = [s \in SUBSET S |-> IF s = {} THEN 0 ELSE g[Picked(s)] + iter[s \ {Picked(s)}]]

Total(g, S) == (CHOOSE iter : Summing(iter, g, S))[S]

LEMMA PickedIsIn == ASSUME NEW s, s # {} PROVE Picked(s) \in s
BY DEF Picked

\* A finite set shrinks by one when an element is taken out.
LEMMA Smaller ==
    ASSUME NEW S, IsFiniteSet(S), NEW s \in SUBSET S
    PROVE  /\ IsFiniteSet(s) /\ Cardinality(s) \in Nat
           /\ \A x \in s : /\ s \ {x} \in SUBSET S
                           /\ Cardinality(s \ {x}) \in Nat
                           /\ Cardinality(s) = Cardinality(s \ {x}) + 1
<1>1. IsFiniteSet(s) /\ Cardinality(s) \in Nat
  BY FS_Subset, FS_CardinalityType
<1>2. ASSUME NEW x \in s
      PROVE  /\ Cardinality(s \ {x}) \in Nat
             /\ Cardinality(s) = Cardinality(s \ {x}) + 1
  <2>1. IsFiniteSet(s \ {x}) /\ Cardinality(s \ {x}) = Cardinality(s) - 1
    BY <1>1, FS_RemoveElement
  <2>2. Cardinality(s \ {x}) \in Nat
    BY <2>1, FS_CardinalityType
  <2> QED
    BY <1>1, <2>1, <2>2
<1> QED
  BY <1>1, <1>2

\* In a finite set's subsets, a set that is not empty has one of which no element
\* can be taken out.
LEMMA SmallestSet ==
    ASSUME NEW S, IsFiniteSet(S), NEW Q, Q \subseteq SUBSET S, Q # {}
    PROVE  \E s \in Q : \A x \in s : s \ {x} \notin Q
<1> DEFINE T == {Cardinality(s) : s \in Q}
<1>1. T \subseteq Nat /\ T # {}
  BY Smaller
<1>2. PICK n \in T : \A m \in T : n <= m
  <2> HIDE DEF T
  <2> QED
    BY <1>1, LeastNumber
<1>3. PICK s \in Q : n = Cardinality(s)
  OBVIOUS
<1>4. ASSUME NEW x \in s, s \ {x} \in Q PROVE FALSE
  <2>1. n <= Cardinality(s \ {x})
    BY <1>2, <1>4
  <2>2. /\ Cardinality(s \ {x}) \in Nat
        /\ Cardinality(s) = Cardinality(s \ {x}) + 1
    BY Smaller
  <2> QED
    BY <1>3, <2>1, <2>2
<1> QED
  BY <1>4

LEMMA SummingExists ==
    ASSUME NEW S, IsFiniteSet(S), NEW g
    PROVE  \E iter : Summing(iter, g, S)
<1> DEFINE D(n) == {s \in SUBSET S : Cardinality(s) <= n}
           Rec(h, n) == [s \in D(n) |-> IF s = {} THEN 0 ELSE g[Picked(s)] + h[s \ {Picked(s)}]]
           T == {n \in Nat : ~ \E h : h = Rec(h, n)}
<1>1. T = {}
  <2> SUFFICES ASSUME T # {} PROVE FALSE
    OBVIOUS
  <2>1. PICK n \in T : \A m \in T : n <= m
    <3>1. T \subseteq Nat
      OBVIOUS
    <3> HIDE DEF T
    <3> QED
      BY <3>1, LeastNumber
  <2>2. n # 0
    <3> SUFFICES ASSUME n = 0 PROVE FALSE
      OBVIOUS
    <3>1. D(0) = {{}}
      <4>1. {} \in D(0)
        BY FS_EmptySet
      <4>2. ASSUME NEW s \in D(0) PROVE s = {}
        <5>1. Cardinality(s) = 0 /\ IsFiniteSet(s)
          BY Smaller
        <5> QED
          BY <5>1, FS_EmptySet
      <4> QED
        BY <4>1, <4>2
    <3> DEFINE h == [s \in {{}} |-> 0]
    <3>2. h = Rec(h, 0)
      BY <3>1
    <3> QED
      BY <3>2
  <2>3. n - 1 \in Nat /\ n - 1 \notin T
    <3>1. n \in Nat /\ ~(n <= n - 1)
      OBVIOUS
    <3>2. n - 1 \in Nat
      BY <2>2, <3>1
    <3> HIDE DEF T
    <3> QED
      BY <2>1, <3>1, <3>2
  <2>4. PICK h : h = Rec(h, n - 1)
    BY <2>3
  <2> DEFINE k == [s \in D(n) |-> IF s = {} THEN 0 ELSE g[Picked(s)] + h[s \ {Picked(s)}]]
  <2>5. ASSUME NEW s \in D(n), s # {}
        PROVE  s \ {Picked(s)} \in D(n - 1) /\ s \ {Picked(s)} \in D(n)
    BY <2>5, PickedIsIn, Smaller
  <2>6. \A s \in D(n - 1) : s \in D(n)
    BY Smaller
  <2>7. \A s \in D(n - 1) : h[s] = k[s]
    <3>1. \A s \in D(n - 1) : h[s] = IF s = {} THEN 0 ELSE g[Picked(s)] + h[s \ {Picked(s)}]
      <4> HIDE DEF D
      <4> QED
        BY <2>4
    <3> HIDE DEF D
    <3> QED
      BY <2>6, <3>1
  <2>8. k = Rec(k, n)
    <3> SUFFICES ASSUME NEW s \in D(n), s # {}
                 PROVE  h[s \ {Picked(s)}] = k[s \ {Picked(s)}]
      <4> HIDE DEF D
      <4> QED
        OBVIOUS
    <3> HIDE DEF k, D
    <3> QED
      BY <2>5, <2>7
  <2> QED
    BY <2>1, <2>8
<1> DEFINE N == Cardinality(S)
<1>2. N \in Nat /\ D(N) = SUBSET S
  <2>1. N \in Nat
    BY FS_CardinalityType
  <2>2. \A s \in SUBSET S : Cardinality(s) <= N
    BY FS_Subset
  <2> HIDE DEF N
  <2> QED
    BY <2>1, <2>2
<1>3. PICK h : h = Rec(h, N)
  <2> HIDE DEF N, D
  <2> QED
    BY <1>1, <1>2
<1> QED
  BY <1>2, <1>3 DEF Summing

LEMMA SummingStep ==
    ASSUME NEW S, NEW g, NEW iter, Summing(iter, g, S)
    PROVE  /\ iter[{}] = 0
           /\ \A s \in SUBSET S : s # {} => iter[s] = g[Picked(s)] + iter[s \ {Picked(s)}]
BY DEF Summing

LEMMA SummingTyped ==
    ASSUME NEW S, IsFiniteSet(S), NEW g, \A x \in S : g[x] \in Nat,
           NEW iter, Summing(iter, g, S)
    PROVE  \A s \in SUBSET S : iter[s] \in Nat
<1> DEFINE Q == {s \in SUBSET S : iter[s] \notin Nat}
<1> SUFFICES ASSUME Q # {} PROVE FALSE
  OBVIOUS
<1>1. PICK s \in Q : \A x \in s : s \ {x} \notin Q
  <2>1. Q \subseteq SUBSET S
    OBVIOUS
  <2> HIDE DEF Q
  <2> QED
    BY <2>1, SmallestSet
<1>2. s # {}
  <2>1. iter[{}] = 0
    BY DEF Summing
  <2> QED
    BY <2>1
<1>3. Picked(s) \in s /\ iter[s] = g[Picked(s)] + iter[s \ {Picked(s)}]
  BY <1>2, PickedIsIn, SummingStep
<1>4. iter[s \ {Picked(s)}] \in Nat
  BY <1>1, <1>3
<1> QED
  BY <1>3, <1>4

\* Any element may be taken out first.
LEMMA TakeOut ==
    ASSUME NEW S, IsFiniteSet(S), NEW g, \A x \in S : g[x] \in Nat,
           NEW iter, Summing(iter, g, S)
    PROVE  \A s \in SUBSET S : \A y \in s : iter[s] = g[y] + iter[s \ {y}]
<1>0. \A r \in SUBSET S : r # {} => iter[r] = g[Picked(r)] + iter[r \ {Picked(r)}]
  BY DEF Summing
<1> DEFINE Q == {s \in SUBSET S : \E y \in s : iter[s] # g[y] + iter[s \ {y}]}
<1> SUFFICES ASSUME Q # {} PROVE FALSE
  OBVIOUS
<1>1. PICK s \in Q : \A x \in s : s \ {x} \notin Q
  <2>1. Q \subseteq SUBSET S
    OBVIOUS
  <2> HIDE DEF Q
  <2> QED
    BY <2>1, SmallestSet
<1>2. PICK y \in s : iter[s] # g[y] + iter[s \ {y}]
  OBVIOUS
<1>3. PICK x \in s : iter[s] = g[x] + iter[s \ {x}]
  <2>1. s \in SUBSET S /\ s # {} /\ Picked(s) \in s
    BY <1>2, PickedIsIn
  <2> QED
    BY <1>0, <2>1
<1>4. x # y
  BY <1>2, <1>3
<1>5. iter[s \ {x}] = g[y] + iter[(s \ {x}) \ {y}]
  BY <1>1, <1>3, <1>4
<1>6. iter[s \ {y}] = g[x] + iter[(s \ {y}) \ {x}]
  BY <1>1, <1>3, <1>4
<1>7. (s \ {x}) \ {y} = (s \ {y}) \ {x}
  OBVIOUS
<1> DEFINE rest == (s \ {y}) \ {x}
<1>8. /\ g[x] \in Nat /\ g[y] \in Nat /\ iter[rest] \in Nat
      /\ iter[s \ {x}] = g[y] + iter[rest] /\ iter[s \ {y}] = g[x] + iter[rest]
  BY <1>3, <1>5, <1>6, <1>7, SummingTyped
<1> HIDE DEF rest
<1>9. iter[s] = g[x] + (g[y] + iter[rest]) /\ g[y] + iter[s \ {y}] = g[y] + (g[x] + iter[rest])
  BY <1>3, <1>8
<1> QED
  BY <1>2, <1>8, <1>9

\* The two facts in one, about sums of natural numbers: their names spare the
\* provers the choice of what to instantiate.
Counting(g, S) == \A x \in S : g[x] \in Nat

Unfolding(iter, g, S) ==
    \A r \in SUBSET S : iter[r] \in Nat /\ \A x \in r : iter[r] = g[x] + iter[r \ {x}]

LEMMA Unfolds ==
    ASSUME NEW S, IsFiniteSet(S), NEW g, Counting(g, S), NEW iter, Summing(iter, g, S)
    PROVE  Unfolding(iter, g, S)
BY SummingTyped, TakeOut DEF Counting, Unfolding

\* A sum depends on the summands only.
LEMMA SumsAgree ==
    ASSUME NEW S, IsFiniteSet(S), NEW g, NEW iter, Summing(iter, g, S),
           NEW R, NEW h, NEW jter, Summing(jter, h, R)
    PROVE  \A s \in SUBSET S :
               s \subseteq R /\ (\A x \in s : g[x] = h[x]) => iter[s] = jter[s]
<1> DEFINE Q == {s \in SUBSET S : s \subseteq R /\ (\A x \in s : g[x] = h[x]) /\ iter[s] # jter[s]}
<1> SUFFICES ASSUME Q # {} PROVE FALSE
  OBVIOUS
<1>1. PICK s \in Q : \A x \in s : s \ {x} \notin Q
  <2>1. Q \subseteq SUBSET S
    OBVIOUS
  <2> HIDE DEF Q
  <2> QED
    BY <2>1, SmallestSet
<1>2. s # {}
  BY SummingStep
<1>3. PICK x \in s : iter[s] = g[x] + iter[s \ {x}] /\ jter[s] = h[x] + jter[s \ {x}]
  <2>1. s \in SUBSET S /\ s \in SUBSET R /\ Picked(s) \in s
    BY <1>2, PickedIsIn
  <2>2. iter[s] = g[Picked(s)] + iter[s \ {Picked(s)}]
    BY <1>2, <2>1, SummingStep
  <2>3. jter[s] = h[Picked(s)] + jter[s \ {Picked(s)}]
    BY <1>2, <2>1, SummingStep
  <2> QED
    BY <2>1, <2>2, <2>3
<1>4. iter[s \ {x}] = jter[s \ {x}] /\ g[x] = h[x]
  BY <1>1, <1>3
<1> QED
  BY <1>3, <1>4

LEMMA TotalSums ==
    ASSUME NEW S, IsFiniteSet(S), NEW g
    PROVE  \E iter : Summing(iter, g, S) /\ Total(g, S) = iter[S]
<1> DEFINE iter == CHOOSE iter : Summing(iter, g, S)
<1>1. Summing(iter, g, S)
  BY SummingExists
<1> QED
  BY <1>1 DEF Total

LEMMA TotalIsNat ==
    ASSUME NEW S, IsFiniteSet(S), NEW g, \A x \in S : g[x] \in Nat
    PROVE  Total(g, S) \in Nat
BY TotalSums, SummingTyped

\* The sum with one summand changed.
LEMMA TotalChanges ==
    ASSUME NEW S, IsFiniteSet(S), NEW g, NEW h, \A x \in S : g[x] \in Nat /\ h[x] \in Nat,
           NEW y \in S, \A x \in S \ {y} : h[x] = g[x]
    PROVE  Total(h, S) + g[y] = Total(g, S) + h[y]
<1>1. PICK iter : Summing(iter, g, S) /\ Total(g, S) = iter[S]
  BY TotalSums
<1>2. PICK jter : Summing(jter, h, S) /\ Total(h, S) = jter[S]
  BY TotalSums
<1> DEFINE s == S \ {y}
<1>3. s \in SUBSET S /\ iter[s] \in Nat /\ g[y] \in Nat /\ h[y] \in Nat
  BY <1>1, SummingTyped
<1>4. iter[S] = g[y] + iter[s] /\ jter[S] = h[y] + jter[s]
  BY <1>1, <1>2, TakeOut
<1>5. iter[s] = jter[s]
  BY <1>1, <1>2, <1>3, SumsAgree
<1> HIDE DEF s
<1>6. Total(g, S) = g[y] + iter[s] /\ Total(h, S) = h[y] + iter[s]
  BY <1>1, <1>2, <1>4, <1>5
<1> QED
  BY <1>3, <1>6

\* The sum without one summand.
LEMMA TotalTakesOut ==
    ASSUME NEW S, IsFiniteSet(S), NEW g, Counting(g, S), NEW y \in S
    PROVE  Total(g, S) = g[y] + Total(g, S \ {y})
<1>1. PICK iter : Summing(iter, g, S) /\ Total(g, S) = iter[S]
  BY TotalSums
<1>2. iter[S] = g[y] + iter[S \ {y}]
  BY <1>1, Unfolds DEF Unfolding
<1>3. IsFiniteSet(S \ {y})
  BY FS_RemoveElement
<1>4. PICK jter : Summing(jter, g, S \ {y}) /\ Total(g, S \ {y}) = jter[S \ {y}]
  BY <1>3, TotalSums
<1>5. jter[S \ {y}] = iter[S \ {y}]
  BY <1>1, <1>3, <1>4, SumsAgree
<1> QED
  BY <1>1, <1>2, <1>4, <1>5

\* Sums of functions that agree on the set are equal.
LEMMA TotalsAgree ==
    ASSUME NEW S, IsFiniteSet(S), NEW g, NEW h, \A x \in S : h[x] = g[x]
    PROVE  Total(h, S) = Total(g, S)
BY TotalSums, SumsAgree

LEMMA TotalOfZeros ==
    ASSUME NEW S, IsFiniteSet(S), NEW g, \A x \in S : g[x] = 0
    PROVE  Total(g, S) = 0
<1>1. PICK iter : Summing(iter, g, S) /\ Total(g, S) = iter[S]
  BY TotalSums
<1> DEFINE Q == {s \in SUBSET S : iter[s] # 0}
<1> SUFFICES ASSUME Q # {} PROVE FALSE
  BY <1>1
<1>2. PICK s \in Q : \A x \in s : s \ {x} \notin Q
  <2>1. Q \subseteq SUBSET S
    OBVIOUS
  <2> HIDE DEF Q
  <2> QED
    BY <2>1, SmallestSet
<1>3. s # {}
  BY <1>1, SummingStep
<1>4. Picked(s) \in s /\ iter[s] = g[Picked(s)] + iter[s \ {Picked(s)}]
  <2>1. s \in SUBSET S /\ Picked(s) \in s
    BY <1>3, PickedIsIn
  <2> QED
    BY SMTT(30), <1>1, <1>3, <2>1, SummingStep
<1>5. iter[s \ {Picked(s)}] = 0 /\ g[Picked(s)] = 0
  BY <1>2, <1>4
<1> QED
  BY <1>4, <1>5

\* The sum over a part and the sum over the rest.
LEMMA TotalSplits ==
    ASSUME NEW S, IsFiniteSet(S), NEW g, \A x \in S : g[x] \in Nat, NEW s \in SUBSET S
    PROVE  Total(g, S) = Total(g, s) + Total(g, S \ s)
<1>1. PICK iter : Summing(iter, g, S) /\ Total(g, S) = iter[S]
  BY TotalSums
<1>2. \A r \in SUBSET S : Total(g, r) = iter[r]
  <2> SUFFICES ASSUME NEW r \in SUBSET S PROVE Total(g, r) = iter[r]
    OBVIOUS
  <2>1. IsFiniteSet(r)
    BY FS_Subset
  <2>2. PICK jter : Summing(jter, g, r) /\ Total(g, r) = jter[r]
    BY <2>1, TotalSums
  <2> QED
    BY <1>1, <2>1, <2>2, SumsAgree
<1>3. \A r \in SUBSET S : iter[r] \in Nat /\ \A x \in r : iter[r] = g[x] + iter[r \ {x}]
  BY <1>1, SummingTyped, TakeOut
<1>4. iter[{}] = 0
  BY <1>1 DEF Summing
<1> DEFINE Q == {r \in SUBSET S : iter[S] # iter[r] + iter[S \ r]}
<1>5. Q = {}
  <2> SUFFICES ASSUME Q # {} PROVE FALSE
    OBVIOUS
  <2>1. PICK r \in Q : \A x \in r : r \ {x} \notin Q
    <3>1. Q \subseteq SUBSET S
      OBVIOUS
    <3> HIDE DEF Q
    <3> QED
      BY <3>1, SmallestSet
  <2>2. r # {}
    <3>1. S \ {} = S /\ S \in SUBSET S
      OBVIOUS
    <3>2. iter[S] \in Nat
      BY <1>3, <3>1
    <3>3. iter[S] = iter[{}] + iter[S \ {}]
      BY <1>4, <3>1, <3>2
    <3> QED
      BY <3>3
  <2>3. PICK x \in r : TRUE
    BY <2>2
  <2> DEFINE a == r \ {x}
             b == S \ a
             c == S \ r
  <2>4. a \in SUBSET S /\ b \in SUBSET S /\ c \in SUBSET S /\ x \in b /\ b \ {x} = c
    OBVIOUS
  <2>5. iter[S] = iter[a] + iter[b]
    BY <2>1
  <2>6. iter[r] = g[x] + iter[a] /\ iter[b] = g[x] + iter[c]
    BY <1>3, <2>4
  <2>7. iter[a] \in Nat /\ iter[c] \in Nat /\ g[x] \in Nat /\ iter[S] # iter[r] + iter[c]
    BY <1>3, <2>4
  <2> HIDE DEF a, b, c
  <2> QED
    BY <2>5, <2>6, <2>7
<1>6. iter[S] = iter[s] + iter[S \ s]
  BY <1>5
<1> QED
  BY <1>1, <1>2, <1>6

LEMMA TotalOfPart ==
    ASSUME NEW S, IsFiniteSet(S), NEW g, Counting(g, S), NEW s \in SUBSET S
    PROVE  Total(g, s) <= Total(g, S)
<1>1. /\ Total(g, S) = Total(g, s) + Total(g, S \ s)
      /\ \A x \in s : g[x] \in Nat
      /\ \A x \in S \ s : g[x] \in Nat
  BY TotalSplits DEF Counting
<1>2. IsFiniteSet(s) /\ IsFiniteSet(S \ s)
  BY FS_Subset
<1>3. Total(g, s) \in Nat /\ Total(g, S \ s) \in Nat
  BY <1>1, <1>2, TotalIsNat
<1> QED
  BY <1>1, <1>3

\* The sum over a set with one element more.
LEMMA TotalTakesIn ==
    ASSUME NEW S, IsFiniteSet(S), NEW g, Counting(g, S), NEW y, y \notin S, g[y] \in Nat
    PROVE  Total(g, S \cup {y}) = g[y] + Total(g, S)
<1> DEFINE R == S \cup {y}
<1>1. IsFiniteSet(R) /\ y \in R /\ R \ {y} = S /\ Counting(g, R)
  BY FS_AddElement DEF Counting
<1> HIDE DEF R
<1>2. Total(g, R) = g[y] + Total(g, R \ {y})
  BY <1>1, TotalTakesOut
<1> QED
  BY <1>1, <1>2 DEF R

\* A sum is at most two others when each summand is at most theirs.
LEMMA TotalsBelow ==
    ASSUME NEW S, IsFiniteSet(S), NEW f, NEW g, NEW h,
           Counting(f, S), Counting(g, S), Counting(h, S), \A x \in S : h[x] <= f[x] + g[x]
    PROVE  Total(h, S) <= Total(f, S) + Total(g, S)
<1>1. PICK iter : Summing(iter, f, S) /\ Total(f, S) = iter[S]
  BY TotalSums
<1>2. PICK jter : Summing(jter, g, S) /\ Total(g, S) = jter[S]
  BY TotalSums
<1>3. PICK kter : Summing(kter, h, S) /\ Total(h, S) = kter[S]
  BY TotalSums
<1>4. Unfolding(iter, f, S) /\ Unfolding(jter, g, S) /\ Unfolding(kter, h, S)
  BY <1>1, <1>2, <1>3, Unfolds
<1>5. iter[{}] = 0 /\ jter[{}] = 0 /\ kter[{}] = 0
  BY <1>1, <1>2, <1>3 DEF Summing
<1> DEFINE Q == {r \in SUBSET S : ~ (kter[r] <= iter[r] + jter[r])}
<1>6. Q = {}
  <2> SUFFICES ASSUME Q # {} PROVE FALSE
    OBVIOUS
  <2>1. PICK r \in Q : \A x \in r : r \ {x} \notin Q
    <3>1. Q \subseteq SUBSET S
      OBVIOUS
    <3> HIDE DEF Q
    <3> QED BY <3>1, SmallestSet
  <2>2. PICK x \in r : TRUE
    <3>1. kter[{}] <= iter[{}] + jter[{}]
      BY <1>5
    <3> QED BY <3>1
  <2> DEFINE a == iter[r \ {x}]
             b == jter[r \ {x}]
             c == kter[r \ {x}]
             u == f[x]
             v == g[x]
             w == h[x]
  <2>3. /\ a \in Nat /\ b \in Nat /\ c \in Nat /\ u \in Nat /\ v \in Nat /\ w \in Nat
        /\ iter[r] = u + a /\ jter[r] = v + b /\ kter[r] = w + c /\ w <= u + v
    BY <1>4 DEF Unfolding, Counting
  <2>4. c <= a + b
    BY <2>1
  <2>5. ~ (w + c <= (u + a) + (v + b))
    BY <2>3
  <2> HIDE DEF a, b, c, u, v, w
  <2> QED BY <2>3, <2>4, <2>5
<1>7. kter[S] <= iter[S] + jter[S]
  BY <1>6
<1> QED BY <1>1, <1>2, <1>3, <1>7

\* A sum of squares is at most the square of the sum.
LEMMA SquaresBelow ==
    ASSUME NEW S, IsFiniteSet(S), NEW g, NEW h,
           \A x \in S : g[x] \in Nat, \A x \in S : h[x] = g[x] * g[x]
    PROVE  Total(h, S) <= Total(g, S) * Total(g, S)
<1>1. \A x \in S : h[x] \in Nat
  OBVIOUS
<1>2. PICK iter : Summing(iter, g, S) /\ Total(g, S) = iter[S]
  BY TotalSums
<1>3. PICK jter : Summing(jter, h, S) /\ Total(h, S) = jter[S]
  BY TotalSums
<1>a. Unfolding(iter, g, S)
  <2>1. Counting(g, S)
    BY DEF Counting
  <2> QED
    BY <1>2, <2>1, Unfolds
<1>b. Unfolding(jter, h, S)
  <2>1. Counting(h, S)
    BY <1>1 DEF Counting
  <2> QED
    BY <1>3, <2>1, Unfolds
<1>c. iter[{}] = 0 /\ jter[{}] = 0
  BY <1>2, <1>3 DEF Summing
<1> DEFINE Q == {r \in SUBSET S : ~ (jter[r] <= iter[r] * iter[r])}
<1>4. Q = {}
  <2> SUFFICES ASSUME Q # {} PROVE FALSE
    OBVIOUS
  <2>1. PICK r \in Q : \A x \in r : r \ {x} \notin Q
    <3>1. Q \subseteq SUBSET S
      OBVIOUS
    <3> HIDE DEF Q
    <3> QED
      BY <3>1, SmallestSet
  <2>2. PICK x \in r : TRUE
    <3>1. jter[{}] <= iter[{}] * iter[{}]
      BY <1>c
    <3> QED
      BY <3>1
  <2> DEFINE a == iter[r \ {x}]
             b == jter[r \ {x}]
             c == g[x]
  <2>3. a \in Nat /\ b \in Nat /\ c \in Nat /\ iter[r] = c + a /\ jter[r] = c * c + b
    BY <1>a, <1>b DEF Unfolding
  <2>4. b <= a * a
    BY <2>1
  <2>5. ~ (c * c + b <= (c + a) * (c + a))
    BY <2>3
  <2> HIDE DEF a, b, c
  <2>6. (c + a) * (c + a) = c * c + 2 * (c * a) + a * a
    BY <2>3
  <2>7. c * a >= 0
    BY <2>3
  <2> QED
    BY <2>3, <2>4, <2>5, <2>6, <2>7
<1>5. jter[S] <= iter[S] * iter[S]
  BY <1>4
<1> QED
  BY <1>2, <1>3, <1>5

\* A sum that MapThenSumSet is given is such a total.
LEMMA SumIsTotal ==
    ASSUME NEW S, IsFiniteSet(S), NEW g, NEW iter, Summing(iter, g, S)
    PROVE  iter[S] = Total(g, S)
BY TotalSums, SumsAgree

-----------------------------------------------------------------------------
(***************************************************************************)
(* What FoldLeft adds up: a recursive function on the sets of places of a  *)
(* sequence, each taken apart at its last place.                           *)
(***************************************************************************)

\* A set of places that is not empty has a last one.
LEMMA LastPlace ==
    ASSUME NEW n \in Nat, NEW s \in SUBSET (1..n), s # {}
    PROVE  Max(s) \in s /\ \A x \in s : x <= Max(s)
<1> DEFINE T == {n - x : x \in s}
<1>0. \A x \in s : x \in Int /\ n - x \in Nat
  OBVIOUS
<1>1. T \subseteq Nat /\ T # {}
  BY <1>0
<1>2. PICK t \in T : \A u \in T : t <= u
  <2> HIDE DEF T
  <2> QED  BY <1>1, LeastNumber
<1>3. PICK x \in s : t = n - x
  OBVIOUS
<1>4. \A y \in s : x >= y
  <2> SUFFICES ASSUME NEW y \in s PROVE x >= y
    OBVIOUS
  <2>1. n - y \in T
    OBVIOUS
  <2> HIDE DEF T
  <2>2. n - x <= n - y
    BY <1>2, <1>3, <2>1
  <2> QED  BY <2>2
<1>5. Max(s) \in s /\ \A y \in s : Max(s) >= y
  BY <1>4 DEF Max
<1> QED  BY <1>5

\* The last of n places, and the places before it.
LEMMA LastOfPlaces ==
    ASSUME NEW n \in Nat, n # 0
    PROVE  Max(1..n) = n /\ (1..n) \ {n} = 1..(n - 1)
<1>1. n \in 1..n
  OBVIOUS
<1>2. Max(1..n) \in 1..n /\ \A x \in 1..n : x <= Max(1..n)
  BY <1>1, LastPlace
<1>3. (1..n) \ {n} = 1..(n - 1)
  OBVIOUS
<1> QED  BY <1>1, <1>2, <1>3

\* iter adds g up over each set of places.
AddingUp(iter, g, n) ==
    iter = [s \in SUBSET (1..n) |-> IF s = {} THEN 0 ELSE iter[s \ {Max(s)}] + g[Max(s)]]

\* Such a function exists, and is the total whatever order it is taken in.
LEMMA PlacesAddUp ==
    ASSUME NEW n \in Nat, NEW g, Counting(g, 1..n)
    PROVE  /\ \E iter : AddingUp(iter, g, n)
           /\ \A iter : AddingUp(iter, g, n) => iter[1..n] = Total(g, 1..n)
<1>1. \A s \in SUBSET (1..n) : IsFiniteSet(s) /\ Counting(g, s)
  <2>1. IsFiniteSet(1..n)
    BY FS_Interval
  <2> QED  BY <2>1, FS_Subset DEF Counting
<1>2. ASSUME NEW s \in SUBSET (1..n), s # {}
      PROVE  /\ Max(s) \in s /\ s \ {Max(s)} \in SUBSET (1..n)
             /\ Total(g, s) = Total(g, s \ {Max(s)}) + g[Max(s)]
  <2>1. Max(s) \in s
    BY <1>2, LastPlace
  <2>2. Total(g, s) = g[Max(s)] + Total(g, s \ {Max(s)})
    BY <1>1, <2>1, TotalTakesOut
  <2>3. Total(g, s \ {Max(s)}) \in Nat
    <3>1. s \ {Max(s)} \in SUBSET (1..n)
      OBVIOUS
    <3> QED  BY <1>1, <3>1, TotalIsNat DEF Counting
  <2>4. g[Max(s)] \in Nat
    BY <1>1, <2>1 DEF Counting
  <2>5. s \ {Max(s)} \in SUBSET (1..n)
    OBVIOUS
  <2> DEFINE m == Max(s)
             rest == Total(g, s \ {m})
  <2>6. Total(g, s) = g[m] + rest /\ rest \in Nat /\ g[m] \in Nat
    BY <2>2, <2>3, <2>4
  <2>7. Total(g, s) = rest + g[m]
    <3> HIDE DEF rest, m
    <3> QED  BY <2>6
  <2> QED  BY <2>1, <2>5, <2>7
<1>3. Total(g, {}) = 0
  BY FS_EmptySet, TotalOfZeros
<1>4. \E iter : AddingUp(iter, g, n)
  <2> DEFINE f == [s \in SUBSET (1..n) |-> Total(g, s)]
  <2>1. f = [s \in SUBSET (1..n) |-> IF s = {} THEN 0 ELSE f[s \ {Max(s)}] + g[Max(s)]]
    BY <1>2, <1>3
  <2> QED  BY <2>1 DEF AddingUp
<1>5. ASSUME NEW iter, AddingUp(iter, g, n) PROVE iter[1..n] = Total(g, 1..n)
  <2> DEFINE Q == {s \in SUBSET (1..n) : iter[s] # Total(g, s)}
  <2> SUFFICES ASSUME Q # {} PROVE FALSE
    OBVIOUS
  <2>1. PICK s \in Q : \A x \in s : s \ {x} \notin Q
    <3>1. Q \subseteq SUBSET (1..n) /\ IsFiniteSet(1..n)
      BY FS_Interval
    <3> HIDE DEF Q
    <3> QED  BY <3>1, SmallestSet
  <2>2. \A t \in SUBSET (1..n) : iter[t] = IF t = {} THEN 0 ELSE iter[t \ {Max(t)}] + g[Max(t)]
    BY <1>5 DEF AddingUp
  <2>3. s # {}
    BY <1>3, <2>2
  <2> QED  BY <1>2, <2>1, <2>2, <2>3
<1> QED  BY <1>4, <1>5

\* Appending a place adds what is there.
LEMMA TotalAppends ==
    ASSUME NEW n \in Nat, NEW g, NEW h, Counting(g, 1..n),
           \A i \in 1..n : h[i] = g[i], h[n + 1] \in Nat
    PROVE  /\ Total(h, 1..(n + 1)) = Total(g, 1..n) + h[n + 1]
           /\ Total(g, 1..n) \in Nat
<1> DEFINE m == n + 1
<1>1. IsFiniteSet(1..n) /\ Counting(h, 1..n) /\ m \notin 1..n /\ 1..m = (1..n) \cup {m}
  <2>1. IsFiniteSet(1..n)
    BY FS_Interval
  <2>2. Counting(h, 1..n)
    BY DEF Counting
  <2> QED  BY <2>1, <2>2
<1>2. Total(g, 1..n) \in Nat
  BY <1>1, TotalIsNat DEF Counting
<1>3. Total(h, 1..n) = Total(g, 1..n)
  BY <1>1, TotalsAgree
<1> HIDE DEF m
<1>4. Total(h, (1..n) \cup {m}) = h[m] + Total(h, 1..n)
  BY <1>1, TotalTakesIn DEF m
<1> DEFINE t == Total(g, 1..n)
           x == h[m]
<1>5. Total(h, 1..m) = x + t /\ x \in Nat /\ t \in Nat
  BY <1>1, <1>2, <1>3, <1>4 DEF m
<1>6. x + t = t + x
  <2> HIDE DEF x, t
  <2> QED  BY <1>5
<1> QED  BY <1>2, <1>5, <1>6 DEF m

-----------------------------------------------------------------------------
(***************************************************************************)
(* Any fold over the places of a sequence, of a step that is a function.   *)
(***************************************************************************)

\* f folds step, a function of a value and a place, over sets of places.
Folding(f, step, start, n) ==
    f = [s \in SUBSET (1..n) |-> IF s = {} THEN start ELSE step[<<f[s \ {Max(s)}], Max(s)>>]]

\* Without its last place a set of places is one of fewer places.
LEMMA WithoutTheLast ==
    ASSUME NEW m \in Nat, m # 0, NEW s \in SUBSET (1..m), s # {}
    PROVE  /\ s \ {Max(s)} \in SUBSET (1..(m - 1)) /\ s \ {Max(s)} \in SUBSET (1..m)
           /\ Max(s) \in 1..m
<1> DEFINE last_one == Max(s)
           r == s \ {last_one}
<1>1. last_one \in s /\ \A x \in s : x <= last_one
  BY LastPlace
<1> HIDE DEF last_one
<1>2. \A x \in r : x \in 1..m /\ x \in 1..(m - 1)
  <2> SUFFICES ASSUME NEW x \in r PROVE x \in 1..m /\ x \in 1..(m - 1)
    OBVIOUS
  <2>1. x \in 1..m /\ last_one \in 1..m /\ x <= last_one /\ x # last_one
    BY <1>1
  <2> QED  BY <2>1
<1>3. r \in SUBSET (1..(m - 1)) /\ r \in SUBSET (1..m)
  <2> HIDE DEF r
  <2> QED  BY <1>2
<1>4. last_one \in 1..m
  BY <1>1
<1> QED  BY <1>3, <1>4 DEF r, last_one

\* There is such an f: the smallest number of places without one has one.
LEMMA FoldingExists ==
    ASSUME NEW n \in Nat, NEW step, NEW start
    PROVE  \E f : Folding(f, step, start, n)
<1> DEFINE T == {m \in Nat : ~ \E f : Folding(f, step, start, m)}
<1> SUFFICES ASSUME T # {} PROVE FALSE
  OBVIOUS
<1>1. PICK m \in T : \A l \in T : m <= l
  <2>1. T \subseteq Nat
    OBVIOUS
  <2> HIDE DEF T
  <2> QED  BY <2>1, LeastNumber
<1>2. m # 0
  <2>1. SUBSET (1..0) = {{}}
    OBVIOUS
  <2> DEFINE f == [s \in {{}} |-> start]
  <2>2. Folding(f, step, start, 0)
    BY <2>1 DEF Folding
  <2> HIDE DEF f
  <2> QED  BY <2>2
<1>3. m - 1 \in Nat /\ m - 1 \notin T
  <2>1. m - 1 \in Nat /\ ~(m <= m - 1)
    BY <1>2
  <2> HIDE DEF T
  <2> QED  BY <1>1, <2>1
<1>4. PICK f : Folding(f, step, start, m - 1)
  BY <1>3
<1> DEFINE g == [s \in SUBSET (1..m) |-> IF s = {} THEN start ELSE step[<<f[s \ {Max(s)}], Max(s)>>]]
<1>5. ASSUME NEW s \in SUBSET (1..m), s # {}
      PROVE  g[s \ {Max(s)}] = f[s \ {Max(s)}]
  <2> DEFINE r == s \ {Max(s)}
  <2>1. r \in SUBSET (1..(m - 1)) /\ r \in SUBSET (1..m)
    BY <1>2, <1>5, WithoutTheLast
  <2> HIDE DEF r
  <2>2. f[r] = IF r = {} THEN start ELSE step[<<f[r \ {Max(r)}], Max(r)>>]
    BY <1>4, <2>1 DEF Folding
  <2>3. g[r] = f[r]
    BY <2>1, <2>2
  <2> QED  BY <2>3 DEF r
<1>6. Folding(g, step, start, m)
  BY <1>5 DEF Folding
<1> HIDE DEF g
<1> QED  BY <1>6

\* The values it takes are those of the steps.
LEMMA FoldingTyped ==
    ASSUME NEW n \in Nat, NEW X, NEW step \in [X \X (1..n) -> X], NEW start \in X,
           NEW f, Folding(f, step, start, n), NEW s \in SUBSET (1..n)
    PROVE  f[s] \in X
<1> DEFINE T == {m \in Nat : \E r \in SUBSET (1..n) : r \subseteq 1..m /\ f[r] \notin X}
<1>1. s \subseteq 1..n
  OBVIOUS
<1> SUFFICES ASSUME T # {} PROVE FALSE
  BY <1>1
<1>2. PICK m \in T : \A l \in T : m <= l
  <2>1. T \subseteq Nat
    OBVIOUS
  <2> HIDE DEF T
  <2> QED  BY <2>1, LeastNumber
<1>3. PICK r \in SUBSET (1..n) : r \subseteq 1..m /\ f[r] \notin X
  OBVIOUS
<1>4. r # {}
  <2>1. {} \in SUBSET (1..n)
    OBVIOUS
  <2>2. f[{}] = start
    BY <2>1 DEF Folding
  <2> QED  BY <1>3, <2>2
<1>5. m # 0
  <2>1. 1..0 = {}
    OBVIOUS
  <2> QED  BY <1>3, <1>4, <2>1
<1>6. r \in SUBSET (1..m) /\ m \in Nat
  BY <1>3
<1> DEFINE q == r \ {Max(r)}
<1>7. q \in SUBSET (1..(m - 1)) /\ m - 1 \in Nat
  BY <1>4, <1>5, <1>6, WithoutTheLast
<1>8. q \in SUBSET (1..n) /\ Max(r) \in 1..n
  <2>1. 1..0 = {}
    OBVIOUS
  <2>2. n # 0
    BY <1>4, <2>1
  <2> QED  BY <1>4, <2>2, WithoutTheLast
<1>9. f[r] = step[<<f[q], Max(r)>>]
  BY <1>4 DEF Folding
<1> HIDE DEF q
<1>10. f[q] \in X
  <2>1. m - 1 \notin T
    <3>1. ~(m <= m - 1)
      BY <1>6
    <3> HIDE DEF T
    <3> QED  BY <1>2, <3>1
  <2> QED  BY <1>7, <1>8, <2>1
<1> QED  BY <1>3, <1>8, <1>9, <1>10

\* The places of a folding, one by one.
LEMMA FoldingRuns ==
    ASSUME NEW n \in Nat, NEW step, NEW start, NEW f, Folding(f, step, start, n)
    PROVE  /\ f[1..0] = start
           /\ \A i \in 1..n : f[1..i] = step[<<f[1..(i - 1)], i>>]
<1>1. f[1..0] = start
  <2>1. 1..0 \in SUBSET (1..n) /\ 1..0 = {}
    OBVIOUS
  <2> QED  BY <2>1 DEF Folding
<1>2. ASSUME NEW i \in 1..n PROVE f[1..i] = step[<<f[1..(i - 1)], i>>]
  <2>1. 1..i \in SUBSET (1..n) /\ 1..i # {} /\ i \in Nat /\ i # 0
    OBVIOUS
  <2>2. Max(1..i) = i /\ (1..i) \ {i} = 1..(i - 1)
    BY <2>1, LastOfPlaces
  <2> QED  BY <2>1, <2>2 DEF Folding
<1> QED  BY <1>1, <1>2

\* What holds at the start and is kept by each step holds at the end.
LEMMA StepByStep ==
    ASSUME NEW n \in Nat, NEW X, NEW g, g[0] \in X,
           \A i \in 1..n : g[i - 1] \in X => g[i] \in X
    PROVE  \A i \in 0..n : g[i] \in X
<1> DEFINE T == {i \in Nat : i <= n /\ g[i] \notin X}
<1> SUFFICES ASSUME T # {} PROVE FALSE
  OBVIOUS
<1>1. PICK m \in T : \A l \in T : m <= l
  <2>1. T \subseteq Nat
    OBVIOUS
  <2> HIDE DEF T
  <2> QED  BY <2>1, LeastNumber
<1>2. m \in 1..n /\ g[m] \notin X /\ m - 1 \in Nat /\ m - 1 <= n /\ ~(m <= m - 1)
  OBVIOUS
<1>3. m - 1 \notin T
  <2> HIDE DEF T
  <2> QED  BY <1>1, <1>2
<1>4. g[m - 1] \in X
  BY <1>2, <1>3
<1> QED  BY <1>2, <1>4

\* What Vec::remove leaves.
LEMMA RemovedPlace ==
    ASSUME NEW S, NEW s \in Seq(S), NEW i \in 1..Len(s)
    PROVE  LET r == SubSeq(s, 1, i - 1) \o SubSeq(s, i + 1, Len(s))
           IN  /\ r \in Seq(S) /\ Len(r) = Len(s) - 1
               /\ \A k \in 1..Len(r) : r[k] = s[IF k < i THEN k ELSE k + 1]
<1> DEFINE n == Len(s)
           x == SubSeq(s, 1, i - 1)
           y == SubSeq(s, i + 1, n)
           r == x \o y
<1>1. n \in Nat /\ i \in 1..n /\ \A k \in 1..n : s[k] \in S
  BY LenProperties, ElementOfSeq
<1> HIDE DEF n
<1>2. x \in Seq(S) /\ Len(x) = i - 1 /\ \A k \in 1..(i - 1) : x[k] = s[k]
  <2>1. \A k \in 1..(i - 1) : s[k] \in S
    BY <1>1
  <2>2. 1 \in Int /\ i - 1 \in Int
    BY <1>1
  <2>3. /\ SubSeq(s, 1, i - 1) \in Seq(S)
        /\ Len(SubSeq(s, 1, i - 1)) = IF 1 <= i - 1 THEN i - 1 - 1 + 1 ELSE 0
        /\ \A k \in 1..(i - 1 - 1 + 1) : SubSeq(s, 1, i - 1)[k] = s[1 + k - 1]
    BY <2>1, <2>2, SubSeqProperties
  <2> QED  BY <1>1, <2>3
<1>3. y \in Seq(S) /\ Len(y) = n - i /\ \A k \in 1..(n - i) : y[k] = s[k + i]
  <2>1. \A k \in (i + 1)..n : s[k] \in S
    BY <1>1
  <2>2. i + 1 \in Int /\ n \in Int
    BY <1>1
  <2>3. /\ SubSeq(s, i + 1, n) \in Seq(S)
        /\ Len(SubSeq(s, i + 1, n)) = IF i + 1 <= n THEN n - (i + 1) + 1 ELSE 0
        /\ \A k \in 1..(n - (i + 1) + 1) : SubSeq(s, i + 1, n)[k] = s[i + 1 + k - 1]
    BY <2>1, <2>2, SubSeqProperties
  <2>4. \A k \in 1..(n - i) : k \in 1..(n - (i + 1) + 1) /\ i + 1 + k - 1 = k + i
    BY <1>1
  <2> QED  BY <1>1, <2>3, <2>4
<1> HIDE DEF x, y
<1>4. /\ r \in Seq(S) /\ Len(r) = (i - 1) + (n - i)
      /\ \A k \in 1..((i - 1) + (n - i)) : r[k] = IF k <= i - 1 THEN x[k] ELSE y[k - (i - 1)]
  <2>1. /\ x \o y \in Seq(S) /\ Len(x \o y) = Len(x) + Len(y)
        /\ \A k \in 1..(Len(x) + Len(y)) : (x \o y)[k] = IF k <= Len(x) THEN x[k] ELSE y[k - Len(x)]
    BY <1>2, <1>3, ConcatProperties
  <2> QED  BY <1>2, <1>3, <2>1
<1> HIDE DEF r
<1>5. ASSUME NEW k \in 1..(n - 1) PROVE r[k] = s[IF k < i THEN k ELSE k + 1]
  <2>1. CASE k < i
    BY <1>1, <1>2, <1>4, <2>1
  <2>2. CASE ~(k < i)
    <3>1. k - (i - 1) \in 1..(n - i) /\ k \in 1..((i - 1) + (n - i)) /\ ~(k <= i - 1)
          /\ k - (i - 1) + i = k + 1
      BY <1>1, <2>2
    <3> QED  BY <1>3, <1>4, <2>2, <3>1
  <2> QED  BY <2>1, <2>2
<1>6. Len(r) = n - 1
  BY <1>1, <1>4
<1> QED  BY <1>4, <1>5, <1>6 DEF r, x, y, n

-----------------------------------------------------------------------------
(***************************************************************************)
(* Places in a strict order of a finite set: each from none ahead to all   *)
(* the others ahead is taken once.                                         *)
(***************************************************************************)

\* lt is a strict order in which any two elements of W have their places.
Ordering(W, lt) ==
    /\ \A v \in W : <<v, v>> \notin lt
    /\ \A u, v, w \in W : <<u, v>> \in lt /\ <<v, w>> \in lt => <<u, w>> \in lt
    /\ \A v, w \in W : v = w \/ <<v, w>> \in lt \/ <<w, v>> \in lt

Under(W, lt, w) == {v \in W : <<v, w>> \in lt}

\* Who comes later has more ahead.
LEMMA LaterHasMoreAhead ==
    ASSUME NEW W, IsFiniteSet(W), NEW lt, Ordering(W, lt)
    PROVE  /\ \A w \in W : /\ IsFiniteSet(Under(W, lt, w))
                           /\ Cardinality(Under(W, lt, w)) \in 0..(Cardinality(W) - 1)
           /\ \A v, w \in W : <<v, w>> \in lt =>
                Cardinality(Under(W, lt, v)) < Cardinality(Under(W, lt, w))
<1>1. ASSUME NEW w \in W
      PROVE  IsFiniteSet(Under(W, lt, w)) /\ Cardinality(Under(W, lt, w)) \in 0..(Cardinality(W) - 1)
  <2>1. Under(W, lt, w) \in SUBSET W /\ Under(W, lt, w) # W
    BY DEF Under, Ordering
  <2>2. /\ IsFiniteSet(Under(W, lt, w)) /\ Cardinality(Under(W, lt, w)) <= Cardinality(W)
        /\ Cardinality(W) # Cardinality(Under(W, lt, w))
    BY <2>1, FS_Subset
  <2>3. Cardinality(W) \in Nat /\ Cardinality(Under(W, lt, w)) \in Nat
    BY <2>2, FS_CardinalityType
  <2> QED  BY <2>2, <2>3
<1>2. ASSUME NEW v \in W, NEW w \in W, <<v, w>> \in lt
      PROVE  Cardinality(Under(W, lt, v)) < Cardinality(Under(W, lt, w))
  <2>1. Under(W, lt, v) \in SUBSET Under(W, lt, w)
    BY <1>2 DEF Under, Ordering
  <2>2. v \in Under(W, lt, w) /\ v \notin Under(W, lt, v)
    BY <1>2 DEF Under, Ordering
  <2>3. /\ Cardinality(Under(W, lt, v)) <= Cardinality(Under(W, lt, w))
        /\ Cardinality(Under(W, lt, w)) # Cardinality(Under(W, lt, v))
    BY <1>1, <2>1, <2>2, FS_Subset
  <2> QED  BY <1>1, <2>3
<1> QED  BY <1>1, <1>2

\* So no place is left free.
LEMMA EveryPlaceIsTaken ==
    ASSUME NEW W, IsFiniteSet(W), NEW lt, Ordering(W, lt), NEW k \in 0..(Cardinality(W) - 1)
    PROVE  \E w \in W : Cardinality(Under(W, lt, w)) = k
<1> DEFINE ahead == [w \in W |-> Cardinality(Under(W, lt, w))]
           T == 0..(Cardinality(W) - 1)
<1>1. ahead \in [W -> T]
  BY LaterHasMoreAhead
<1>2. \A v, w \in W : ahead[v] = ahead[w] => v = w
  <2> SUFFICES ASSUME NEW v \in W, NEW w \in W, v # w PROVE ahead[v] # ahead[w]
    OBVIOUS
  <2>1. <<v, w>> \in lt \/ <<w, v>> \in lt
    BY DEF Ordering
  <2>2. ahead[v] < ahead[w] \/ ahead[w] < ahead[v]
    BY <2>1, LaterHasMoreAhead
  <2>3. ahead[v] \in Int /\ ahead[w] \in Int
    BY LaterHasMoreAhead
  <2> HIDE DEF ahead
  <2> QED  BY <2>2, <2>3
<1>3. Cardinality(W) \in Nat /\ IsFiniteSet(T) /\ Cardinality(T) = Cardinality(W)
  <2>1. Cardinality(W) \in Nat
    BY FS_CardinalityType
  <2> DEFINE b == Cardinality(W) - 1
  <2>2. b \in Int /\ b >= -1 /\ Cardinality(W) = b + 1
    BY <2>1
  <2> HIDE DEF b
  <2>3. IsFiniteSet(0..b) /\ Cardinality(0..b) = IF 0 > b THEN 0 ELSE b - 0 + 1
    BY <2>2, FS_Interval
  <2> QED  BY <2>1, <2>2, <2>3 DEF b
<1> HIDE DEF ahead, T
<1>4. ahead \in Injection(W, T)
  BY <1>1, <1>2 DEF Injection, IsInjective
<1>5. ahead \in Surjection(W, T)
  BY <1>3, <1>4, FS_Injection
<1>6. \E w \in W : ahead[w] = k
  BY <1>5 DEF Surjection, T
<1> QED  BY <1>6 DEF ahead

-----------------------------------------------------------------------------
(***************************************************************************)
(* What a recursive definition over numbers rests on: values that follow   *)
(* from one another, and the largest of finitely many.                     *)
(***************************************************************************)

\* Values that follow from one another, from start, as many as there are numbers.
Levels(L, X, step, start) ==
    L \in [Nat -> X] /\ L[0] = start /\ \A n \in Nat : L[n + 1] = step[L[n]]

\* There are such values: those up to n exist for every n and agree.
LEMMA LevelsExist ==
    ASSUME NEW X, NEW step \in [X -> X], NEW start \in X
    PROVE  \E L : Levels(L, X, step, start)
<1> DEFINE Upto(n, h) == /\ h \in [0..n -> X] /\ h[0] = start
                         /\ \A i \in 1..n : h[i] = step[h[i - 1]]
           None == {n \in Nat : ~ \E h : Upto(n, h)}
           H(n) == CHOOSE h : Upto(n, h)
           L == [n \in Nat |-> H(n)[n]]
<1>1. None = {}
  <2> SUFFICES ASSUME None # {} PROVE FALSE
    OBVIOUS
  <2>1. PICK m \in None : \A l \in None : m <= l
    <3>1. None \subseteq Nat
      OBVIOUS
    <3> HIDE DEF None
    <3> QED  BY <3>1, LeastNumber
  <2>2. m \in Nat /\ ~ \E h : Upto(m, h)
    OBVIOUS
  <2>3. m # 0
    <3> DEFINE h == [i \in 0..0 |-> start]
    <3>1. Upto(0, h)
      OBVIOUS
    <3> HIDE DEF h, Upto
    <3> QED  BY <2>2, <3>1
  <2>4. m - 1 \in Nat /\ ~(m <= m - 1)
    BY <2>2, <2>3
  <2>5. PICK h : Upto(m - 1, h)
    <3> HIDE DEF Upto
    <3>1. m - 1 \notin None
      <4> HIDE DEF None
      <4> QED  BY <2>1, <2>4
    <3> QED  BY <2>4, <3>1
  <2> DEFINE k == [i \in 0..m |-> IF i = m THEN step[h[m - 1]] ELSE h[i]]
  <2>6. h[m - 1] \in X /\ step[h[m - 1]] \in X
    BY <2>4, <2>5
  <2>7. Upto(m, k)
    <3>1. k \in [0..m -> X]
      BY <2>2, <2>4, <2>5, <2>6
    <3>2. k[0] = start
      BY <2>2, <2>3, <2>5
    <3>3. ASSUME NEW i \in 1..m PROVE k[i] = step[k[i - 1]]
      BY <2>2, <2>5
    <3> QED  BY <3>1, <3>2, <3>3
  <2> HIDE DEF Upto, k
  <2> QED  BY <2>2, <2>7
<1>2. ASSUME NEW n \in Nat PROVE Upto(n, H(n))
  <2> HIDE DEF Upto
  <2>1. \E h : Upto(n, h)
    BY <1>1
  <2> QED  BY <2>1
<1> HIDE DEF H
<1>3. ASSUME NEW n \in Nat PROVE H(n + 1)[n] = H(n)[n]
  <2> DEFINE h == H(n)
             k == H(n + 1)
  <2>1. Upto(n, h) /\ Upto(n + 1, k)
    BY <1>2
  <2> HIDE DEF h, k
  <2>3. ASSUME NEW i \in 1..n, h[i - 1] = k[i - 1] PROVE h[i] = k[i]
    BY <2>1, <2>3
  <2> DEFINE Good == {i \in 0..n : h[i] = k[i]}
             e == [i \in 0..n |-> i]
  <2>4. e[0] \in Good
    BY <2>1
  <2>5. \A i \in 1..n : e[i - 1] \in Good => e[i] \in Good
    <3> SUFFICES ASSUME NEW i \in 1..n, e[i - 1] \in Good PROVE e[i] \in Good
      OBVIOUS
    <3>1. i - 1 \in 0..n /\ i \in 0..n
      OBVIOUS
    <3> QED  BY <2>3, <3>1
  <2>6. \A i \in 0..n : e[i] \in Good
    <3> HIDE DEF e, Good
    <3> QED  BY <2>4, <2>5, StepByStep
  <2>7. n \in 0..n
    OBVIOUS
  <2> QED  BY <2>6, <2>7 DEF h, k
<1>4. L \in [Nat -> X]
  <2> SUFFICES ASSUME NEW n \in Nat PROVE H(n)[n] \in X
    OBVIOUS
  <2>1. Upto(n, H(n)) /\ n \in 0..n
    BY <1>2
  <2> QED  BY <2>1
<1>5. L[0] = start
  <2>1. Upto(0, H(0))
    BY <1>2
  <2> QED  BY <2>1
<1>6. ASSUME NEW n \in Nat PROVE L[n + 1] = step[L[n]]
  <2>1. Upto(n + 1, H(n + 1)) /\ n + 1 \in 1..(n + 1) /\ n + 1 \in Nat /\ (n + 1) - 1 = n
    BY <1>2
  <2>2. H(n + 1)[n + 1] = step[H(n + 1)[n]]
    BY <2>1
  <2> QED  BY <1>3, <2>1, <2>2
<1> HIDE DEF L
<1>7. Levels(L, X, step, start)
  BY <1>4, <1>5, <1>6 DEF Levels
<1> QED  BY <1>7

\* Among finitely many numbers there is a largest one.
LEMMA LargestOf ==
    ASSUME NEW n \in Nat, n >= 1, NEW v \in [1..n -> Int]
    PROVE  LET S == {v[m] : m \in 1..n}
           IN  Max(S) \in S /\ \A x \in S : x <= Max(S)
<1> DEFINE S == {v[m] : m \in 1..n}
           Top(i, x) == x \in 1..n /\ \A m \in 1..i : v[m] <= v[x]
           e == [i \in 0..(n - 1) |-> i]
           Good == {i \in 0..(n - 1) : \E x : Top(i + 1, x)}
<1>1. e[0] \in Good
  <2>1. Top(0 + 1, 1) /\ 0 \in 0..(n - 1)
    OBVIOUS
  <2> HIDE DEF Top
  <2> QED  BY <2>1
<1>2. \A i \in 1..(n - 1) : e[i - 1] \in Good => e[i] \in Good
  <2> SUFFICES ASSUME NEW i \in 1..(n - 1), e[i - 1] \in Good PROVE e[i] \in Good
    OBVIOUS
  <2>1. i - 1 \in 0..(n - 1) /\ i \in 0..(n - 1) /\ (i - 1) + 1 = i /\ i + 1 \in 1..n
    OBVIOUS
  <2>2. PICK x : Top(i, x)
    <3> HIDE DEF Top
    <3> QED  BY <2>1
  <2>3. Top(i + 1, x) \/ Top(i + 1, i + 1)
    <3>1. v[x] \in Int /\ v[i + 1] \in Int /\ \A m \in 1..i : v[m] \in Int /\ v[m] <= v[x]
      BY <2>1, <2>2
    <3>2. \A m : m \in 1..(i + 1) <=> (m \in 1..i \/ m = i + 1)
      BY <2>1
    <3>3. CASE v[i + 1] <= v[x]
      BY <2>2, <3>1, <3>2, <3>3
    <3>4. CASE ~(v[i + 1] <= v[x])
      <4>1. \A m \in 1..i : v[m] <= v[i + 1]
        BY <3>1, <3>4
      <4>2. v[i + 1] <= v[i + 1]
        BY <3>1
      <4> QED  BY <2>1, <3>2, <4>1, <4>2
    <3> QED  BY <3>3, <3>4
  <2> HIDE DEF Top
  <2> QED  BY <2>1, <2>3
<1>3. n - 1 \in Nat /\ n - 1 \in 0..(n - 1) /\ (n - 1) + 1 = n
  OBVIOUS
<1>4. e[n - 1] \in Good
  <2> DEFINE l == n - 1
  <2>1. l \in Nat /\ l \in 0..l
    BY <1>3
  <2>2. \A i \in 0..l : e[i] \in Good
    <3> HIDE DEF e, Good, l
    <3>1. e[0] \in Good /\ \A i \in 1..l : e[i - 1] \in Good => e[i] \in Good
      BY <1>1, <1>2 DEF l
    <3> QED  BY <2>1, <3>1, StepByStep
  <2> QED  BY <2>1, <2>2
<1>5. PICK x : Top(n, x)
  <2> HIDE DEF Top
  <2> QED  BY <1>3, <1>4
<1>6. v[x] \in S /\ \A y \in S : v[x] >= y
  BY <1>5
<1>7. Max(S) \in S /\ \A y \in S : Max(S) >= y
  <2> HIDE DEF S
  <2> QED  BY <1>6 DEF Max
<1>8. S \subseteq Int
  OBVIOUS
<1> HIDE DEF S
<1>9. \A y \in S : y <= Max(S)
  BY <1>7, <1>8
<1> QED  BY <1>7, <1>9 DEF S
=============================================================================
