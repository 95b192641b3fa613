--------------------------- MODULE RgaTextProofs ---------------------------
(***************************************************************************)
(* The text of RgaText for every number of islands and of operations, when *)
(* operations are gossiped one at a time in any order and when islands     *)
(* exchange deltas and merges.                                             *)
(*                                                                         *)
(* Convergence: items, pending and applied deletes are a function of the   *)
(* SET of operations integrated (Reflects).  That needs every id to name   *)
(* one operation, which holds because an island's counter is above every   *)
(* id it ever gave out, wherever the operation has travelled (IdsBelow).   *)
(*                                                                         *)
(* Order: every character has a rank above that of its parent (TextInv),   *)
(* so the characters of all islands form one forest, and the walk of any   *)
(* part of it follows one strict order of the whole (Precedes).            *)
(*                                                                         *)
(* Causality: every log, and every delta on its way, holds for each of its *)
(* operations all earlier ones of the same agent and those it depends on,  *)
(* or its receiver does (Fits); a version vector is attained (VectorExact).*)
(***************************************************************************)
EXTENDS RgaText, Sums, SequenceTheorems, TLAPS

-----------------------------------------------------------------------------
(***************************************************************************)
(* The tree of characters.  G is a set of ids, up[x] what x was inserted   *)
(* after, and the rank of x is above that of up[x].                        *)
(***************************************************************************)
Rooted(G, up, rank) ==
    \A x \in G : /\ rank[x] \in Nat
                 /\ up[x] \in G => rank[up[x]] < rank[x]

Climbing(U, G, up) == \A u \in U : up[u] \in G => up[u] \in U

\* x and what it hangs from, up to a child of the document start.
Line(x, G, up) == {a \in G : \A U \in SUBSET G : x \in U /\ Climbing(U, G, up) => a \in U}

LEMMA LineClimbs ==
    ASSUME NEW G, NEW up, NEW x \in G
    PROVE  /\ x \in Line(x, G, up)
           /\ Line(x, G, up) \in SUBSET G
           /\ Climbing(Line(x, G, up), G, up)
           /\ \A U \in SUBSET G : x \in U /\ Climbing(U, G, up) => Line(x, G, up) \subseteq U
BY DEF Line, Climbing

LEMMA LinesNest ==
    ASSUME NEW G, NEW up, NEW x \in G, NEW b \in Line(x, G, up)
    PROVE  b \in G /\ Line(b, G, up) \subseteq Line(x, G, up)
<1>1. b \in G
  BY LineClimbs
<1> QED  BY <1>1, LineClimbs

LEMMA LineStep ==
    ASSUME NEW G, NEW up, NEW x \in G
    PROVE  /\ up[x] \in G => Line(x, G, up) = {x} \cup Line(up[x], G, up)
           /\ up[x] \notin G => Line(x, G, up) = {x}
<1> DEFINE L == Line(x, G, up)
<1>1. x \in L /\ L \in SUBSET G /\ Climbing(L, G, up)
  BY LineClimbs
<1>2. ASSUME up[x] \in G PROVE L = {x} \cup Line(up[x], G, up)
  <2> DEFINE M == Line(up[x], G, up)
  <2>1. up[x] \in M /\ M \in SUBSET G /\ Climbing(M, G, up)
    BY <1>2, LineClimbs
  <2>2. up[x] \in L
    BY <1>1, <1>2 DEF Climbing
  <2>3. M \subseteq L
    BY <2>2, LinesNest
  <2>4. {x} \cup M \in SUBSET G /\ Climbing({x} \cup M, G, up)
    BY <2>1 DEF Climbing
  <2>5. L \subseteq {x} \cup M
    BY <2>4, LineClimbs
  <2> QED  BY <1>1, <2>3, <2>5
<1>3. ASSUME up[x] \notin G PROVE L = {x}
  <2>1. {x} \in SUBSET G /\ Climbing({x}, G, up)
    BY <1>3 DEF Climbing
  <2> QED  BY <1>1, <2>1, LineClimbs
<1> QED  BY <1>2, <1>3

LEMMA LineRanks ==
    ASSUME NEW G, NEW up, NEW rank, Rooted(G, up, rank), NEW x \in G, NEW a \in Line(x, G, up)
    PROVE  rank[a] \in Nat /\ rank[x] \in Nat /\ rank[a] <= rank[x] /\ (a # x => rank[a] < rank[x])
<1>1. ASSUME NEW y \in G, NEW b \in Line(y, G, up)
      PROVE  rank[b] \in Nat /\ rank[y] \in Nat /\ rank[b] <= rank[y]
  <2> DEFINE U == {u \in G : rank[u] <= rank[y]}
  <2>1. \A u \in G : rank[u] \in Nat /\ (up[u] \in G => rank[up[u]] < rank[u] /\ rank[up[u]] \in Nat)
    BY DEF Rooted
  <2>2. ASSUME NEW u \in U, up[u] \in G PROVE up[u] \in U
    BY <2>1, <2>2
  <2>3. U \in SUBSET G /\ y \in U /\ Climbing(U, G, up)
    BY <2>1, <2>2 DEF Climbing
  <2>4. b \in U
    BY <2>3, LineClimbs
  <2> QED  BY <2>1, <2>4
<1>2. ASSUME a # x PROVE rank[a] < rank[x]
  <2>1. up[x] \in G /\ a \in Line(up[x], G, up)
    BY <1>2, LineStep
  <2>2. rank[up[x]] < rank[x]
    BY <2>1 DEF Rooted
  <2> QED  BY <1>1, <2>1, <2>2
<1> QED  BY <1>1, <1>2

\* Of two ids on one line, one hangs from the other.
LEMMA LineIsLinear ==
    ASSUME NEW G, NEW up, NEW x \in G, NEW a \in Line(x, G, up), NEW b \in Line(x, G, up)
    PROVE  a \in Line(b, G, up) \/ b \in Line(a, G, up)
<1> DEFINE L == Line(x, G, up)
           V == {c \in L : \A d \in L : c \in Line(d, G, up) \/ d \in Line(c, G, up)}
<1>1. x \in L /\ L \in SUBSET G /\ Climbing(L, G, up)
  BY LineClimbs
<1>2. x \in V /\ V \in SUBSET G
  BY <1>1
<1>3. ASSUME NEW c \in V, up[c] \in G PROVE up[c] \in V
  <2>1. c \in G /\ up[c] \in L
    BY <1>1, <1>3 DEF Climbing
  <2>2. ASSUME NEW d \in L PROVE up[c] \in Line(d, G, up) \/ d \in Line(up[c], G, up)
    <3>1. CASE c \in Line(d, G, up)
      <4>1. d \in G /\ Climbing(Line(d, G, up), G, up)
        BY <1>1, LineClimbs
      <4> QED  BY <1>3, <3>1, <4>1 DEF Climbing
    <3>2. CASE d \in Line(c, G, up)
      <4>1. d = c \/ d \in Line(up[c], G, up)
        BY <1>3, <2>1, <3>2, LineStep
      <4>2. up[c] \in Line(c, G, up)
        BY <1>3, <2>1, LineStep, LineClimbs
      <4> QED  BY <4>1, <4>2
    <3> QED  BY <3>1, <3>2
  <2> QED  BY <2>1, <2>2
<1>4. L \subseteq V
  <2>1. Climbing(V, G, up)
    BY <1>3 DEF Climbing
  <2> HIDE DEF V
  <2> QED  BY <1>2, <2>1, LineClimbs
<1> QED  BY <1>4

\* A line holds one child of each id.
LEMMA OneChildOnALine ==
    ASSUME NEW G, NEW up, NEW rank, Rooted(G, up, rank), NEW x \in G,
           NEW a \in Line(x, G, up), NEW b \in Line(x, G, up), up[a] = up[b]
    PROVE  a = b
<1>1. ASSUME NEW c \in G, NEW d \in G, up[c] = up[d], c \in Line(d, G, up), c # d PROVE FALSE
  <2>1. up[c] \in G /\ c \in Line(up[c], G, up)
    BY <1>1, LineStep
  <2>2. rank[c] <= rank[up[c]] /\ rank[c] \in Nat /\ rank[up[c]] \in Nat /\ rank[up[c]] < rank[c]
    BY <2>1, LineRanks DEF Rooted
  <2> QED  BY <2>2
<1>2. a \in G /\ b \in G
  BY LineClimbs
<1> QED  BY <1>1, <1>2, LineIsLinear

-----------------------------------------------------------------------------
\* The order of two characters: what hangs from another comes after it, and of
\* two siblings the one with the higher id comes first, with all its offspring.
Beside(x, y, G, up) ==
    \E a \in Line(x, G, up), b \in Line(y, G, up) : up[a] = up[b] /\ Above(a, b)

Precedes(x, y, G, up) ==
    \/ x # y /\ x \in Line(y, G, up)
    \/ Beside(x, y, G, up)

\* Ids are pairs of numbers, compared as such.
Comparable(G) ==
    \A x \in G : /\ x = [agent |-> x.agent, seq |-> x.seq]
                 /\ x.agent \in Nat /\ x.seq \in Nat

LEMMA AboveIsStrict ==
    ASSUME NEW G, Comparable(G), NEW x \in G, NEW y \in G
    PROVE  Above(x, y) => x # y /\ ~Above(y, x)
BY DEF Comparable, Above

LEMMA HangingIsNotBeside ==
    ASSUME NEW G, NEW up, NEW rank, Rooted(G, up, rank), Comparable(G), NEW x \in G, NEW y \in G,
           x \in Line(y, G, up)
    PROVE  ~Beside(x, y, G, up) /\ ~Beside(y, x, G, up)
<1>1. Line(x, G, up) \subseteq Line(y, G, up) /\ Line(y, G, up) \subseteq G
  BY LinesNest, LineClimbs
<1>2. ASSUME NEW a \in Line(y, G, up), NEW b \in Line(y, G, up), up[a] = up[b] PROVE ~Above(a, b)
  <2>1. a = b
    BY <1>2, OneChildOnALine
  <2> QED  BY <1>1, <2>1, AboveIsStrict
<1> QED  BY <1>1, <1>2 DEF Beside

LEMMA BesideIsStrict ==
    ASSUME NEW G, NEW up, NEW rank, Rooted(G, up, rank), Comparable(G), NEW x \in G, NEW y \in G,
           Beside(x, y, G, up)
    PROVE  ~Beside(y, x, G, up)
<1> SUFFICES ASSUME Beside(y, x, G, up) PROVE FALSE
  OBVIOUS
<1>1. PICK a \in Line(x, G, up), b \in Line(y, G, up) : up[a] = up[b] /\ Above(a, b)
  BY DEF Beside
<1>2. PICK c \in Line(y, G, up), d \in Line(x, G, up) : up[c] = up[d] /\ Above(c, d)
  BY DEF Beside
<1>3. a \in G /\ b \in G /\ c \in G /\ d \in G
  BY LineClimbs
<1>4. a # b /\ c # d
  BY <1>1, <1>2, <1>3, AboveIsStrict
<1>5. a # d
  <2> SUFFICES ASSUME a = d PROVE FALSE
    OBVIOUS
  <2>1. b = c
    BY <1>1, <1>2, OneChildOnALine
  <2> QED  BY <1>1, <1>2, <1>3, <2>1, AboveIsStrict
\* Whichever of a and d hangs from the other, two siblings are on one line.
<1>6. ASSUME NEW p \in G, NEW q \in G, NEW s \in G, p \in Line(q, G, up), p # q, up[s] = up[q]
      PROVE  p \in Line(s, G, up)
  <2>1. up[q] \in G /\ p \in Line(up[q], G, up)
    BY <1>6, LineStep
  <2> QED  BY <1>6, <2>1, LineStep
<1>7. CASE a \in Line(d, G, up)
  <2>1. a \in Line(c, G, up)
    BY <1>2, <1>3, <1>5, <1>6, <1>7
  <2>2. a \in Line(y, G, up)
    BY <2>1, LinesNest
  <2> QED  BY <1>1, <1>4, <2>2, OneChildOnALine
<1>8. CASE d \in Line(a, G, up)
  <2>1. d \in Line(b, G, up)
    BY <1>1, <1>3, <1>5, <1>6, <1>8
  <2>2. d \in Line(y, G, up)
    BY <2>1, LinesNest
  <2> QED  BY <1>2, <1>4, <2>2, OneChildOnALine
<1> QED  BY <1>7, <1>8, LineIsLinear

LEMMA PrecedesIsStrict ==
    ASSUME NEW G, NEW up, NEW rank, Rooted(G, up, rank), Comparable(G), NEW x \in G, NEW y \in G,
           Precedes(x, y, G, up)
    PROVE  ~Precedes(y, x, G, up)
<1>1. CASE x # y /\ x \in Line(y, G, up)
  <2>1. ~Beside(y, x, G, up)
    BY <1>1, HangingIsNotBeside
  <2>2. y \notin Line(x, G, up)
    <3> SUFFICES ASSUME y \in Line(x, G, up) PROVE FALSE
      OBVIOUS
    <3>1. rank[x] < rank[y] /\ rank[x] \in Nat /\ rank[y] \in Nat
      BY <1>1, LineRanks
    <3>2. rank[y] < rank[x]
      BY <1>1, LineRanks
    <3> QED  BY <3>1, <3>2
  <2> QED  BY <2>1, <2>2 DEF Precedes
<1>2. CASE Beside(x, y, G, up)
  <2>1. ~Beside(y, x, G, up)
    BY <1>2, BesideIsStrict
  <2>2. y \notin Line(x, G, up)
    BY <1>2, HangingIsNotBeside
  <2> QED  BY <2>1, <2>2 DEF Precedes
<1> QED  BY <1>1, <1>2 DEF Precedes

-----------------------------------------------------------------------------
(***************************************************************************)
(* Depth first walks of a forest: the walk of a set of ids is the one      *)
(* picked, the walk of its kids, and the walk of the others.               *)
(***************************************************************************)
Branching(D, K, pick, c, N) ==
    /\ IsFiniteSet(D)
    /\ K \in [D -> SUBSET D]
    /\ \A s \in SUBSET D : s # {} => pick[s] \in s
    /\ N \in Nat
    /\ \A x \in D : c[x] \in 0..N /\ \A y \in K[x] : c[y] < c[x]

\* What holds of the empty set, and of a set when it holds of the kids of the
\* one picked and of the others, holds of every set.
LEMMA ForestInduction ==
    ASSUME NEW D, NEW K, NEW pick, NEW c, NEW N, Branching(D, K, pick, c, N),
           NEW Good, {} \in Good,
           \A s \in SUBSET D :
               s # {} /\ K[pick[s]] \in Good /\ s \ {pick[s]} \in Good => s \in Good
    PROVE  \A s \in SUBSET D : s \in Good
<1> DEFINE Low(b) == {x \in D : c[x] < b}
           Q(b) == {s \in SUBSET Low(b) : s \notin Good}
           T == {b \in Nat : Q(b) # {}}
<1>1. T = {}
  <2> SUFFICES ASSUME T # {} PROVE FALSE
    OBVIOUS
  <2>1. PICK b \in T : \A a \in T : b <= a
    <3>1. T \subseteq Nat
      OBVIOUS
    <3> HIDE DEF T
    <3> QED  BY <3>1, LeastNumber
  <2>2. Low(b) \in SUBSET D /\ IsFiniteSet(Low(b))
    <3>1. Low(b) \in SUBSET D
      OBVIOUS
    <3> HIDE DEF Low
    <3> QED  BY <3>1, FS_Subset DEF Branching
  <2>3. PICK s \in Q(b) : \A x \in s : s \ {x} \notin Q(b)
    <3>1. Q(b) \subseteq SUBSET Low(b) /\ Q(b) # {}
      BY <2>1
    <3> HIDE DEF Q, Low
    <3> QED  BY <2>2, <3>1, SmallestSet
  <2>4. s \in SUBSET D /\ s # {} /\ s \notin Good
    BY <2>2, <2>3
  <2> DEFINE x == pick[s]
  <2>5. x \in s /\ x \in D /\ c[x] < b /\ c[x] \in Nat /\ b \in Nat
    <3>1. x \in s /\ x \in D /\ c[x] \in Nat
      BY <2>4 DEF Branching
    <3> HIDE DEF x
    <3> QED  BY <2>1, <2>3, <3>1
  <2>6. s \ {x} \in Good
    <3> HIDE DEF x
    <3>1. s \ {x} \in SUBSET Low(b) /\ s \ {x} \notin Q(b)
      BY <2>3, <2>5
    <3> QED  BY <3>1
  <2>7. K[x] \in Good
    <3> HIDE DEF x
    <3>1. \A y \in K[x] : y \in D /\ c[y] < c[x] /\ c[y] \in Nat
      BY <2>5 DEF Branching
    <3>2. b - 1 \in Nat /\ K[x] \in SUBSET Low(b - 1)
      BY <2>5, <3>1
    <3>3. b - 1 \notin T
      <4>1. ~(b <= b - 1)
        BY <2>5
      <4> HIDE DEF T
      <4> QED  BY <2>1, <4>1
    <3>4. Q(b - 1) = {}
      BY <3>2, <3>3
    <3> HIDE DEF Low
    <3> QED  BY <3>2, <3>4
  <2> QED  BY <2>4, <2>6, <2>7
<1>2. ASSUME NEW s \in SUBSET D PROVE s \in Good
  <2>1. N + 1 \in Nat /\ s \in SUBSET Low(N + 1)
    BY DEF Branching
  <2>2. Q(N + 1) = {}
    BY <1>1, <2>1
  <2> HIDE DEF Low
  <2> QED  BY <2>1, <2>2
<1> QED  BY <1>2

LEMMA Joined ==
    ASSUME NEW D, NEW x \in D, NEW s \in Seq(D), NEW t \in Seq(D)
    PROVE  LET u == <<x>> \o s \o t IN
           /\ u \in Seq(D)
           /\ Len(s) \in Nat /\ Len(t) \in Nat /\ Len(u) = 1 + Len(s) + Len(t)
           /\ u[1] = x
           /\ \A i \in 1..Len(s) : u[1 + i] = s[i]
           /\ \A i \in 1..Len(t) : u[1 + Len(s) + i] = t[i]
<1> DEFINE e == <<x>>
           v == e \o s
           u == v \o t
<1>1. e \in Seq(D) /\ Len(e) = 1 /\ e[1] = x
  OBVIOUS
<1>2. Len(s) \in Nat /\ Len(t) \in Nat
  BY LenProperties
<1> HIDE DEF e
<1>3. /\ v \in Seq(D) /\ Len(v) = 1 + Len(s)
      /\ \A i \in 1..(1 + Len(s)) : v[i] = IF i <= 1 THEN e[i] ELSE s[i - 1]
  <2>1. /\ v \in Seq(D) /\ Len(v) = Len(e) + Len(s)
        /\ \A i \in 1..(Len(e) + Len(s)) : v[i] = IF i <= Len(e) THEN e[i] ELSE s[i - Len(e)]
    BY <1>1, ConcatProperties
  <2> QED  BY <1>1, <2>1
<1> HIDE DEF v
<1>4. /\ u \in Seq(D) /\ Len(u) = 1 + Len(s) + Len(t)
      /\ \A i \in 1..(1 + Len(s) + Len(t)) : u[i] = IF i <= 1 + Len(s) THEN v[i] ELSE t[i - (1 + Len(s))]
  <2>1. /\ u \in Seq(D) /\ Len(u) = Len(v) + Len(t)
        /\ \A i \in 1..(Len(v) + Len(t)) : u[i] = IF i <= Len(v) THEN v[i] ELSE t[i - Len(v)]
    BY <1>3, ConcatProperties
  <2> QED  BY <1>3, <2>1
<1> HIDE DEF u
<1>5. u[1] = x
  BY <1>1, <1>2, <1>3, <1>4
<1>6. ASSUME NEW i \in 1..Len(s) PROVE u[1 + i] = s[i]
  BY <1>2, <1>3, <1>4
<1>7. ASSUME NEW i \in 1..Len(t) PROVE u[1 + Len(s) + i] = t[i]
  BY <1>2, <1>4
<1> QED  BY <1>2, <1>4, <1>5, <1>6, <1>7 DEF u, v, e

WalkStep(f, K, x, others) == <<x>> \o f[K[x]] \o f[others]

WalkRule(f, D, K, pick) ==
    [ids \in SUBSET D |-> IF ids = {} THEN << >> ELSE WalkStep(f, K, pick[ids], ids \ {pick[ids]})]

LEMMA WalkTyped ==
    ASSUME NEW D, NEW K, NEW pick, NEW c, NEW N, Branching(D, K, pick, c, N),
           NEW f, f = WalkRule(f, D, K, pick)
    PROVE  f \in [SUBSET D -> Seq(D)]
<1> DEFINE Good == {s \in SUBSET D : f[s] \in Seq(D)}
<1>1. f = [s \in SUBSET D |-> f[s]]
  BY DEF WalkRule
<1>2. f[{}] = << >> /\ \A s \in SUBSET D : s # {} => f[s] = WalkStep(f, K, pick[s], s \ {pick[s]})
  BY DEF WalkRule
<1>3. {} \in Good
  BY <1>2, EmptySeq
<1>4. ASSUME NEW s \in SUBSET D, s # {}, K[pick[s]] \in Good, s \ {pick[s]} \in Good
      PROVE  s \in Good
  <2>1. pick[s] \in D
    BY <1>4 DEF Branching
  <2>2. f[K[pick[s]]] \in Seq(D) /\ f[s \ {pick[s]}] \in Seq(D)
    BY <1>4
  <2>3. WalkStep(f, K, pick[s], s \ {pick[s]}) \in Seq(D)
    BY <2>1, <2>2, Joined DEF WalkStep
  <2>4. f[s] \in Seq(D)
    BY <1>2, <1>4, <2>3
  <2> QED  BY <2>4
<1>5. \A s \in SUBSET D : s \in Good
  <2> HIDE DEF Good
  <2> QED  BY <1>3, <1>4, ForestInduction
<1> QED  BY <1>1, <1>5

LEMMA WalkExists ==
    ASSUME NEW D, NEW K, NEW pick, NEW c, NEW N, Branching(D, K, pick, c, N)
    PROVE  \E f : f = WalkRule(f, D, K, pick)
<1> DEFINE X == [SUBSET D -> Seq(D)]
           step == [f \in X |-> WalkRule(f, D, K, pick)]
           start == [s \in SUBSET D |-> << >>]
<1>1. start \in X
  BY EmptySeq
<1>2. ASSUME NEW f \in X PROVE WalkRule(f, D, K, pick) \in X
  <2>1. ASSUME NEW s \in SUBSET D, s # {} PROVE WalkStep(f, K, pick[s], s \ {pick[s]}) \in Seq(D)
    <3>1. pick[s] \in D /\ K[pick[s]] \in SUBSET D /\ s \ {pick[s]} \in SUBSET D
      BY <2>1 DEF Branching
    <3>2. f[K[pick[s]]] \in Seq(D) /\ f[s \ {pick[s]}] \in Seq(D)
      BY <1>2, <3>1
    <3> QED  BY <3>1, <3>2, Joined DEF WalkStep
  <2>2. << >> \in Seq(D)
    BY EmptySeq
  <2> QED  BY <2>1, <2>2 DEF WalkRule
<1>3. step \in [X -> X]
  BY <1>2
<1>4. PICK L : Levels(L, X, step, start)
  <2> HIDE DEF X, step, start
  <2> QED  BY <1>1, <1>3, LevelsExist
<1>5. \A n \in Nat : L[n] \in X /\ L[n + 1] = WalkRule(L[n], D, K, pick)
  <2>1. \A n \in Nat : L[n] \in X /\ L[n + 1] = step[L[n]]
    BY <1>4 DEF Levels
  <2> QED  BY <2>1
<1> HIDE DEF X, step, start
\* Every set settles: from some level on its walk is the same.
<1> DEFINE From(n, s) == \A m \in Nat : m >= n => L[m][s] = L[n][s]
           Good == {s \in SUBSET D : \E n \in Nat : From(n, s)}
<1>6. {} \in Good
  <2>1. ASSUME NEW m \in Nat, m >= 1 PROVE L[m][{}] = << >>
    <3>1. m - 1 \in Nat /\ m = (m - 1) + 1
      BY <2>1
    <3>2. L[m] = WalkRule(L[m - 1], D, K, pick)
      BY <1>5, <3>1
    <3> QED  BY <3>2 DEF WalkRule
  <2>2. From(1, {})
    BY <2>1
  <2> HIDE DEF From
  <2> QED  BY <2>2
<1>7. ASSUME NEW s \in SUBSET D, s # {}, K[pick[s]] \in Good, s \ {pick[s]} \in Good
      PROVE  s \in Good
  <2> DEFINE k == K[pick[s]]
             o == s \ {pick[s]}
  <2>1. PICK a \in Nat : From(a, k)
    <3> HIDE DEF From
    <3> QED  BY <1>7
  <2>2. PICK b \in Nat : From(b, o)
    <3> HIDE DEF From
    <3> QED  BY <1>7
  <2> HIDE DEF k, o
  <2> DEFINE n == a + b
  <2>3. n \in Nat
    OBVIOUS
  <2>4. ASSUME NEW m \in Nat, m >= n PROVE L[m][k] = L[n][k] /\ L[m][o] = L[n][o]
    <3>1. m >= a /\ m >= b /\ n >= a /\ n >= b
      BY <2>4
    <3> HIDE DEF n
    <3>2. L[m][k] = L[a][k] /\ L[n][k] = L[a][k]
      BY <2>1, <2>3, <3>1
    <3>3. L[m][o] = L[b][o] /\ L[n][o] = L[b][o]
      BY <2>2, <2>3, <3>1
    <3> QED  BY <3>2, <3>3
  <2> HIDE DEF n
  <2>5. ASSUME NEW m \in Nat, m >= n PROVE L[m + 1][s] = <<pick[s]>> \o L[n][k] \o L[n][o]
    <3>1. L[m + 1][s] = WalkStep(L[m], K, pick[s], s \ {pick[s]})
      BY <1>5, <1>7 DEF WalkRule
    <3> QED  BY <2>4, <2>5, <3>1 DEF WalkStep, k, o
  <2>6. ASSUME NEW m \in Nat, m >= n + 1 PROVE L[m][s] = L[n + 1][s]
    <3>1. m - 1 \in Nat /\ m - 1 >= n /\ m = (m - 1) + 1 /\ n >= n
      BY <2>3, <2>6
    <3>2. L[(m - 1) + 1][s] = <<pick[s]>> \o L[n][k] \o L[n][o]
      BY <2>5, <3>1
    <3>3. L[n + 1][s] = <<pick[s]>> \o L[n][k] \o L[n][o]
      BY <2>3, <2>5, <3>1
    <3> QED  BY <3>1, <3>2, <3>3
  <2>7. From(n + 1, s) /\ n + 1 \in Nat
    BY <2>3, <2>6
  <2> HIDE DEF From
  <2> QED  BY <2>7
<1>8. \A s \in SUBSET D : \E n \in Nat : From(n, s)
  <2>1. \A s \in SUBSET D : s \in Good
    <3> HIDE DEF Good
    <3> QED  BY <1>6, <1>7, ForestInduction
  <2> QED  BY <2>1
<1> DEFINE at == [s \in SUBSET D |-> CHOOSE n \in Nat : From(n, s)]
           f == [s \in SUBSET D |-> L[at[s]][s]]
<1>9. ASSUME NEW s \in SUBSET D, NEW m \in Nat, m >= at[s] PROVE at[s] \in Nat /\ f[s] = L[m][s]
  <2>1. at[s] \in Nat /\ From(at[s], s)
    <3> HIDE DEF From
    <3> QED  BY <1>8
  <2> HIDE DEF at
  <2> QED  BY <1>9, <2>1
<1>10. \A s \in SUBSET D : at[s] \in Nat
  <2> HIDE DEF From
  <2> QED  BY <1>8
<1>11. ASSUME NEW s \in SUBSET D, s # {} PROVE f[s] = WalkStep(f, K, pick[s], s \ {pick[s]})
  <2> DEFINE k == K[pick[s]]
             o == s \ {pick[s]}
             m == at[s] + at[k] + at[o]
  <2>1. k \in SUBSET D /\ o \in SUBSET D
    BY <1>11 DEF Branching
  <2> HIDE DEF k, o, at
  <2>2. m \in Nat /\ m + 1 >= at[s] /\ m >= at[k] /\ m >= at[o] /\ m + 1 \in Nat
    BY <1>10, <2>1
  <2> HIDE DEF m, f
  <2>3. f[s] = L[m + 1][s] /\ f[k] = L[m][k] /\ f[o] = L[m][o]
    BY <1>9, <2>1, <2>2
  <2>4. L[m + 1][s] = WalkStep(L[m], K, pick[s], s \ {pick[s]})
    BY <1>5, <1>11, <2>2 DEF WalkRule
  <2> QED  BY <2>3, <2>4 DEF WalkStep, k, o
<1>12. f[{}] = << >>
  <2> DEFINE m == at[{}] + 1
  <2>1. m \in Nat /\ m - 1 \in Nat /\ m = (m - 1) + 1 /\ m >= at[{}]
    <3> HIDE DEF at
    <3> QED  BY <1>10
  <2> HIDE DEF at, m, f
  <2>2. f[{}] = L[m][{}]
    BY <1>9, <2>1
  <2>3. L[m] = WalkRule(L[m - 1], D, K, pick)
    BY <1>5, <2>1
  <2> QED  BY <2>2, <2>3 DEF WalkRule
<1>13. f = [s \in SUBSET D |-> f[s]]
  OBVIOUS
<1> HIDE DEF f
<1>14. f = WalkRule(f, D, K, pick)
  BY <1>11, <1>12, <1>13 DEF WalkRule
<1> QED  BY <1>14

-----------------------------------------------------------------------------
\* A finite set of ids has a highest one.
LEMMA HighestIsAbove ==
    ASSUME NEW S, IsFiniteSet(S), Comparable(S), NEW s \in SUBSET S, s # {}
    PROVE  Highest(s) \in s /\ \A o \in s \ {Highest(s)} : Above(Highest(s), o)
<1> DEFINE Tops(t) == {x \in t : \A o \in t \ {x} : Above(x, o)}
           Q == {t \in SUBSET S : t # {} /\ Tops(t) = {}}
<1>1. Q = {}
  <2> SUFFICES ASSUME Q # {} PROVE FALSE
    OBVIOUS
  <2>1. PICK t \in Q : \A x \in t : t \ {x} \notin Q
    <3>1. Q \subseteq SUBSET S
      OBVIOUS
    <3> HIDE DEF Q
    <3> QED  BY <3>1, SmallestSet
  <2>2. PICK x \in t : TRUE
    OBVIOUS
  <2>3. t \ {x} # {}
    <3> SUFFICES ASSUME t \ {x} = {} PROVE FALSE
      OBVIOUS
    <3>1. x \in Tops(t)
      OBVIOUS
    <3> QED  BY <2>1, <3>1
  <2>4. PICK m \in t \ {x} : \A o \in t \ {x, m} : Above(m, o)
    <3>1. t \ {x} \notin Q /\ t \ {x} \in SUBSET S
      BY <2>1, <2>2
    <3>2. PICK m : m \in Tops(t \ {x})
      BY <2>3, <3>1
    <3> QED  BY <3>2
  <2>5. /\ x \in S /\ m \in S /\ x # m
        /\ \A o \in S : o.agent \in Nat /\ o.seq \in Nat /\ o = [agent |-> o.agent, seq |-> o.seq]
    BY <2>2, <2>4 DEF Comparable
  <2>6. Above(x, m) \/ Above(m, x)
    <3>1. x.agent # m.agent \/ x.seq # m.seq
      BY <2>5
    <3>2. x.agent \in Nat /\ m.agent \in Nat /\ x.seq \in Nat /\ m.seq \in Nat
      BY <2>5
    <3> QED  BY <3>1, <3>2 DEF Above
  <2>7. CASE Above(m, x)
    <3>1. m \in Tops(t)
      BY <2>4, <2>7
    <3> QED  BY <2>1, <3>1
  <2>8. CASE Above(x, m)
    <3>1. ASSUME NEW o \in t \ {x} PROVE Above(x, o)
      <4>1. CASE o = m
        BY <2>8, <4>1
      <4>2. CASE o # m
        <5>1. Above(m, o) /\ o \in S
          BY <2>4, <4>2
        <5>2. /\ x.agent \in Nat /\ x.seq \in Nat /\ m.agent \in Nat /\ m.seq \in Nat
              /\ o.agent \in Nat /\ o.seq \in Nat
          BY <2>5, <5>1
        <5> QED  BY <2>8, <5>1, <5>2 DEF Above
      <4> QED  BY <4>1, <4>2
    <3>2. x \in Tops(t)
      BY <2>2, <3>1
    <3> QED  BY <2>1, <3>2
  <2> QED  BY <2>6, <2>7, <2>8
<1>2. PICK x \in s : \A o \in s \ {x} : Above(x, o)
  BY <1>1
<1> QED  BY <1>2 DEF Highest

\* The items of an island are part of the forest of all characters.
Forest(G, up, rank, N) ==
    /\ IsFiniteSet(G)
    /\ Comparable(G)
    /\ Rooted(G, up, rank)
    /\ N \in Nat /\ \A x \in G : rank[x] <= N

Growing(D, G, up, K, pick) ==
    /\ D \subseteq G
    /\ \A p \in D : K[p] = {id \in D : up[id] = p}
    /\ \A s \in SUBSET D : \A o \in s \ {pick[s]} : Above(pick[s], o)

LEMMA WalkStaysUnder ==
    ASSUME NEW D, NEW K, NEW pick, NEW c, NEW N, Branching(D, K, pick, c, N),
           NEW f, f = WalkRule(f, D, K, pick),
           NEW G, NEW up, Growing(D, G, up, K, pick)
    PROVE  \A s \in SUBSET D : \A i \in 1..Len(f[s]) : \E a \in s : a \in Line(f[s][i], G, up)
<1> DEFINE Hangs(s) == \A i \in 1..Len(f[s]) : \E a \in s : a \in Line(f[s][i], G, up)
           Good == {s \in SUBSET D : Hangs(s)}
<1>1. f \in [SUBSET D -> Seq(D)]
  BY WalkTyped
<1>2. {} \in Good
  <2>1. f[{}] = << >> /\ Len(<< >>) = 0 /\ 1..0 = {}
    BY EmptySeq DEF WalkRule
  <2> QED  BY <2>1
<1>3. ASSUME NEW s \in SUBSET D, s # {}, K[pick[s]] \in Good, s \ {pick[s]} \in Good
      PROVE  s \in Good
  <2> DEFINE x == pick[s]
             k == K[x]
             o == s \ {x}
             p == f[k]
             q == f[o]
             u == f[s]
  <2>1. x \in s /\ x \in D /\ x \in G /\ k \in SUBSET D /\ o \in SUBSET D /\ k = {id \in D : up[id] = x}
    BY <1>3 DEF Branching, Growing
  <2>2. Hangs(k) /\ Hangs(o)
    BY <1>3
  <2>3. p \in Seq(D) /\ q \in Seq(D)
    BY <1>1, <2>1
  <2>4. u = <<x>> \o p \o q
    BY <1>3 DEF WalkRule, WalkStep
  <2> HIDE DEF x, k, o, u, p, q
  <2>5. /\ Len(p) \in Nat /\ Len(q) \in Nat /\ Len(u) = 1 + Len(p) + Len(q)
        /\ u[1] = x
        /\ \A i \in 1..Len(p) : u[1 + i] = p[i]
        /\ \A i \in 1..Len(q) : u[1 + Len(p) + i] = q[i]
    BY <2>1, <2>3, <2>4, Joined
  <2>6. ASSUME NEW i \in 1..Len(u) PROVE \E a \in s : a \in Line(u[i], G, up)
    <3>1. CASE i = 1
      BY <2>1, <2>5, <3>1, LineClimbs
    <3>2. CASE i \in 2..(1 + Len(p))
      <4>1. i - 1 \in 1..Len(p) /\ i = 1 + (i - 1)
        BY <2>5, <3>2
      <4>2. u[i] = p[i - 1] /\ u[i] \in G
        <5>1. u[1 + (i - 1)] = p[i - 1]
          BY <2>5, <4>1
        <5> QED  BY <2>3, <4>1, <5>1, ElementOfSeq DEF Growing
      <4>3. PICK a \in k : a \in Line(u[i], G, up)
        BY <2>2, <4>1, <4>2 DEF p
      <4>4. a \in G /\ up[a] = x
        BY <2>1, <4>3 DEF Growing
      <4>5. x \in Line(u[i], G, up)
        BY <2>1, <4>2, <4>3, <4>4, LineClimbs DEF Climbing
      <4> QED  BY <2>1, <4>5
    <3>3. CASE i \in (2 + Len(p))..Len(u)
      <4>1. i - 1 - Len(p) \in 1..Len(q) /\ i = 1 + Len(p) + (i - 1 - Len(p))
        BY <2>5, <3>3
      <4>2. u[i] = q[i - 1 - Len(p)]
        BY <2>5, <4>1
      <4>3. PICK a \in o : a \in Line(u[i], G, up)
        BY <2>2, <4>1, <4>2 DEF q
      <4> QED  BY <4>3 DEF o
    <3> QED  BY <2>5, <3>1, <3>2, <3>3
  <2> QED  BY <2>6 DEF u
<1>4. \A s \in SUBSET D : s \in Good
  <2> HIDE DEF Good
  <2> QED  BY <1>2, <1>3, ForestInduction
<1> QED  BY <1>4

Siblings(s, up) == \E p : \A x \in s : up[x] = p

Ordered(w, G, up) == \A i, j \in 1..Len(w) : i < j => Precedes(w[i], w[j], G, up)

\* A character, its offspring in order, and the later siblings in order.
LEMMA OrderedJoin ==
    ASSUME NEW G, NEW up, NEW rank, Rooted(G, up, rank), NEW x \in G,
           NEW p \in Seq(G), NEW q \in Seq(G), Ordered(p, G, up), Ordered(q, G, up),
           NEW k, \A a \in k : a \in G /\ up[a] = x,
           \A i \in 1..Len(p) : \E a \in k : a \in Line(p[i], G, up),
           NEW o, \A a \in o : a \in G /\ up[a] = up[x] /\ Above(x, a),
           \A i \in 1..Len(q) : \E a \in o : a \in Line(q[i], G, up)
    PROVE  Ordered(<<x>> \o p \o q, G, up)
<1> DEFINE u == <<x>> \o p \o q
<1>1. /\ Len(p) \in Nat /\ Len(q) \in Nat /\ Len(u) = 1 + Len(p) + Len(q)
      /\ u[1] = x
      /\ \A i \in 1..Len(p) : u[1 + i] = p[i]
      /\ \A i \in 1..Len(q) : u[1 + Len(p) + i] = q[i]
  BY Joined
<1> HIDE DEF u
<1>2. ASSUME NEW i \in 1..Len(p)
      PROVE  x \in Line(p[i], G, up) /\ x # p[i]
  <2>1. PICK a \in k : a \in Line(p[i], G, up)
    OBVIOUS
  <2>2. a \in G /\ up[a] = x /\ p[i] \in G
    BY <2>1, ElementOfSeq
  <2>3. x \in Line(p[i], G, up)
    BY <2>1, <2>2, LineClimbs DEF Climbing
  <2>4. rank[a] <= rank[p[i]] /\ rank[a] \in Nat /\ rank[p[i]] \in Nat
    BY <2>1, <2>2, LineRanks
  <2>5. rank[x] < rank[a] /\ rank[x] \in Nat
    BY <2>2 DEF Rooted
  <2> QED  BY <2>3, <2>4, <2>5
<1>3. ASSUME NEW i \in 1..Len(q), NEW y, x \in Line(y, G, up)
      PROVE  Precedes(y, q[i], G, up)
  <2>1. PICK a \in o : a \in Line(q[i], G, up)
    OBVIOUS
  <2> QED  BY <1>3, <2>1 DEF Precedes, Beside
<1>4. ASSUME NEW i \in 1..Len(u), NEW j \in 1..Len(u), i < j
      PROVE  Precedes(u[i], u[j], G, up)
  <2>1. CASE j \in 2..(1 + Len(p))
    <3>1. j - 1 \in 1..Len(p) /\ j = 1 + (j - 1)
      BY <1>1, <2>1
    <3>2. u[j] = p[j - 1]
      <4>1. u[1 + (j - 1)] = p[j - 1]
        BY <1>1, <3>1
      <4> QED  BY <3>1, <4>1
    <3>3. CASE i = 1
      BY <1>1, <1>2, <3>1, <3>2, <3>3 DEF Precedes
    <3>4. CASE i # 1
      <4>1. i - 1 \in 1..Len(p) /\ i = 1 + (i - 1) /\ i - 1 < j - 1
        BY <1>1, <1>4, <2>1, <3>4
      <4>2. u[1 + (i - 1)] = p[i - 1]
        BY <1>1, <4>1
      <4> QED  BY <3>1, <3>2, <4>1, <4>2 DEF Ordered
    <3> QED  BY <3>3, <3>4
  <2>2. CASE j \in (2 + Len(p))..Len(u)
    <3> DEFINE b == j - 1 - Len(p)
    <3>1. b \in 1..Len(q) /\ j = 1 + Len(p) + b
      BY <1>1, <2>2
    <3> HIDE DEF b
    <3>2. u[j] = q[b]
      BY <1>1, <3>1
    <3>3. CASE i = 1
      BY <1>1, <1>3, <3>1, <3>2, <3>3, LineClimbs
    <3>4. CASE i \in 2..(1 + Len(p))
      <4>1. i - 1 \in 1..Len(p) /\ i = 1 + (i - 1)
        BY <1>1, <3>4
      <4>2. u[1 + (i - 1)] = p[i - 1]
        BY <1>1, <4>1
      <4> QED  BY <1>2, <1>3, <3>1, <3>2, <4>1, <4>2
    <3>5. CASE i \in (2 + Len(p))..Len(u)
      <4> DEFINE a == i - 1 - Len(p)
      <4>1. a \in 1..Len(q) /\ i = 1 + Len(p) + a /\ a < b
        BY <1>1, <1>4, <3>1, <3>5
      <4> HIDE DEF a
      <4>2. u[i] = q[a]
        BY <1>1, <4>1
      <4> QED  BY <3>1, <3>2, <4>1, <4>2 DEF Ordered
    <3> QED  BY <1>1, <3>3, <3>4, <3>5
  <2> QED  BY <1>1, <1>4, <2>1, <2>2
<1> QED  BY <1>4 DEF Ordered, u

LEMMA WalkIsOrdered ==
    ASSUME NEW D, NEW K, NEW pick, NEW c, NEW N, Branching(D, K, pick, c, N),
           NEW f, f = WalkRule(f, D, K, pick),
           NEW G, NEW up, NEW rank, Rooted(G, up, rank), Growing(D, G, up, K, pick)
    PROVE  \A s \in SUBSET D : Siblings(s, up) => Ordered(f[s], G, up)
<1> DEFINE Good == {s \in SUBSET D : Siblings(s, up) => Ordered(f[s], G, up)}
<1>1. f \in [SUBSET D -> Seq(D)]
  BY WalkTyped
<1>2. {} \in Good
  <2>1. f[{}] = << >> /\ Len(<< >>) = 0 /\ 1..0 = {}
    BY EmptySeq DEF WalkRule
  <2> QED  BY <2>1 DEF Ordered
<1>3. ASSUME NEW s \in SUBSET D, s # {}, K[pick[s]] \in Good, s \ {pick[s]} \in Good,
             Siblings(s, up)
      PROVE  Ordered(f[s], G, up)
  <2> DEFINE x == pick[s]
             k == K[x]
             o == s \ {x}
             p == f[k]
             q == f[o]
  <2>1. /\ x \in s /\ x \in D /\ x \in G /\ k \in SUBSET D /\ o \in SUBSET D
        /\ k = {id \in D : up[id] = x} /\ D \subseteq G
        /\ \A a \in o : Above(x, a)
    BY <1>3 DEF Branching, Growing
  <2>2. f[s] = <<x>> \o p \o q
    BY <1>3 DEF WalkRule, WalkStep
  <2>3. (Siblings(k, up) => Ordered(p, G, up)) /\ (Siblings(o, up) => Ordered(q, G, up))
    BY <1>3
  <2> HIDE DEF x, k
  <2>4. Siblings(k, up) /\ Siblings(o, up) /\ \A a \in o : up[a] = up[x]
    BY <1>3, <2>1 DEF Siblings
  <2>5. /\ \A i \in 1..Len(p) : \E a \in k : a \in Line(p[i], G, up)
        /\ \A i \in 1..Len(q) : \E a \in o : a \in Line(q[i], G, up)
    BY <2>1, WalkStaysUnder
  <2>6. p \in Seq(D) /\ q \in Seq(D)
    BY <1>1, <2>1
  <2> HIDE DEF p, q, o
  <2>7. p \in Seq(G) /\ q \in Seq(G)
    BY <2>1, <2>6, SeqDef
  <2>8. \A a \in k : a \in G /\ up[a] = x
    BY <2>1
  <2>9. \A a \in o : a \in G /\ up[a] = up[x] /\ Above(x, a)
    BY <2>1, <2>4
  <2>10. Ordered(<<x>> \o p \o q, G, up)
    BY <2>1, <2>3, <2>4, <2>5, <2>7, <2>8, <2>9, OrderedJoin
  <2> QED  BY <2>2, <2>10
<1>4. \A s \in SUBSET D : s \in Good
  <2>1. \A s \in SUBSET D :
            s # {} /\ K[pick[s]] \in Good /\ s \ {pick[s]} \in Good => s \in Good
    BY <1>3
  <2> HIDE DEF Good
  <2> QED  BY <1>2, <2>1, ForestInduction
<1> QED  BY <1>4

\* Whatever part of the forest an island holds, its walk is in order.
LEMMA WalkOfItems ==
    ASSUME NEW items, NEW G, NEW up, NEW rank, NEW N, Forest(G, up, rank, N),
           DOMAIN items \subseteq G, \A id \in DOMAIN items : items[id].parent = up[id]
    PROVE  Walk(items) \in Seq(DOMAIN items) /\ Ordered(Walk(items), G, up)
<1> DEFINE D == DOMAIN items
           kids(p) == {id \in D : items[id].parent = p}
           K == [p \in D |-> kids(p)]
           pick == [s \in SUBSET D |-> Highest(s)]
           c == [x \in D |-> N - rank[x]]
           Rec(f) == [ids \in SUBSET D |->
                         IF ids = {} THEN << >>
                         ELSE <<Highest(ids)>> \o f[kids(Highest(ids))] \o f[ids \ {Highest(ids)}]]
           f == CHOOSE g : g = Rec(g)
<1>1. Walk(items) = f[kids(None)]
  BY DEF Walk
<1>2. IsFiniteSet(D) /\ D \in SUBSET G
  BY FS_Subset DEF Forest
<1>3. ASSUME NEW s \in SUBSET D, s # {}
      PROVE  Highest(s) \in s /\ \A o \in s \ {Highest(s)} : Above(Highest(s), o)
  <2>1. IsFiniteSet(G) /\ Comparable(G) /\ s \in SUBSET G
    BY <1>2 DEF Forest
  <2> QED  BY <1>3, <2>1, HighestIsAbove
<1>4. Branching(D, K, pick, c, N)
  <2>1. K \in [D -> SUBSET D]
    OBVIOUS
  <2>2. \A s \in SUBSET D : s # {} => pick[s] \in s
    BY <1>3
  <2>3. ASSUME NEW x \in D PROVE c[x] \in 0..N /\ \A y \in K[x] : c[y] < c[x]
    <3>1. x \in G /\ rank[x] \in Nat /\ rank[x] <= N /\ N \in Nat /\ c[x] = N - rank[x]
      BY <1>2 DEF Forest, Rooted
    <3>2. ASSUME NEW y \in K[x] PROVE c[y] < c[x]
      <4>1. y \in D /\ y \in G /\ up[y] = x /\ c[y] = N - rank[y]
        BY <1>2, <3>2
      <4>2. rank[y] \in Nat /\ rank[x] < rank[y]
        BY <3>1, <4>1 DEF Forest, Rooted
      <4> HIDE DEF c
      <4> QED  BY <3>1, <4>1, <4>2
    <3> HIDE DEF c
    <3> QED  BY <3>1, <3>2
  <2>4. N \in Nat
    BY DEF Forest
  <2> HIDE DEF D, K, pick, c
  <2> QED  BY <1>2, <2>1, <2>2, <2>3, <2>4 DEF Branching
<1>5. Growing(D, G, up, K, pick)
  <2>1. \A p \in D : K[p] = {id \in D : up[id] = p}
    OBVIOUS
  <2>2. \A s \in SUBSET D : \A o \in s \ {pick[s]} : Above(pick[s], o)
    BY <1>3
  <2> HIDE DEF D, K, pick
  <2> QED  BY <1>2, <2>1, <2>2 DEF Growing
<1>6. \A g : Rec(g) = WalkRule(g, D, K, pick)
  <2> SUFFICES ASSUME NEW g PROVE Rec(g) = WalkRule(g, D, K, pick)
    OBVIOUS
  <2>1. ASSUME NEW s \in SUBSET D, s # {}
        PROVE  WalkStep(g, K, pick[s], s \ {pick[s]})
                 = <<Highest(s)>> \o g[kids(Highest(s))] \o g[s \ {Highest(s)}]
    <3>1. pick[s] = Highest(s) /\ Highest(s) \in D
      BY <1>3, <2>1
    <3>2. K[Highest(s)] = kids(Highest(s))
      BY <3>1
    <3> HIDE DEF pick, K, kids, D
    <3> QED  BY <3>1, <3>2 DEF WalkStep
  <2> HIDE DEF pick, K, kids, D
  <2> QED  BY <2>1 DEF WalkRule
<1>7. f = WalkRule(f, D, K, pick)
  <2>1. \E g : g = WalkRule(g, D, K, pick)
    <3> HIDE DEF D, K, pick, c
    <3> QED  BY <1>4, WalkExists
  <2>2. \E g : g = Rec(g)
    <3> HIDE DEF Rec, D, K, pick
    <3> QED  BY <1>6, <2>1
  <2>3. f = Rec(f)
    <3> HIDE DEF Rec
    <3> QED  BY <2>2
  <2> HIDE DEF Rec, f, D, K, pick
  <2> QED  BY <1>6, <2>3
<1>8. kids(None) \in SUBSET D /\ Siblings(kids(None), up)
  <2>1. \A x \in kids(None) : up[x] = None
    OBVIOUS
  <2> QED  BY <2>1 DEF Siblings
<1>9. Rooted(G, up, rank)
  BY DEF Forest
<1> HIDE DEF D, K, pick, c, f, kids
<1>10. f \in [SUBSET D -> Seq(D)]
  BY <1>4, <1>7, WalkTyped
<1>11. Ordered(f[kids(None)], G, up)
  BY <1>4, <1>5, <1>7, <1>8, <1>9, WalkIsOrdered
<1> QED  BY <1>1, <1>8, <1>10, <1>11 DEF D

-----------------------------------------------------------------------------
(***************************************************************************)
(* What the folds of the model return: the filter that pushes one by one,  *)
(* and the documents that apply_delta passes through.                      *)
(***************************************************************************)
\* t keeps what is in S of the first m elements of seq, in their order.
Sifted(t, seq, m, S) ==
    /\ \A j \in 1..m : seq[j] \in S => \E i \in 1..Len(t) : t[i] = seq[j]
    /\ \A i \in 1..Len(t) :
          /\ t[i] \in S
          /\ \E k \in 1..m : /\ t[i] = seq[k]
                             /\ \A j \in 1..(k - 1) : seq[j] \in S => \E l \in 1..(i - 1) : t[l] = seq[j]

LEMMA SiftedOneMore ==
    ASSUME NEW X, NEW seq \in Seq(X), NEW m \in 1..Len(seq), NEW S, NEW t \in Seq(X),
           Sifted(t, seq, m - 1, S)
    PROVE  Sifted(IF seq[m] \in S THEN Append(t, seq[m]) ELSE t, seq, m, S)
<1>1. Len(seq) \in Nat /\ seq[m] \in X /\ m \in Nat /\ Len(t) \in Nat
  BY LenProperties, ElementOfSeq
<1>2. \A k : k \in 1..m <=> (k \in 1..(m - 1) \/ k = m)
  BY <1>1
<1>3. CASE seq[m] \notin S
  BY <1>2, <1>3 DEF Sifted
<1>4. CASE seq[m] \in S
  <2> DEFINE u == Append(t, seq[m])
             n == Len(t)
  <2>1. Len(u) = n + 1 /\ u[n + 1] = seq[m] /\ \A i \in 1..n : u[i] = t[i]
    BY <1>1, AppendProperties
  <2> HIDE DEF u
  <2>2. n \in Nat /\ \A i : i \in 1..(n + 1) <=> (i \in 1..n \/ i = n + 1)
    BY <1>1
  <2>3. ASSUME NEW j \in 1..m, seq[j] \in S PROVE \E i \in 1..Len(u) : u[i] = seq[j]
    <3>1. CASE j = m
      BY <2>1, <2>2, <3>1
    <3>2. CASE j # m
      <4>1. PICK i \in 1..n : t[i] = seq[j]
        BY <1>2, <2>3, <3>2 DEF Sifted
      <4> QED  BY <2>1, <2>2, <4>1
    <3> QED  BY <3>1, <3>2
  <2>4. ASSUME NEW i \in 1..Len(u)
        PROVE  /\ u[i] \in S
               /\ \E k \in 1..m : /\ u[i] = seq[k]
                                  /\ \A j \in 1..(k - 1) : seq[j] \in S => \E l \in 1..(i - 1) : u[l] = seq[j]
    <3>1. CASE i \in 1..n
      <4>1. t[i] \in S /\ u[i] = t[i]
        BY <2>1, <3>1 DEF Sifted
      <4>2. PICK k \in 1..(m - 1) : /\ t[i] = seq[k]
                                    /\ \A j \in 1..(k - 1) : seq[j] \in S => \E l \in 1..(i - 1) : t[l] = seq[j]
        BY <3>1 DEF Sifted
      <4>3. \A l \in 1..(i - 1) : u[l] = t[l]
        BY <2>1, <2>2, <3>1
      <4> QED  BY <1>2, <4>1, <4>2, <4>3
    <3>2. CASE i = n + 1
      <4>1. u[i] = seq[m] /\ m \in 1..m /\ i - 1 = n
        BY <1>1, <2>1, <2>2, <3>2
      <4>2. ASSUME NEW j \in 1..(m - 1), seq[j] \in S PROVE \E l \in 1..(i - 1) : u[l] = seq[j]
        <5>1. PICK l \in 1..n : t[l] = seq[j]
          BY <4>2 DEF Sifted
        <5> QED  BY <2>1, <4>1, <5>1
      <4> QED  BY <1>4, <4>1, <4>2
    <3> QED  BY <2>1, <2>2, <3>1, <3>2
  <2>5. Sifted(u, seq, m, S)
    BY <2>3, <2>4 DEF Sifted
  <2> QED  BY <1>4, <2>5 DEF u
<1> QED  BY <1>3, <1>4

\* What a filter that pushes one by one keeps, and in what order.
LEMMA ThoseAreSifted ==
    ASSUME NEW X, NEW seq \in Seq(X), NEW S
    PROVE  Those(seq, S) \in Seq(X) /\ Sifted(Those(seq, S), seq, Len(seq), S)
<1> DEFINE n == Len(seq)
           Y == Seq(X)
           Pushed(z, o) == IF o \in S THEN Append(z, o) ELSE z
           step == [z \in Y \X (1..n) |-> Pushed(z[1], seq[z[2]])]
           Rec(f) == [s \in SUBSET DOMAIN seq |-> IF s = {} THEN << >> ELSE Pushed(f[s \ {Max(s)}], seq[Max(s)])]
           iter == CHOOSE f : f = Rec(f)
           g == [i \in 0..n |-> <<i, iter[1..i]>>]
           Kept == {y \in (0..n) \X Y : Sifted(y[2], seq, y[1], S)}
<1>1. n \in Nat /\ DOMAIN seq = 1..n /\ \A i \in 1..n : seq[i] \in X
  BY LenProperties, ElementOfSeq
<1>3. Those(seq, S) = iter[DOMAIN seq]
  BY DEF Those, FoldLeft, MapThenFoldSet
<1>4. << >> \in Y /\ Len(<< >>) = 0
  BY EmptySeq
<1> HIDE DEF n
<1>5. \A z \in Y, i \in 1..n : Pushed(z, seq[i]) \in Y
  BY <1>1, AppendProperties
<1>6. step \in [Y \X (1..n) -> Y] /\ \A z \in Y, i \in 1..n : step[<<z, i>>] = Pushed(z, seq[i])
  BY <1>5
<1> HIDE DEF Y, step
<1>7. \E f : f = Rec(f) /\ \A s \in SUBSET (1..n) : f[s] \in Y
  <2>1. PICK f : Folding(f, step, << >>, n)
    BY <1>1, FoldingExists
  <2>2. \A s \in SUBSET (1..n) : f[s] \in Y
    BY <1>1, <1>4, <1>6, <2>1, FoldingTyped
  <2>3. ASSUME NEW s \in SUBSET (1..n), s # {}
        PROVE  f[s] = Pushed(f[s \ {Max(s)}], seq[Max(s)])
    <3> DEFINE r == s \ {Max(s)}
    <3>1. n # 0
      <4>1. 1..0 = {}
        OBVIOUS
      <4> QED  BY <2>3, <4>1
    <3>2. r \in SUBSET (1..n) /\ Max(s) \in 1..n
      BY <1>1, <2>3, <3>1, WithoutTheLast
    <3> HIDE DEF r, Pushed
    <3>3. f[s] = step[<<f[r], Max(s)>>]
      BY <2>1, <2>3 DEF Folding, r
    <3> QED  BY <1>6, <2>2, <3>2, <3>3 DEF r
  <2>4. f = Rec(f)
    <3> HIDE DEF Pushed
    <3>1. f = [s \in SUBSET (1..n) |-> IF s = {} THEN << >> ELSE step[<<f[s \ {Max(s)}], Max(s)>>]]
      BY <2>1 DEF Folding
    <3>2. f = [s \in SUBSET (1..n) |-> f[s]]
      BY <3>1
    <3>3. {} \in SUBSET (1..n) /\ f[{}] = << >>
      BY <3>1
    <3> QED  BY <1>1, <2>3, <3>2, <3>3
  <2> QED  BY <2>2, <2>4
<1>8. iter = Rec(iter)
  BY <1>7
<1> HIDE DEF iter
<1>9. iter[{}] = << >> /\ \A i \in 1..n : iter[1..i] = Pushed(iter[1..(i - 1)], seq[i])
  <2>1. iter[{}] = << >>
    BY <1>1, <1>8
  <2>2. ASSUME NEW i \in 1..n PROVE iter[1..i] = Pushed(iter[1..(i - 1)], seq[i])
    <3>1. 1..i \in SUBSET (1..n) /\ 1..i # {} /\ i \in Nat /\ i # 0
      <4>1. i \in Nat /\ i # 0 /\ i \in 1..i /\ i <= n
        BY <1>1
      <4>2. \A x \in 1..i : x \in 1..n
        BY <1>1, <4>1
      <4> QED  BY <4>1, <4>2
    <3>2. Max(1..i) = i /\ (1..i) \ {i} = 1..(i - 1)
      BY <3>1, LastOfPlaces
    <3> QED  BY <1>1, <1>8, <3>1, <3>2
  <2> QED  BY <2>1, <2>2
<1>10. g[0] \in Kept
  <2>1. 1..0 = {} /\ 0 \in 0..n /\ g[0] = <<0, << >> >>
    BY <1>1, <1>9
  <2> DEFINE e == << >>
  <2>2. e \in Y /\ Len(e) = 0
    BY <1>4
  <2> HIDE DEF e
  <2>3. Sifted(e, seq, 0, S)
    BY <2>1, <2>2 DEF Sifted
  <2> QED  BY <2>1, <2>2, <2>3 DEF e
<1>11. ASSUME NEW i \in 1..n, g[i - 1] \in Kept PROVE g[i] \in Kept
  <2> DEFINE z == iter[1..(i - 1)]
             y == iter[1..i]
  <2>1. i - 1 \in 0..n /\ i \in 0..n
    BY <1>1
  <2>2. z \in Y /\ Sifted(z, seq, i - 1, S)
    <3>1. g[i - 1] = <<i - 1, z>>
      BY <2>1
    <3> HIDE DEF g, z
    <3> QED  BY <1>11, <3>1
  <2>3. y = Pushed(z, seq[i])
    BY <1>9
  <2> HIDE DEF z, y
  <2>4. y \in Y
    BY <1>5, <2>2, <2>3
  <2>5. Sifted(y, seq, i, S)
    BY <2>2, <2>3, SiftedOneMore DEF n, Y
  <2>6. g[i] = <<i, y>>
    BY <2>1 DEF y
  <2> HIDE DEF g
  <2> QED  BY <2>1, <2>4, <2>5, <2>6
<1>12. g[n] \in Kept
  <2> HIDE DEF g, Kept
  <2>1. \A i \in 0..n : g[i] \in Kept
    BY <1>1, <1>10, <1>11, StepByStep
  <2> QED  BY <1>1, <2>1
<1>13. iter[1..n] \in Y /\ Sifted(iter[1..n], seq, n, S)
  <2>1. n \in 0..n /\ g[n] = <<n, iter[1..n]>>
    BY <1>1
  <2> HIDE DEF g
  <2> QED  BY <1>12, <2>1
<1> QED  BY <1>1, <1>3, <1>13 DEF n, Y

\* The documents that apply_delta passes through.
Applying(E, d, ops) ==
    /\ E[0] = d
    /\ \A i \in 1..Len(ops) : E[i] = Integrate(E[i - 1], ops[i])

LEMMA ApplyDeltaRuns ==
    ASSUME NEW d, NEW X, NEW ops \in Seq(X)
    PROVE  \E E : Applying(E, d, ops) /\ ApplyDelta(d, ops) = E[Len(ops)]
<1> DEFINE n == Len(ops)
           Folds(f, m) == f = [s \in SUBSET (1..m) |->
                                 IF s = {} THEN d ELSE Integrate(f[s \ {Max(s)}], ops[Max(s)])]
           None0 == {m \in Nat : ~ \E f : Folds(f, m)}
           Rec(f) == [s \in SUBSET DOMAIN ops |-> IF s = {} THEN d ELSE Integrate(f[s \ {Max(s)}], ops[Max(s)])]
           iter == CHOOSE f : f = Rec(f)
           E == [i \in 0..n |-> iter[1..i]]
<1>1. n \in Nat /\ DOMAIN ops = 1..n
  BY LenProperties
<1>2. ApplyDelta(d, ops) = iter[DOMAIN ops]
  BY DEF ApplyDelta, FoldLeft, MapThenFoldSet
<1>3. None0 = {}
  <2> SUFFICES ASSUME None0 # {} PROVE FALSE
    OBVIOUS
  <2>1. PICK m \in None0 : \A l \in None0 : m <= l
    <3>1. None0 \subseteq Nat
      OBVIOUS
    <3> HIDE DEF None0
    <3> QED  BY <3>1, LeastNumber
  <2>2. m # 0
    <3>1. SUBSET (1..0) = {{}}
      OBVIOUS
    <3> DEFINE f == [s \in {{}} |-> d]
    <3>2. Folds(f, 0)
      BY <3>1
    <3> HIDE DEF f, Folds
    <3> QED  BY <3>2
  <2>3. m - 1 \in Nat /\ m - 1 \notin None0
    <3>1. m - 1 \in Nat /\ ~(m <= m - 1)
      BY <2>2
    <3> HIDE DEF None0
    <3> QED  BY <2>1, <3>1
  <2>4. PICK f : Folds(f, m - 1)
    <3> HIDE DEF Folds
    <3> QED  BY <2>3
  <2> DEFINE h == [s \in SUBSET (1..m) |-> IF s = {} THEN d ELSE Integrate(f[s \ {Max(s)}], ops[Max(s)])]
  <2>5. ASSUME NEW s \in SUBSET (1..m), s # {}
        PROVE  h[s \ {Max(s)}] = f[s \ {Max(s)}]
    <3> DEFINE r == s \ {Max(s)}
    <3>1. r \in SUBSET (1..(m - 1)) /\ r \in SUBSET (1..m)
      BY <2>2, <2>5, WithoutTheLast
    <3> HIDE DEF r
    <3>2. f[r] = IF r = {} THEN d ELSE Integrate(f[r \ {Max(r)}], ops[Max(r)])
      BY <2>4, <3>1
    <3>3. h[r] = f[r]
      BY <3>1, <3>2
    <3> QED  BY <3>3 DEF r
  <2>6. Folds(h, m)
    BY <2>5
  <2> HIDE DEF h, Folds
  <2> QED  BY <2>6
<1>4. iter = Rec(iter)
  <2>1. \E f : Folds(f, n)
    <3> HIDE DEF Folds, n
    <3> QED  BY <1>1, <1>3
  <2>2. \A f : Folds(f, n) => f = Rec(f)
    BY <1>1
  <2> HIDE DEF Folds, Rec
  <2> QED  BY <2>1, <2>2
<1> HIDE DEF iter, n
<1>5. iter[{}] = d /\ \A i \in 1..n : iter[1..i] = Integrate(iter[1..(i - 1)], ops[i])
  <2>1. iter[{}] = d
    BY <1>1, <1>4
  <2>2. ASSUME NEW i \in 1..n PROVE iter[1..i] = Integrate(iter[1..(i - 1)], ops[i])
    <3>1. 1..i \in SUBSET (1..n) /\ 1..i # {} /\ i \in Nat /\ i # 0
      <4>1. i \in Nat /\ i # 0 /\ i \in 1..i /\ i <= n
        BY <1>1
      <4>2. \A x \in 1..i : x \in 1..n
        BY <1>1, <4>1
      <4> QED  BY <4>1, <4>2
    <3>2. Max(1..i) = i /\ (1..i) \ {i} = 1..(i - 1)
      BY <3>1, LastOfPlaces
    <3> QED  BY <1>1, <1>4, <3>1, <3>2
  <2> QED  BY <2>1, <2>2
<1>6. E[0] = d /\ E[n] = iter[1..n]
  <2>1. 1..0 = {} /\ 0 \in 0..n /\ n \in 0..n
    BY <1>1
  <2> QED  BY <1>5, <2>1
<1>7. \A i \in 1..n : E[i] = Integrate(E[i - 1], ops[i])
  <2> SUFFICES ASSUME NEW i \in 1..n PROVE E[i] = Integrate(E[i - 1], ops[i])
    OBVIOUS
  <2>1. i \in 0..n /\ i - 1 \in 0..n
    BY <1>1
  <2> QED  BY <1>5, <2>1
<1> HIDE DEF E
<1>8. Applying(E, d, ops)
  BY <1>6, <1>7 DEF Applying, n
<1> QED  BY <1>1, <1>2, <1>6, <1>8 DEF n

-----------------------------------------------------------------------------
(***************************************************************************)
(* What the operations integrated make of a document.                      *)
(***************************************************************************)
Fields == {"agent", "items", "pending_deletes", "applied_deletes", "vector",
           "next_seq", "op_log"}

Inserts(O) == {o \in O : o.kind = "Insert"}
Deletes(O) == {o \in O : o.kind = "Delete"}
Targets(O) == {o.target : o \in Deletes(O)}

\* The items, pending and applied deletes are what the operations O make them.
Reflects(items, pending, deletes, O) ==
    /\ DOMAIN items = {o.id : o \in Inserts(O)}
    /\ \A id \in DOMAIN items :
           /\ items[id] = [parent |-> items[id].parent, deleted |-> items[id].deleted]
           /\ items[id].deleted \in BOOLEAN
           /\ items[id].deleted <=> id \in Targets(O)
    /\ \A o \in Inserts(O) : items[o.id].parent = o.parent
    /\ pending = Targets(O) \ DOMAIN items
    /\ deletes = {o.id : o \in Deletes(O)}

DocInv(d, a) ==
    /\ DOMAIN d = Fields
    /\ d.agent = a
    /\ d.items = [id \in DOMAIN d.items |-> d.items[id]]
    /\ d.next_seq \in Nat
    /\ d.op_log \in Seq(ToSet(d.op_log))
    /\ Reflects(d.items, d.pending_deletes, d.applied_deletes, ToSet(d.op_log))

IdsBelow ==
    \A o \in AllOps :
        /\ o.kind \in {"Insert", "Delete"}
        /\ o.id.agent \in Agents
        /\ o.id.seq \in Nat
        /\ o.id.seq < doc[o.id.agent].next_seq
        /\ o.id = [agent |-> o.id.agent, seq |-> o.id.seq]

OpInv ==
    /\ doc = [r \in Agents |-> doc[r]]
    /\ \A r \in Agents : DocInv(doc[r], r)
    /\ IdsBelow
    /\ IdsAreUnique

-----------------------------------------------------------------------------
LEMMA AppendSet ==
    ASSUME NEW log, log \in Seq(ToSet(log)), NEW op
    PROVE  /\ ToSet(Append(log, op)) = ToSet(log) \cup {op}
           /\ Append(log, op) \in Seq(ToSet(Append(log, op)))
<1> DEFINE T == ToSet(log) \cup {op}
<1>1. log \in Seq(T)
  BY SeqDef
<1>2. /\ Append(log, op) \in Seq(T)
      /\ Len(log) \in Nat
      /\ Len(Append(log, op)) = Len(log) + 1
      /\ \A i \in 1 .. Len(log) : Append(log, op)[i] = log[i]
      /\ Append(log, op)[Len(log) + 1] = op
  BY <1>1, AppendProperties, LenProperties
<1>3. DOMAIN log = 1 .. Len(log) /\ DOMAIN Append(log, op) = 1 .. Len(log) + 1
  BY <1>1, <1>2, LenProperties
<1>4. ToSet(Append(log, op)) = T
  BY <1>2, <1>3 DEF ToSet
<1> QED
  BY <1>2, <1>4

\* The images of a set under a field, with one more element.
LEMMA OneMoreImage ==
    ASSUME NEW S, NEW op
    PROVE  /\ {o.id : o \in S \cup {op}} = {o.id : o \in S} \cup {op.id}
           /\ {o.target : o \in S \cup {op}} = {o.target : o \in S} \cup {op.target}
<1>1. {o.id : o \in S \cup {op}} = {o.id : o \in S} \cup {op.id}
  BY Zenon
<1>2. {o.target : o \in S \cup {op}} = {o.target : o \in S} \cup {op.target}
  BY Zenon
<1> QED
  BY <1>1, <1>2

LEMMA ReflectsInsert ==
    ASSUME NEW items, NEW pending, NEW deletes, NEW O, NEW op,
           Reflects(items, pending, deletes, O),
           op.kind = "Insert", op.id \notin DOMAIN items,
           NEW items2,
           DOMAIN items2 = DOMAIN items \cup {op.id},
           items2[op.id] = [parent |-> op.parent, deleted |-> op.id \in pending],
           \A id \in DOMAIN items : items2[id] = items[id]
    PROVE  Reflects(items2, pending \ {op.id}, deletes, O \cup {op})
<1>1. Inserts(O \cup {op}) = Inserts(O) \cup {op} /\ Deletes(O \cup {op}) = Deletes(O)
  BY DEF Inserts, Deletes
<1>2. Targets(O \cup {op}) = Targets(O)
  BY <1>1 DEF Targets
<1>3. DOMAIN items2 = {o.id : o \in Inserts(O \cup {op})}
  <2>1. DOMAIN items = {o.id : o \in Inserts(O)}
    BY DEF Reflects
  <2>2. {o.id : o \in Inserts(O) \cup {op}} = {o.id : o \in Inserts(O)} \cup {op.id}
    BY OneMoreImage
  <2> QED
    BY <1>1, <2>1, <2>2
<1>4. ASSUME NEW id \in DOMAIN items2
      PROVE  /\ items2[id] = [parent |-> items2[id].parent, deleted |-> items2[id].deleted]
             /\ items2[id].deleted \in BOOLEAN
             /\ items2[id].deleted <=> id \in Targets(O)
  <2>1. CASE id = op.id
    <3>1. items2[id] = [parent |-> op.parent, deleted |-> op.id \in pending]
      BY <2>1
    <3>2. items2[id].deleted = (op.id \in pending)
      BY <3>1
    <3>5. items2[id].deleted <=> op.id \in pending
      BY <3>2
    <3>3. op.id \in pending <=> op.id \in Targets(O)
      BY DEF Reflects
    <3>4. items2[id].deleted \in BOOLEAN
      <4>1. CASE op.id \in pending
        <5>1. items2[id].deleted = TRUE
          BY <3>2, <4>1
        <5> QED
          BY <5>1
      <4>2. CASE op.id \notin pending
        <5>0. (op.id \in pending) = FALSE
          BY <4>2
        <5>1. items2[id].deleted = FALSE
          BY <3>2, <5>0, Zenon
        <5> QED
          BY <5>1
      <4> QED
        BY <4>1, <4>2
    <3>6. items2[id].parent = op.parent
      BY <3>1
    <3>7. items2[id] = [parent |-> items2[id].parent, deleted |-> items2[id].deleted]
      BY <3>1, <3>2, <3>6
    <3> QED
      BY <3>3, <3>4, <3>5, <3>7, <2>1
  <2>2. CASE id # op.id
    BY <2>2 DEF Reflects
  <2> QED
    BY <2>1, <2>2
<1>5. \A o \in Inserts(O \cup {op}) : items2[o.id].parent = o.parent
  <2>1. ASSUME NEW o \in Inserts(O) PROVE o.id \in DOMAIN items /\ items[o.id].parent = o.parent
    BY DEF Reflects
  <2>2. ASSUME NEW o \in Inserts(O) PROVE items2[o.id].parent = o.parent
    BY <2>1
  <2>3. items2[op.id].parent = op.parent
    OBVIOUS
  <2> QED
    BY <2>2, <2>3, <1>1
<1>6. pending \ {op.id} = Targets(O) \ DOMAIN items2
  BY DEF Reflects
<1> QED
  BY <1>1, <1>2, <1>3, <1>4, <1>5, <1>6 DEF Reflects

LEMMA ReflectsDelete ==
    ASSUME NEW items, NEW pending, NEW deletes, NEW O, NEW op,
           items = [id \in DOMAIN items |-> items[id]],
           Reflects(items, pending, deletes, O),
           op.kind = "Delete",
           NEW items2, NEW pending2,
           items2 = [id \in DOMAIN items2 |-> items2[id]],
           DOMAIN items2 = DOMAIN items,
           \A id \in DOMAIN items :
               items2[id] = IF id = op.target
                            THEN [parent |-> items[id].parent, deleted |-> TRUE]
                            ELSE items[id],
           pending2 = IF op.target \in DOMAIN items THEN pending
                                                    ELSE pending \cup {op.target}
    PROVE  Reflects(items2, pending2, deletes \cup {op.id}, O \cup {op})
<1>1. Inserts(O \cup {op}) = Inserts(O) /\ Deletes(O \cup {op}) = Deletes(O) \cup {op}
  BY DEF Inserts, Deletes
<1>2. Targets(O \cup {op}) = Targets(O) \cup {op.target}
  <2>1. Targets(O \cup {op}) = {o.target : o \in Deletes(O) \cup {op}}
    BY <1>1 DEF Targets
  <2> QED
    BY <2>1, OneMoreImage DEF Targets
<1>3. DOMAIN items2 = DOMAIN items
  OBVIOUS
<1>5. ASSUME NEW id \in DOMAIN items
      PROVE  /\ items2[id] = [parent |-> items2[id].parent, deleted |-> items2[id].deleted]
             /\ items2[id].deleted \in BOOLEAN
             /\ items2[id].deleted <=> id \in Targets(O) \cup {op.target}
             /\ items2[id].parent = items[id].parent
  <2>1. CASE id = op.target
    <3>1. items2[id] = [parent |-> items[id].parent, deleted |-> TRUE]
      BY <2>1
    <3>2. items2[id].deleted = TRUE /\ items2[id].parent = items[id].parent
      BY <3>1
    <3>3. items2[id].deleted \in BOOLEAN
      BY <3>2
    <3>4. items2[id].deleted
      BY <3>2
    <3> QED
      BY <3>1, <3>2, <3>3, <3>4, <2>1
  <2>2. CASE id # op.target
    BY <2>2 DEF Reflects
  <2> QED
    BY <2>1, <2>2
<1>6. pending2 = (Targets(O) \cup {op.target}) \ DOMAIN items
  BY DEF Reflects
<1>7. deletes \cup {op.id} = {o.id : o \in Deletes(O) \cup {op}}
  <2>1. deletes = {o.id : o \in Deletes(O)}
    BY DEF Reflects
  <2> QED
    BY <2>1, OneMoreImage
<1>8. ASSUME NEW o \in Inserts(O)
      PROVE  o.id \in DOMAIN items /\ items2[o.id].parent = o.parent
  <2>1. o.id \in DOMAIN items /\ items[o.id].parent = o.parent
    BY DEF Reflects
  <2> QED
    BY <1>5, <2>1
<1>9. DOMAIN items = {o.id : o \in Inserts(O)}
  BY DEF Reflects
<1> QED
  BY <1>1, <1>2, <1>3, <1>5, <1>6, <1>7, <1>8, <1>9 DEF Reflects

-----------------------------------------------------------------------------
\* What integrating an operation that an island has not seen does to its Doc.
LEMMA NoteFields ==
    ASSUME NEW d, NEW op, DOMAIN d = Fields
    PROVE  /\ DOMAIN Note(d, op) = Fields
           /\ Note(d, op).agent = d.agent
           /\ Note(d, op).items = d.items
           /\ Note(d, op).pending_deletes = d.pending_deletes
           /\ Note(d, op).applied_deletes = d.applied_deletes
           /\ Note(d, op).op_log = Append(d.op_log, op)
           /\ Note(d, op).next_seq = IF op.id.agent = d.agent /\ op.id.seq >= d.next_seq
                                     THEN op.id.seq + 1 ELSE d.next_seq
BY DEF Note, Fields

LEMMA InsertFields ==
    ASSUME NEW d, NEW op, DOMAIN d = Fields
    PROVE  LET e == IntegrateInsert(d, op) IN
           /\ DOMAIN e = Fields
           /\ e.agent = d.agent
           /\ e.items = [id \in DOMAIN d.items \cup {op.id} |->
                            IF id = op.id
                            THEN [parent |-> op.parent, deleted |-> op.id \in d.pending_deletes]
                            ELSE d.items[id]]
           /\ e.pending_deletes = d.pending_deletes \ {op.id}
           /\ e.applied_deletes = d.applied_deletes
           /\ e.op_log = d.op_log
           /\ e.next_seq = d.next_seq
BY DEF IntegrateInsert, Fields

LEMMA DeleteFields ==
    ASSUME NEW d, NEW op, DOMAIN d = Fields
    PROVE  LET e == IntegrateDelete(d, op) IN
           /\ DOMAIN e = Fields
           /\ e.agent = d.agent
           /\ e.items = IF op.target \in DOMAIN d.items
                        THEN [d.items EXCEPT ![op.target].deleted = TRUE] ELSE d.items
           /\ e.pending_deletes = IF op.target \in DOMAIN d.items
                                  THEN d.pending_deletes
                                  ELSE d.pending_deletes \cup {op.target}
           /\ e.applied_deletes = d.applied_deletes \cup {op.id}
           /\ e.op_log = d.op_log
           /\ e.next_seq = d.next_seq
BY DEF IntegrateDelete, Fields

IsNew(d, a, op) ==
    /\ DocInv(d, a)
    /\ op.kind \in {"Insert", "Delete"}
    /\ ~Applied(d, op)
    /\ op.id.seq \in Nat
    /\ op.id.agent = a => op.id.seq < d.next_seq

Integrated(d, a, op, f) ==
    /\ DocInv(f, a)
    /\ ToSet(f.op_log) = ToSet(d.op_log) \cup {op}
    /\ f.next_seq = d.next_seq

LEMMA IntegrateEffect ==
    ASSUME NEW d, NEW a, NEW op, IsNew(d, a, op)
    PROVE  Integrated(d, a, op, Integrate(d, op))
<1> DEFINE O == ToSet(d.op_log)
<1> USE DEF DocInv, IsNew
<1>1. /\ ToSet(Append(d.op_log, op)) = O \cup {op}
      /\ Append(d.op_log, op) \in Seq(ToSet(Append(d.op_log, op)))
  BY AppendSet
<1>2. ~(op.id.agent = d.agent /\ op.id.seq >= d.next_seq)
  OBVIOUS
<1> DEFINE f == Integrate(d, op)
<1>3. CASE op.kind = "Insert"
  <2> DEFINE e == IntegrateInsert(d, op)
  <2>1. f = Note(e, op)
    BY <1>3 DEF Integrate
  <2>2. op.id \notin DOMAIN d.items
    BY <1>3 DEF Applied
  <2>3. /\ DOMAIN e = Fields
        /\ e.agent = d.agent
        /\ e.items = [id \in DOMAIN d.items \cup {op.id} |->
                         IF id = op.id
                         THEN [parent |-> op.parent, deleted |-> op.id \in d.pending_deletes]
                         ELSE d.items[id]]
        /\ e.pending_deletes = d.pending_deletes \ {op.id}
        /\ e.applied_deletes = d.applied_deletes
        /\ e.op_log = d.op_log
        /\ e.next_seq = d.next_seq
    BY InsertFields
  <2> HIDE DEF e, f
  <2>4. Reflects(e.items, d.pending_deletes \ {op.id}, d.applied_deletes, O \cup {op})
    <3>1. Reflects(d.items, d.pending_deletes, d.applied_deletes, O)
      OBVIOUS
    <3>2. /\ DOMAIN e.items = DOMAIN d.items \cup {op.id}
          /\ e.items[op.id] = [parent |-> op.parent, deleted |-> op.id \in d.pending_deletes]
          /\ \A id \in DOMAIN d.items : e.items[id] = d.items[id]
      BY <2>2, <2>3
    <3> QED
      BY <1>3, <2>2, <3>1, <3>2, ReflectsInsert
  <2>5. e.items = [id \in DOMAIN e.items |-> e.items[id]]
    <3>1. DOMAIN e.items = DOMAIN d.items \cup {op.id}
      BY <2>3
    <3> QED
      BY <2>3, <3>1
  <2>6. /\ DOMAIN f = Fields
        /\ f.agent = d.agent
        /\ f.items = e.items
        /\ f.pending_deletes = d.pending_deletes \ {op.id}
        /\ f.applied_deletes = d.applied_deletes
        /\ f.op_log = Append(d.op_log, op)
        /\ f.next_seq = d.next_seq
    BY <1>2, <2>1, <2>3, NoteFields
  <2>7. DocInv(f, a) /\ ToSet(f.op_log) = O \cup {op} /\ f.next_seq = d.next_seq
    BY <1>1, <2>4, <2>5, <2>6
  <2> QED
    BY <2>7 DEF f, Integrated
<1>4. CASE op.kind = "Delete"
  <2> DEFINE e == IntegrateDelete(d, op)
  <2>1. f = Note(e, op)
    BY <1>4 DEF Integrate
  <2>2. /\ DOMAIN e = Fields
        /\ e.agent = d.agent
        /\ e.items = IF op.target \in DOMAIN d.items
                     THEN [d.items EXCEPT ![op.target].deleted = TRUE] ELSE d.items
        /\ e.pending_deletes = IF op.target \in DOMAIN d.items
                               THEN d.pending_deletes
                               ELSE d.pending_deletes \cup {op.target}
        /\ e.applied_deletes = d.applied_deletes \cup {op.id}
        /\ e.op_log = d.op_log
        /\ e.next_seq = d.next_seq
    BY DeleteFields
  <2> HIDE DEF e, f
  <2>3. /\ Reflects(e.items, e.pending_deletes, d.applied_deletes \cup {op.id}, O \cup {op})
        /\ e.items = [id \in DOMAIN e.items |-> e.items[id]]
    <3>1. /\ Reflects(d.items, d.pending_deletes, d.applied_deletes, O)
          /\ d.items = [id \in DOMAIN d.items |-> d.items[id]]
      OBVIOUS
    <3>2. /\ e.items = [id \in DOMAIN e.items |-> e.items[id]]
          /\ DOMAIN e.items = DOMAIN d.items
      BY <2>2
    <3>3. ASSUME NEW id \in DOMAIN d.items
          PROVE  e.items[id] = IF id = op.target
                               THEN [parent |-> d.items[id].parent, deleted |-> TRUE]
                               ELSE d.items[id]
      <4>1. d.items[id] = [parent |-> d.items[id].parent, deleted |-> d.items[id].deleted]
        BY <3>1 DEF Reflects
      <4>2. CASE id = op.target
        <5>1. e.items[id] = [d.items[id] EXCEPT !.deleted = TRUE]
          BY <2>2, <4>2
        <5> QED
          BY <4>1, <4>2, <5>1
      <4>3. CASE id # op.target
        BY <2>2, <4>3
      <4> QED
        BY <4>2, <4>3
    <3> HIDE DEF DocInv, IsNew
    <3> QED
      BY <1>4, <2>2, <3>1, <3>2, <3>3, ReflectsDelete
  <2>4. /\ DOMAIN f = Fields
        /\ f.agent = d.agent
        /\ f.items = e.items
        /\ f.pending_deletes = e.pending_deletes
        /\ f.applied_deletes = d.applied_deletes \cup {op.id}
        /\ f.op_log = Append(d.op_log, op)
        /\ f.next_seq = d.next_seq
    BY <1>2, <2>1, <2>2, NoteFields
  <2>5. DocInv(f, a) /\ ToSet(f.op_log) = O \cup {op} /\ f.next_seq = d.next_seq
    BY <1>1, <2>3, <2>4
  <2> QED
    BY <2>5 DEF f, Integrated
<1> QED
  BY <1>3, <1>4 DEF f

\* A fresh id has not been applied.
LEMMA FreshNotApplied ==
    ASSUME NEW d, NEW a, DocInv(d, a), NEW op,
           \A o \in ToSet(d.op_log) : o.id # op.id
    PROVE  ~Applied(d, op)
BY DEF DocInv, Reflects, Applied, Inserts, Deletes

\* An operation that is in the log has been applied, and nothing else has.
LEMMA AppliedIsLogged ==
    ASSUME NEW d, NEW a, DocInv(d, a), NEW op,
           op.kind \in {"Insert", "Delete"}, Applied(d, op)
    PROVE  \E o \in ToSet(d.op_log) : o.id = op.id
BY DEF DocInv, Reflects, Applied, Inserts, Deletes

-----------------------------------------------------------------------------
LogsGrow == \A s \in Agents : Ops(s) \subseteq Ops(s)'

\* Every step of Next edits with a new operation of the island's own next id
\* (EditBy), or replays operations that some log holds (ReplayBy), or leaves
\* the documents alone.
EditBy(r, op) ==
    /\ op.kind \in {"Insert", "Delete"}
    /\ op.id = AllocId(doc[r])
    /\ doc' = [doc EXCEPT ![r] = Edit(@, op)]

\* The log and the version vector after an operation that is new.
Logged(d, op, f) ==
    /\ f.op_log = Append(d.op_log, op)
    /\ f.vector = IF op.id.seq > d.vector[op.id.agent]
                  THEN [d.vector EXCEPT ![op.id.agent] = op.id.seq] ELSE d.vector

LEMMA IntegrateLogs ==
    ASSUME NEW d, DOMAIN d = Fields, NEW op, op.kind \in {"Insert", "Delete"}, ~Applied(d, op)
    PROVE  Logged(d, op, Integrate(d, op))
<1>1. ASSUME NEW e, DOMAIN e = Fields, e.op_log = d.op_log, e.vector = d.vector
      PROVE  Logged(d, op, Note(e, op))
  BY <1>1 DEF Note, Logged, Fields
<1>2. CASE op.kind = "Insert"
  <2> DEFINE e == IntegrateInsert(d, op)
  <2>1. DOMAIN e = Fields /\ e.op_log = d.op_log /\ e.vector = d.vector
    BY DEF IntegrateInsert, Fields
  <2>2. Integrate(d, op) = Note(e, op)
    BY <1>2 DEF Integrate
  <2> HIDE DEF e
  <2> QED  BY <1>1, <2>1, <2>2
<1>3. CASE op.kind = "Delete"
  <2> DEFINE e == IntegrateDelete(d, op)
  <2>1. DOMAIN e = Fields /\ e.op_log = d.op_log /\ e.vector = d.vector
    BY DEF IntegrateDelete, Fields
  <2>2. Integrate(d, op) = Note(e, op)
    BY <1>3 DEF Integrate
  <2> HIDE DEF e
  <2> QED  BY <1>1, <2>1, <2>2
<1> QED  BY <1>2, <1>3

\* r logs an operation of its own, and nothing else changes.
Edited(r, op) ==
    /\ AllOps' = AllOps \cup {op}
    /\ Ops(r)' = Ops(r) \cup {op}
    /\ \A s \in Agents \ {r} : doc'[s] = doc[s]
    /\ doc'[r].next_seq = doc[r].next_seq + 1
    /\ \A o \in AllOps : o.id # op.id
    /\ Logged(doc[r], op, doc'[r])

LEMMA EditStep ==
    ASSUME OpInv, NEW r \in Agents, NEW op, EditBy(r, op)
    PROVE  OpInv' /\ LogsGrow /\ Edited(r, op)
<1> USE DEF EditBy
<1> DEFINE d == [doc[r] EXCEPT !.next_seq = @ + 1]
           e == Integrate(d, op)
<1>1. /\ DOMAIN doc[r] = Fields
      /\ doc[r].next_seq \in Nat
      /\ doc[r].agent = r
  BY DEF OpInv, DocInv
<1>2. /\ DOMAIN d = Fields
      /\ d.next_seq = doc[r].next_seq + 1
      /\ d.agent = r
      /\ d.items = doc[r].items
      /\ d.pending_deletes = doc[r].pending_deletes
      /\ d.applied_deletes = doc[r].applied_deletes
      /\ d.op_log = doc[r].op_log
      /\ d.vector = doc[r].vector
  BY <1>1 DEF Fields
<1>3. DocInv(d, r)
  <2>1. DocInv(doc[r], r)
    BY DEF OpInv
  <2> HIDE DEF d
  <2> QED
    BY <1>1, <1>2, <2>1 DEF DocInv
<1>4. op.id = [agent |-> r, seq |-> doc[r].next_seq]
  BY <1>1 DEF AllocId
<1>5. \A o \in AllOps : o.id # op.id
  BY <1>1, <1>4 DEF OpInv, IdsBelow
<1>6. \A o \in ToSet(d.op_log) : o.id # op.id
  BY <1>2, <1>5 DEF AllOps, Ops
<1> HIDE DEF d
<1>7. ~Applied(d, op)
  BY <1>3, <1>6, FreshNotApplied
<1>8. /\ DocInv(e, r)
      /\ ToSet(e.op_log) = ToSet(d.op_log) \cup {op}
      /\ e.next_seq = d.next_seq
  <2>1. op.id.seq \in Nat /\ op.id.seq < d.next_seq
    BY <1>1, <1>2, <1>4
  <2>2. IsNew(d, r, op)
    BY <1>3, <1>7, <2>1 DEF IsNew
  <2>3. Integrated(d, r, op, e)
    BY <2>2, IntegrateEffect
  <2> QED
    BY <2>3 DEF Integrated
<1> HIDE DEF e
<1>9. doc' = [s \in Agents |-> IF s = r THEN e ELSE doc[s]]
  BY DEF OpInv, Edit, d, e
<1>10. /\ Ops(r)' = Ops(r) \cup {op}
       /\ \A s \in Agents \ {r} : Ops(s)' = Ops(s)
  BY <1>2, <1>8, <1>9 DEF Ops
<1>11. AllOps' = AllOps \cup {op}
  BY <1>10 DEF AllOps
<1>12. /\ \A s \in Agents : doc'[s].next_seq \in Nat /\ doc'[s].next_seq >= doc[s].next_seq
       /\ doc'[r].next_seq = doc[r].next_seq + 1
  <2>1. doc'[r].next_seq = doc[r].next_seq + 1
    BY <1>2, <1>8, <1>9
  <2>2. ASSUME NEW s \in Agents PROVE doc[s].next_seq \in Nat
    BY DEF OpInv, DocInv
  <2>3. \A s \in Agents \ {r} : doc'[s].next_seq = doc[s].next_seq
    BY <1>9
  <2> QED
    BY <2>1, <2>2, <2>3
<1>13. IdsBelow'
  <2> SUFFICES ASSUME NEW o \in AllOps'
               PROVE  /\ o.kind \in {"Insert", "Delete"}
                      /\ o.id.agent \in Agents
                      /\ o.id.seq \in Nat
                      /\ o.id.seq < doc'[o.id.agent].next_seq
                      /\ o.id = [agent |-> o.id.agent, seq |-> o.id.seq]
    BY DEF IdsBelow
  <2>1. CASE o = op
    BY <2>1, <1>1, <1>4, <1>12
  <2>2. CASE o \in AllOps
    <3>1. /\ o.kind \in {"Insert", "Delete"}
          /\ o.id.agent \in Agents
          /\ o.id.seq \in Nat
          /\ o.id.seq < doc[o.id.agent].next_seq
          /\ o.id = [agent |-> o.id.agent, seq |-> o.id.seq]
      BY <2>2 DEF OpInv, IdsBelow
    <3>2. doc[o.id.agent].next_seq \in Nat
      BY <3>1 DEF OpInv, DocInv
    <3> QED
      BY <3>1, <3>2, <1>12
  <2> QED
    BY <2>1, <2>2, <1>11
<1>14. IdsAreUnique'
  BY <1>5, <1>11 DEF OpInv, IdsAreUnique
<1>15. LogsGrow
  BY <1>10 DEF LogsGrow
<1>16. Edited(r, op)
  <2>1. Logged(d, op, Integrate(d, op))
    BY <1>2, <1>7, IntegrateLogs
  <2>2. Logged(doc[r], op, doc'[r])
    BY <1>2, <1>9, <2>1 DEF Logged, e
  <2>3. \A s \in Agents \ {r} : doc'[s] = doc[s]
    BY <1>9
  <2> QED  BY <1>5, <1>10, <1>11, <1>12, <2>2, <2>3 DEF Edited
<1> QED
  BY <1>8, <1>9, <1>13, <1>14, <1>15, <1>16 DEF OpInv

LEMMA InitOpInv == Init => OpInv
<1> SUFFICES ASSUME Init PROVE OpInv
  OBVIOUS
<1>1. ASSUME NEW r \in Agents PROVE DocInv(doc[r], r) /\ Ops(r) = {}
  <2>1. doc[r] = New(r)
    BY DEF Init
  <2>2. /\ DOMAIN doc[r] = Fields /\ doc[r].agent = r /\ doc[r].next_seq = 1
        /\ doc[r].items = [id \in {} |-> {}]
        /\ doc[r].pending_deletes = {} /\ doc[r].applied_deletes = {}
        /\ doc[r].op_log = <<>>
    BY <2>1 DEF New, Fields
  <2>3. ToSet(doc[r].op_log) = {} /\ doc[r].op_log \in Seq(ToSet(doc[r].op_log))
    BY <2>2, EmptySeq DEF ToSet
  <2>4. Reflects(doc[r].items, doc[r].pending_deletes, doc[r].applied_deletes, {})
    <3>1. Inserts({}) = {} /\ Deletes({}) = {}
      BY DEF Inserts, Deletes
    <3>2. Targets({}) = {}
      BY <3>1 DEF Targets
    <3>3. DOMAIN doc[r].items = {}
      BY <2>2
    <3> QED
      BY <2>2, <3>1, <3>2, <3>3 DEF Reflects
  <2>5. Reflects(doc[r].items, doc[r].pending_deletes, doc[r].applied_deletes,
                 ToSet(doc[r].op_log))
    BY <2>3, <2>4
  <2>6. DOMAIN doc[r].items = {} /\ doc[r].items = [id \in DOMAIN doc[r].items |-> doc[r].items[id]]
    BY <2>2
  <2>7. DocInv(doc[r], r)
    BY <2>2, <2>3, <2>5, <2>6 DEF DocInv
  <2>8. Ops(r) = {}
    BY <2>3 DEF Ops
  <2> QED
    BY <2>7, <2>8
<1>2. AllOps = {}
  BY <1>1 DEF AllOps
<1>3. doc = [r \in Agents |-> doc[r]]
  BY DEF Init
<1> QED
  BY <1>1, <1>2, <1>3 DEF OpInv, IdsBelow, IdsAreUnique

\* Two islands whose logs hold the same operations have the same items.
LEMMA SameOpsSameItems ==
    ASSUME NEW items1, NEW items2, NEW p1, NEW p2, NEW del1, NEW del2, NEW O,
           items1 = [id \in DOMAIN items1 |-> items1[id]],
           items2 = [id \in DOMAIN items2 |-> items2[id]],
           Reflects(items1, p1, del1, O), Reflects(items2, p2, del2, O)
    PROVE  items1 = items2
<1>1. DOMAIN items1 = DOMAIN items2
  BY DEF Reflects
<1>2. ASSUME NEW id \in DOMAIN items1 PROVE items1[id] = items2[id]
  <2>1. PICK o \in Inserts(O) : o.id = id
    BY DEF Reflects
  <2>2. items1[id].parent = items2[id].parent
    BY <2>1 DEF Reflects
  <2>3. /\ items1[id].deleted \in BOOLEAN /\ items2[id].deleted \in BOOLEAN
        /\ items1[id].deleted <=> items2[id].deleted
    BY <1>1 DEF Reflects
  <2>4. items1[id].deleted = items2[id].deleted
    BY <2>3
  <2> QED
    BY <1>1, <2>2, <2>4 DEF Reflects
<1> QED
  BY <1>1, <1>2

-----------------------------------------------------------------------------
(***************************************************************************)
(* Operations of other islands, one at a time or many in turn.             *)
(***************************************************************************)
Replayed(d, a, ops, i, e) ==
    /\ DocInv(e, a)
    /\ ToSet(e.op_log) = ToSet(d.op_log) \cup {ops[j] : j \in 1..i}
    /\ e.next_seq = d.next_seq

\* An operation that the log lacks has not been applied, and the other way round.
LEMMA AppliedOrNew ==
    ASSUME OpInv, NEW r \in Agents, NEW e, DocInv(e, r), ToSet(e.op_log) \subseteq AllOps,
           e.next_seq = doc[r].next_seq, NEW op \in AllOps
    PROVE  /\ Applied(e, op) => op \in ToSet(e.op_log) /\ Integrate(e, op) = e
           /\ ~Applied(e, op) => IsNew(e, r, op)
<1>1. /\ op.kind \in {"Insert", "Delete"}
      /\ op.id.seq \in Nat
      /\ op.id.agent = r => op.id.seq < e.next_seq
  BY DEF OpInv, IdsBelow
<1>2. ASSUME Applied(e, op) PROVE op \in ToSet(e.op_log) /\ Integrate(e, op) = e
  <2>1. PICK o \in ToSet(e.op_log) : o.id = op.id
    BY <1>1, <1>2, AppliedIsLogged
  <2>2. o = op
    BY <2>1 DEF OpInv, IdsAreUnique
  <2> QED  BY <1>2, <2>1, <2>2 DEF Integrate
<1> QED  BY <1>1, <1>2 DEF IsNew

LEMMA ReplayEffect ==
    ASSUME OpInv, NEW r \in Agents, NEW ops \in Seq(AllOps), NEW E, Applying(E, doc[r], ops)
    PROVE  \A i \in 0..Len(ops) : Replayed(doc[r], r, ops, i, E[i])
<1> DEFINE n == Len(ops)
           d == doc[r]
           g == [i \in 0..n |-> i]
           T == {i \in 0..n : Replayed(d, r, ops, i, E[i])}
<1>1. n \in Nat /\ \A i \in 1..n : ops[i] \in AllOps
  BY LenProperties, ElementOfSeq
<1>2. DocInv(d, r) /\ ToSet(d.op_log) \subseteq AllOps
  BY DEF OpInv, AllOps, Ops
<1>3. Replayed(d, r, ops, 0, E[0])
  <2>1. 1..0 = {} /\ E[0] = d
    BY DEF Applying
  <2>2. {ops[j] : j \in 1..0} = {}
    BY <2>1
  <2> HIDE DEF d
  <2> QED  BY <1>2, <2>1, <2>2 DEF Replayed
<1>4. ASSUME NEW i \in 1..n, Replayed(d, r, ops, i - 1, E[i - 1])
      PROVE  Replayed(d, r, ops, i, E[i])
  <2> DEFINE e == E[i - 1]
             op == ops[i]
  <2>1. E[i] = Integrate(e, op)
    BY DEF Applying
  <2>2. op \in AllOps
    BY <1>1
  <2>3. {ops[j] : j \in 1..i} = {ops[j] : j \in 1..(i - 1)} \cup {op}
    <3>1. \A j : j \in 1..i <=> (j \in 1..(i - 1) \/ j = i)
      BY <1>1
    <3> HIDE DEF n
    <3> QED  BY <3>1
  <2> HIDE DEF e, op, n
  <2>4. /\ DocInv(e, r) /\ ToSet(e.op_log) = ToSet(d.op_log) \cup {ops[j] : j \in 1..(i - 1)}
        /\ e.next_seq = d.next_seq
    BY <1>4 DEF Replayed, e
  <2>5. ToSet(e.op_log) \subseteq AllOps
    <3>1. \A j \in 1..(i - 1) : j \in 1..n
      BY <1>1
    <3>2. \A j \in 1..(i - 1) : ops[j] \in AllOps
      BY <1>1, <3>1
    <3> QED  BY <1>2, <2>4, <3>2
  <2>6. CASE Applied(e, op)
    <3>1. op \in ToSet(e.op_log) /\ E[i] = e
      BY <2>1, <2>2, <2>4, <2>5, <2>6, AppliedOrNew
    <3> QED  BY <2>3, <2>4, <3>1 DEF Replayed
  <2>7. CASE ~Applied(e, op)
    <3>1. Integrated(e, r, op, Integrate(e, op))
      BY <2>2, <2>4, <2>5, <2>7, AppliedOrNew, IntegrateEffect
    <3> QED  BY <2>1, <2>3, <2>4, <3>1 DEF Replayed, Integrated
  <2> QED  BY <2>6, <2>7
<1>5. g[0] \in T
  BY <1>1, <1>3
<1>6. ASSUME NEW i \in 1..n, g[i - 1] \in T PROVE g[i] \in T
  <2>1. i - 1 \in 0..n /\ i \in 0..n
    BY <1>1
  <2>2. g[i - 1] = i - 1 /\ g[i] = i
    BY <2>1
  <2> HIDE DEF g, n
  <2>3. Replayed(d, r, ops, i - 1, E[i - 1])
    BY <1>6, <2>2
  <2> QED  BY <1>4, <2>1, <2>2, <2>3
<1>7. \A i \in 0..n : g[i] \in T
  <2> HIDE DEF n, g, T
  <2> QED  BY <1>1, <1>5, <1>6, StepByStep
<1> QED  BY <1>7

\* r integrates the operations of ops in turn.
ReplayBy(r, ops) ==
    /\ ops \in Seq(AllOps)
    /\ doc' = [doc EXCEPT ![r] = ApplyDelta(@, ops)]

LEMMA ReplayStep ==
    ASSUME OpInv, NEW r \in Agents, NEW ops, ReplayBy(r, ops)
    PROVE  /\ OpInv' /\ LogsGrow /\ AllOps' = AllOps
           /\ \E E : /\ Applying(E, doc[r], ops)
                     /\ \A i \in 0..Len(ops) : Replayed(doc[r], r, ops, i, E[i])
                     /\ doc' = [s \in Agents |-> IF s = r THEN E[Len(ops)] ELSE doc[s]]
<1> DEFINE n == Len(ops)
<1>0. ops \in Seq(AllOps)
  BY DEF ReplayBy
<1>1. PICK E : Applying(E, doc[r], ops) /\ ApplyDelta(doc[r], ops) = E[n]
  BY <1>0, ApplyDeltaRuns
<1>2. n \in Nat /\ \A i \in 1..n : ops[i] \in AllOps
  BY <1>0, LenProperties, ElementOfSeq
<1>3. \A i \in 0..n : Replayed(doc[r], r, ops, i, E[i])
  BY <1>0, <1>1, ReplayEffect
<1> DEFINE e == E[n]
<1>4. DocInv(e, r) /\ ToSet(e.op_log) = Ops(r) \cup {ops[j] : j \in 1..n} /\ e.next_seq = doc[r].next_seq
  BY <1>2, <1>3 DEF Replayed, Ops
<1>5. doc' = [s \in Agents |-> IF s = r THEN e ELSE doc[s]]
  BY <1>1 DEF ReplayBy, OpInv
<1> HIDE DEF e, n
<1>6. \A s \in Agents : doc'[s].next_seq = doc[s].next_seq
  BY <1>4, <1>5
<1>7. \A s \in Agents : Ops(s)' = IF s = r THEN Ops(s) \cup {ops[j] : j \in 1..n} ELSE Ops(s)
  BY <1>4, <1>5 DEF Ops
<1>8. AllOps' = AllOps
  BY <1>2, <1>7 DEF AllOps
<1>9. IdsBelow' /\ IdsAreUnique'
  BY <1>6, <1>8 DEF OpInv, IdsBelow, IdsAreUnique
<1>10. LogsGrow
  BY <1>7 DEF LogsGrow
<1>11. OpInv'
  BY <1>4, <1>5, <1>9 DEF OpInv
<1> QED  BY <1>1, <1>3, <1>5, <1>8, <1>10, <1>11 DEF n, e

\* One operation on its own.
LEMMA ReceiveReplays ==
    ASSUME NEW r \in Agents, NEW op \in AllOps, Receive(r, op)
    PROVE  ReplayBy(r, <<op>>)
<1>1. <<op>> \in Seq(AllOps) /\ Len(<<op>>) = 1 /\ <<op>>[1] = op
  OBVIOUS
<1>2. ApplyDelta(doc[r], <<op>>) = Integrate(doc[r], op)
  <2> DEFINE ops == <<op>>
  <2> HIDE DEF ops
  <2>1. PICK E : Applying(E, doc[r], ops) /\ ApplyDelta(doc[r], ops) = E[Len(ops)]
    BY <1>1, ApplyDeltaRuns DEF ops
  <2>2. Len(ops) = 1 /\ ops[1] = op
    BY <1>1 DEF ops
  <2>3. E[1] = Integrate(E[1 - 1], op) /\ E[0] = doc[r] /\ 1 - 1 = 0
    BY <2>1, <2>2 DEF Applying
  <2>4. E[1 - 1] = E[0]
    BY <2>3
  <2> QED  BY <2>1, <2>2, <2>3, <2>4 DEF ops
<1> QED  BY <1>1, <1>2 DEF Receive, ReplayBy

-----------------------------------------------------------------------------
(***************************************************************************)
(* The forest of all characters.                                           *)
(***************************************************************************)
Chars == {o.id : o \in Inserts(AllOps)}

ParentOf == [id \in Chars |-> (CHOOSE o \in Inserts(AllOps) : o.id = id).parent]

RankedBy(rank, N) ==
    /\ N \in Nat
    /\ \A o \in Inserts(AllOps) :
           /\ rank[o.id] \in 0..N
           /\ o.parent = None \/ (o.parent \in Chars /\ rank[o.parent] < rank[o.id])

TextInv ==
    /\ IsFiniteSet(Chars)
    /\ \A o \in AllOps : o.id \in ItemId /\ o \in Ops(o.id.agent)
    /\ \A r \in Agents : doc[r].next_seq >= 1
    /\ \E rank, N : RankedBy(rank, N)

LEMMA NoneIsNoId == None \notin ItemId /\ Agents \subseteq Nat /\ MaxSeq \in Nat
BY RgaAssumption

LEMMA CharsHaveOneParent ==
    ASSUME OpInv
    PROVE  \A o \in Inserts(AllOps) : o.id \in Chars /\ ParentOf[o.id] = o.parent
<1> SUFFICES ASSUME NEW o \in Inserts(AllOps) PROVE o.id \in Chars /\ ParentOf[o.id] = o.parent
  OBVIOUS
<1>1. o.id \in Chars
  BY DEF Chars
<1>2. \A p \in Inserts(AllOps) : p.id = o.id => p = o
  BY DEF OpInv, IdsAreUnique, Inserts
<1> QED  BY <1>1, <1>2 DEF ParentOf

LEMMA CharsAreAForest ==
    ASSUME OpInv, TextInv, NEW rank, NEW N, RankedBy(rank, N)
    PROVE  Forest(Chars, ParentOf, rank, N)
<1>1. IsFiniteSet(Chars) /\ N \in Nat
  BY DEF TextInv, RankedBy
<1>2. ASSUME NEW x \in Chars
      PROVE  /\ x = [agent |-> x.agent, seq |-> x.seq] /\ x.agent \in Nat /\ x.seq \in Nat
             /\ rank[x] \in Nat /\ rank[x] <= N
             /\ ParentOf[x] \in Chars => rank[ParentOf[x]] < rank[x]
  <2>1. PICK o \in Inserts(AllOps) : x = o.id
    BY DEF Chars
  <2>2. x \in ItemId
    BY <2>1 DEF TextInv, Inserts
  <2>3. x = [agent |-> x.agent, seq |-> x.seq] /\ x.agent \in Nat /\ x.seq \in Nat
    <3>1. PICK a \in Agents, n \in 1..MaxSeq : x = [agent |-> a, seq |-> n]
      BY <2>2 DEF ItemId
    <3>2. a \in Nat /\ n \in Nat
      BY NoneIsNoId
    <3> QED  BY <3>1, <3>2
  <2>4. ParentOf[x] = o.parent
    BY <2>1, CharsHaveOneParent
  <2>5. rank[x] \in 0..N /\ (o.parent = None \/ rank[o.parent] < rank[o.id])
    BY <2>1 DEF RankedBy
  <2>6. None \notin Chars
    BY NoneIsNoId DEF Chars, TextInv, Inserts
  <2> QED  BY <1>1, <2>1, <2>3, <2>4, <2>5, <2>6
<1> QED  BY <1>1, <1>2 DEF Forest, Comparable, Rooted

\* What an island has placed is part of that forest.
LEMMA ItemsAreChars ==
    ASSUME OpInv, NEW r \in Agents
    PROVE  /\ DOMAIN doc[r].items \subseteq Chars
           /\ \A id \in DOMAIN doc[r].items : doc[r].items[id].parent = ParentOf[id]
           /\ \A id \in DOMAIN doc[r].items : \E o \in Ops(r) : o.kind = "Insert" /\ o.id = id
<1>1. Reflects(doc[r].items, doc[r].pending_deletes, doc[r].applied_deletes, Ops(r))
  BY DEF OpInv, DocInv, Ops
<1>2. Inserts(Ops(r)) \subseteq Inserts(AllOps)
  BY DEF Inserts, AllOps
<1>3. ASSUME NEW id \in DOMAIN doc[r].items
      PROVE  /\ id \in Chars /\ doc[r].items[id].parent = ParentOf[id]
             /\ \E o \in Ops(r) : o.kind = "Insert" /\ o.id = id
  <2>1. PICK o \in Inserts(Ops(r)) : o.id = id
    BY <1>1 DEF Reflects
  <2>2. doc[r].items[id].parent = o.parent
    BY <1>1, <2>1 DEF Reflects
  <2>3. id \in Chars /\ ParentOf[id] = o.parent
    BY <1>2, <2>1, CharsHaveOneParent
  <2>4. o \in Ops(r) /\ o.kind = "Insert"
    BY <2>1 DEF Inserts
  <2> QED  BY <2>1, <2>2, <2>3, <2>4
<1> QED  BY <1>3

\* The characters an island can walk are some of those it has placed.
LEMMA WalksItsItems ==
    ASSUME OpInv, TextInv, NEW r \in Agents
    PROVE  /\ Walk(doc[r].items) \in Seq(DOMAIN doc[r].items)
           /\ Ordered(Walk(doc[r].items), Chars, ParentOf)
           /\ Visible(doc[r].items) \in Seq(DOMAIN doc[r].items)
<1> DEFINE items == doc[r].items
<1>1. PICK rank, N : RankedBy(rank, N)
  BY DEF TextInv
<1>2. Forest(Chars, ParentOf, rank, N)
  BY <1>1, CharsAreAForest
<1>3. DOMAIN items \subseteq Chars /\ \A id \in DOMAIN items : items[id].parent = ParentOf[id]
  BY ItemsAreChars
<1> HIDE DEF items
<1>4. Walk(items) \in Seq(DOMAIN items) /\ Ordered(Walk(items), Chars, ParentOf)
  BY <1>2, <1>3, WalkOfItems
<1>5. Visible(items) \in Seq(DOMAIN items)
  BY <1>4, ThoseAreSifted DEF Visible
<1> QED  BY <1>4, <1>5 DEF items

\* Two islands never place two characters in opposite orders.
LEMMA OrderIsGlobal ==
    ASSUME OpInv, TextInv
    PROVE  OrderAgrees
<1> SUFFICES ASSUME NEW r \in Agents, NEW s \in Agents,
                    NEW x, NEW y, Before(r, x, y), Before(s, y, x)
             PROVE  FALSE
  BY DEF OrderAgrees
<1>1. PICK rank, N : RankedBy(rank, N)
  BY DEF TextInv
<1>2. Rooted(Chars, ParentOf, rank) /\ Comparable(Chars)
  BY <1>1, CharsAreAForest DEF Forest
<1>3. ASSUME NEW t \in Agents, NEW u, NEW v, Before(t, u, v)
      PROVE  u \in Chars /\ v \in Chars /\ Precedes(u, v, Chars, ParentOf)
  <2> DEFINE w == Walk(doc[t].items)
  <2>1. w \in Seq(DOMAIN doc[t].items) /\ Ordered(w, Chars, ParentOf)
    BY WalksItsItems
  <2>2. DOMAIN doc[t].items \subseteq Chars
    BY ItemsAreChars
  <2>3. PICK i \in DOMAIN w, j \in DOMAIN w : i < j /\ w[i] = u /\ w[j] = v
    BY <1>3 DEF Before
  <2> HIDE DEF w
  <2>4. i \in 1..Len(w) /\ j \in 1..Len(w)
    BY <2>1, <2>3, LenProperties
  <2>5. u \in Chars /\ v \in Chars
    BY <2>1, <2>2, <2>3, <2>4, ElementOfSeq
  <2> QED  BY <2>1, <2>3, <2>4, <2>5 DEF Ordered
<1>4. /\ x \in Chars /\ y \in Chars
      /\ Precedes(x, y, Chars, ParentOf) /\ Precedes(y, x, Chars, ParentOf)
  BY <1>3
<1> QED  BY <1>2, <1>4, PrecedesIsStrict

-----------------------------------------------------------------------------
(***************************************************************************)
(* How steps keep the forest.                                              *)
(***************************************************************************)
\* A local edit hangs its character under one that its island has placed.
Rooting(r, op) ==
    /\ EditBy(r, op)
    /\ doc[r].next_seq <= MaxSeq
    /\ Depends(op) \subseteq DOMAIN doc[r].items

LEMMA EditRanks ==
    ASSUME OpInv, TextInv, NEW r \in Agents, NEW op, Rooting(r, op)
    PROVE  TextInv'
<1>1. OpInv' /\ LogsGrow /\ Edited(r, op)
  BY EditStep DEF Rooting
<1>2. /\ AllOps' = AllOps \cup {op} /\ op \in Ops(r)'
      /\ op.id = [agent |-> r, seq |-> doc[r].next_seq]
      /\ doc[r].next_seq \in Nat /\ op.kind \in {"Insert", "Delete"}
  BY <1>1 DEF Edited, Rooting, EditBy, AllocId, OpInv, DocInv
<1>3. op.id \in ItemId /\ op.id.agent = r
  <2>1. doc[r].next_seq \in 1..MaxSeq
    BY <1>2, NoneIsNoId DEF TextInv, Rooting
  <2> QED  BY <1>2, <2>1 DEF ItemId
<1>4. ASSUME NEW s \in Agents PROVE doc'[s].next_seq >= 1
  <2>1. doc[s].next_seq \in Nat /\ doc[s].next_seq >= 1
    BY DEF OpInv, DocInv, TextInv
  <2>2. doc'[s].next_seq = doc[s].next_seq \/ doc'[s].next_seq = doc[s].next_seq + 1
    BY <1>1 DEF Edited
  <2> QED  BY <2>1, <2>2
<1>5. ASSUME NEW o \in AllOps' PROVE o.id \in ItemId /\ o \in Ops(o.id.agent)'
  <2>1. CASE o = op
    BY <1>2, <1>3, <2>1
  <2>2. CASE o \in AllOps
    <3>1. o.id \in ItemId /\ o \in Ops(o.id.agent) /\ o.id.agent \in Agents
      BY <2>2 DEF TextInv, OpInv, IdsBelow
    <3> QED  BY <1>1, <3>1 DEF LogsGrow
  <2> QED  BY <1>2, <2>1, <2>2
<1>6. PICK rank, N : RankedBy(rank, N)
  BY DEF TextInv
<1>7. N \in Nat /\ IsFiniteSet(Chars)
  BY <1>6 DEF TextInv, RankedBy
<1>8. CASE op.kind = "Delete"
  <2>1. Inserts(AllOps') = Inserts(AllOps)
    BY <1>2, <1>8 DEF Inserts
  <2>2. Chars' = Chars /\ Inserts(AllOps)' = Inserts(AllOps)
    BY <2>1 DEF Chars
  <2>3. RankedBy(rank, N)'
    BY <1>6, <2>2 DEF RankedBy
  <2> QED  BY <1>4, <1>5, <1>7, <2>2, <2>3 DEF TextInv
<1>9. CASE op.kind = "Insert"
  <2>0. PICK ranks : ranks = [id \in Chars \cup {op.id} |-> IF id = op.id THEN N + 1 ELSE rank[id]]
    OBVIOUS
  <2>1. Inserts(AllOps)' = Inserts(AllOps) \cup {op}
    BY <1>2, <1>9 DEF Inserts
  <2>2. Chars' = Chars \cup {op.id}
    <3>1. {o.id : o \in Inserts(AllOps) \cup {op}} = {o.id : o \in Inserts(AllOps)} \cup {op.id}
      BY OneMoreImage
    <3> QED  BY <2>1, <3>1 DEF Chars
  <2>3. op.id \notin Chars /\ None # op.id
    BY <1>1, <1>3, NoneIsNoId DEF Edited, Chars, Inserts
  <2>4. ASSUME NEW o \in Inserts(AllOps)
        PROVE  /\ ranks[o.id] \in 0..(N + 1) /\ o.id \in Chars
               /\ o.parent = None \/ (o.parent \in Chars /\ ranks[o.parent] < ranks[o.id])
    <3>1. /\ o.id \in Chars /\ rank[o.id] \in 0..N
          /\ o.parent = None \/ (o.parent \in Chars /\ rank[o.parent] < rank[o.id])
      BY <1>6 DEF RankedBy, Chars
    <3>2. \A id \in Chars : ranks[id] = rank[id]
      BY <2>0, <2>3
    <3> QED  BY <1>7, <3>1, <3>2
  <2>5. /\ ranks[op.id] = N + 1
        /\ op.parent = None \/ (op.parent \in Chars /\ ranks[op.parent] < ranks[op.id])
    <3>1. ranks[op.id] = N + 1
      BY <2>0
    <3>2. ASSUME op.parent # None PROVE op.parent \in Chars /\ ranks[op.parent] < ranks[op.id]
      <4>1. op.parent \in Depends(op)
        BY <1>9, <3>2 DEF Depends
      <4>2. op.parent \in Chars
        BY <4>1, ItemsAreChars DEF Rooting
      <4>3. PICK o \in Inserts(AllOps) : o.id = op.parent
        BY <4>2 DEF Chars
      <4>4. rank[op.parent] \in 0..N
        BY <1>6, <4>3 DEF RankedBy
      <4>5. ranks[op.parent] = rank[op.parent]
        BY <2>0, <2>3, <4>2
      <4> QED  BY <1>7, <3>1, <4>2, <4>4, <4>5
    <3> QED  BY <3>1, <3>2
  <2>6. RankedBy(ranks, N + 1)'
    <3>1. N + 1 \in Nat /\ N + 1 \in 0..(N + 1)
      BY <1>7
    <3>2. ASSUME NEW o \in Inserts(AllOps)'
          PROVE  /\ ranks[o.id] \in 0..(N + 1)
                 /\ o.parent = None \/ (o.parent \in Chars' /\ ranks[o.parent] < ranks[o.id])
      <4>1. CASE o = op
        BY <2>2, <2>5, <3>1, <4>1
      <4>2. CASE o \in Inserts(AllOps)
        BY <2>2, <2>4, <4>2
      <4> QED  BY <2>1, <4>1, <4>2
    <3>3. \A o \in Inserts(AllOps)' :
              /\ ranks[o.id] \in 0..(N + 1)
              /\ o.parent = None \/ (o.parent \in Chars' /\ ranks[o.parent] < ranks[o.id])
      BY <3>2
    <3> QED  BY <3>1, <3>3 DEF RankedBy
  <2>7. IsFiniteSet(Chars')
    BY <1>7, <2>2, FS_AddElement
  <2> QED  BY <1>4, <1>5, <2>6, <2>7 DEF TextInv
<1> QED  BY <1>2, <1>8, <1>9

LEMMA ReplayRanks ==
    ASSUME OpInv, TextInv, NEW r \in Agents, NEW ops, ReplayBy(r, ops)
    PROVE  TextInv'
<1>1. LogsGrow /\ AllOps' = AllOps
  BY ReplayStep
<1>2. PICK E : /\ \A i \in 0..Len(ops) : Replayed(doc[r], r, ops, i, E[i])
               /\ doc' = [s \in Agents |-> IF s = r THEN E[Len(ops)] ELSE doc[s]]
  BY ReplayStep
<1>3. Len(ops) \in 0..Len(ops)
  <2>1. Len(ops) \in Nat
    BY LenProperties DEF ReplayBy
  <2> QED  BY <2>1
<1>4. \A s \in Agents : doc'[s].next_seq = doc[s].next_seq
  BY <1>2, <1>3 DEF Replayed
<1>5. Chars' = Chars /\ Inserts(AllOps)' = Inserts(AllOps)
  BY <1>1 DEF Chars
<1>6. \A o \in AllOps' : o.id \in ItemId /\ o \in Ops(o.id.agent)'
  BY <1>1 DEF TextInv, LogsGrow, OpInv, IdsBelow
<1>7. \E rank, N : RankedBy(rank, N)'
  BY <1>5 DEF TextInv, RankedBy
<1> QED  BY <1>4, <1>5, <1>6, <1>7 DEF TextInv

LEMMA NothingMoves ==
    ASSUME UNCHANGED doc
    PROVE  /\ AllOps' = AllOps /\ \A r \in Agents : Ops(r)' = Ops(r)
           /\ OpInv => OpInv' /\ LogsGrow
           /\ TextInv => TextInv'
<1>1. AllOps' = AllOps /\ \A r \in Agents : Ops(r)' = Ops(r)
  BY DEF AllOps, Ops
<1>2. OpInv => OpInv' /\ LogsGrow
  BY <1>1 DEF OpInv, IdsBelow, IdsAreUnique, LogsGrow
<1>3. Chars' = Chars /\ Inserts(AllOps)' = Inserts(AllOps)
  BY <1>1 DEF Chars
<1>4. TextInv => TextInv'
  <2> SUFFICES ASSUME TextInv PROVE TextInv'
    OBVIOUS
  <2>1. \E rank, N : RankedBy(rank, N)'
    BY <1>3 DEF TextInv, RankedBy
  <2>2. \A o \in AllOps' : o.id \in ItemId /\ o \in Ops(o.id.agent)'
    BY <1>1 DEF TextInv, Ops
  <2> QED  BY <1>3, <2>1, <2>2 DEF TextInv
<1> QED  BY <1>1, <1>2, <1>4

-----------------------------------------------------------------------------
(***************************************************************************)
(* Deltas.  A sequence of operations fits what is known when every earlier *)
(* operation of the same agent, and what each operation depends on, is     *)
(* known or comes before it.                                               *)
(***************************************************************************)
Fits(O, known, ops) ==
    \A i \in 1..Len(ops) :
        /\ \A p \in O : p.id.agent = ops[i].id.agent /\ p.id.seq <= ops[i].id.seq =>
               p \in known \/ \E j \in 1..i : ops[j] = p
        /\ \A id \in Depends(ops[i]) :
               \/ \E o \in known : o.kind = "Insert" /\ o.id = id
               \/ \E j \in 1..(i - 1) : ops[j].kind = "Insert" /\ ops[j].id = id

\* The entry of an agent is the highest seq among its operations in S.
VectorExact(vector, S) ==
    /\ vector = [a \in Agents |-> vector[a]]
    /\ \A a \in Agents :
           /\ vector[a] \in Nat
           /\ \A o \in S : o.id.agent = a => o.id.seq <= vector[a]
           /\ vector[a] = 0 \/ \E o \in S : o.id.agent = a /\ o.id.seq = vector[a]

LEMMA FitsMoreKnown ==
    ASSUME NEW O, NEW known, NEW more, known \subseteq more, NEW ops, Fits(O, known, ops)
    PROVE  Fits(O, more, ops)
BY DEF Fits

LEMMA FitsNewOp ==
    ASSUME NEW O, NEW known, NEW ops \in Seq(O), Fits(O, known, ops), NEW op,
           \A o \in O : o.id.agent = op.id.agent => ~(op.id.seq <= o.id.seq)
    PROVE  Fits(O \cup {op}, known, ops)
<1>1. \A i \in 1..Len(ops) : ops[i] \in O
  BY ElementOfSeq
<1> QED  BY <1>1 DEF Fits

LEMMA FitsAppended ==
    ASSUME NEW O, NEW log \in Seq(O), Fits(O, {}, log), NEW op \in O,
           \A p \in O : p.id.agent = op.id.agent /\ p.id.seq <= op.id.seq =>
               p \in ToSet(log) \/ p = op,
           \A id \in Depends(op) : \E o \in ToSet(log) : o.kind = "Insert" /\ o.id = id
    PROVE  Fits(O, {}, Append(log, op))
<1> DEFINE u == Append(log, op)
           n == Len(log)
<1>1. n \in Nat /\ Len(u) = n + 1 /\ u[n + 1] = op /\ (\A i \in 1..n : u[i] = log[i]) /\ DOMAIN log = 1..n
  BY AppendProperties, LenProperties
<1>2. \A p \in ToSet(log) : \E j \in 1..n : log[j] = p
  BY <1>1 DEF ToSet
<1> HIDE DEF u, n
<1>3. ASSUME NEW i \in 1..Len(u)
      PROVE  /\ \A p \in O : p.id.agent = u[i].id.agent /\ p.id.seq <= u[i].id.seq =>
                    \E j \in 1..i : u[j] = p
             /\ \A id \in Depends(u[i]) :
                    \E j \in 1..(i - 1) : u[j].kind = "Insert" /\ u[j].id = id
  <2>1. CASE i \in 1..n
    <3>1. \A j \in 1..i : j \in 1..n
      BY <1>1, <2>1
    <3>2. \A j \in 1..(i - 1) : j \in 1..n
      BY <1>1, <2>1
    <3>3. u[i] = log[i] /\ (\A j \in 1..i : u[j] = log[j]) /\ \A j \in 1..(i - 1) : u[j] = log[j]
      BY <1>1, <2>1, <3>1, <3>2
    <3>4. /\ \A p \in O : p.id.agent = log[i].id.agent /\ p.id.seq <= log[i].id.seq =>
                 \E j \in 1..i : log[j] = p
          /\ \A id \in Depends(log[i]) :
                 \E j \in 1..(i - 1) : log[j].kind = "Insert" /\ log[j].id = id
      BY <2>1 DEF Fits, n
    <3>5. \A p \in O : p.id.agent = u[i].id.agent /\ p.id.seq <= u[i].id.seq => \E j \in 1..i : u[j] = p
      BY <3>3, <3>4
    <3>6. ASSUME NEW id \in Depends(u[i])
          PROVE  \E j \in 1..(i - 1) : u[j].kind = "Insert" /\ u[j].id = id
      <4>1. PICK j \in 1..(i - 1) : log[j].kind = "Insert" /\ log[j].id = id
        BY <3>3, <3>4
      <4> QED  BY <3>3, <4>1
    <3> QED  BY <3>5, <3>6
  <2>2. CASE i = n + 1
    <3>1. u[i] = op /\ i - 1 = n /\ i \in 1..i /\ \A j \in 1..n : j \in 1..i
      BY <1>1, <2>2
    <3>2. \A p \in ToSet(log) : \E j \in 1..n : u[j] = p
      BY <1>1, <1>2
    <3>3. \A p \in O : p.id.agent = u[i].id.agent /\ p.id.seq <= u[i].id.seq => \E j \in 1..i : u[j] = p
      BY <3>1, <3>2
    <3>4. \A id \in Depends(u[i]) : \E j \in 1..(i - 1) : u[j].kind = "Insert" /\ u[j].id = id
      BY <3>1, <3>2
    <3> QED  BY <3>3, <3>4
  <2> QED  BY <1>1, <2>1, <2>2
<1> QED  BY <1>3 DEF Fits, u

LEMMA VectorFollows ==
    ASSUME NEW S, NEW d, VectorExact(d.vector, S), NEW op, op.id.agent \in Agents, op.id.seq \in Nat,
           \A o \in S : o.id.seq \in Nat, NEW f, Logged(d, op, f)
    PROVE  VectorExact(f.vector, S \cup {op})
<1> DEFINE v == d.vector
           w == f.vector
           b == op.id.agent
           m == op.id.seq
<1>1. /\ v = [a \in Agents |-> v[a]] /\ \A a \in Agents : v[a] \in Nat
      /\ w = IF m > v[b] THEN [v EXCEPT ![b] = m] ELSE v
  BY DEF VectorExact, Logged
<1>2. w = [a \in Agents |-> w[a]] /\ \A a \in Agents : w[a] = IF a = b /\ m > v[a] THEN m ELSE v[a]
  <2> HIDE DEF v, w, b, m
  <2> QED  BY <1>1
<1>3. ASSUME NEW a \in Agents
      PROVE  /\ w[a] \in Nat
             /\ \A o \in S \cup {op} : o.id.agent = a => o.id.seq <= w[a]
             /\ w[a] = 0 \/ \E o \in S \cup {op} : o.id.agent = a /\ o.id.seq = w[a]
  <2>1. /\ v[a] \in Nat
        /\ \A o \in S : o.id.agent = a => o.id.seq <= v[a]
        /\ v[a] = 0 \/ \E o \in S : o.id.agent = a /\ o.id.seq = v[a]
    BY DEF VectorExact
  <2> HIDE DEF v, w
  <2>2. CASE a = b /\ m > v[a]
    <3>1. w[a] = m
      BY <1>2, <2>2
    <3>2. \A o \in S : o.id.agent = a => o.id.seq <= m
      BY <2>1, <2>2
    <3> QED  BY <2>2, <3>1, <3>2
  <2>3. CASE ~(a = b /\ m > v[a])
    <3>1. w[a] = v[a]
      BY <1>2, <2>3
    <3>2. a = b => m <= v[a]
      BY <2>1, <2>3
    <3> QED  BY <2>1, <3>1, <3>2
  <2> QED  BY <2>2, <2>3
<1> QED  BY <1>2, <1>3 DEF VectorExact

DeltaInv ==
    /\ delta = [r \in Agents |-> [s \in Agents |-> delta[r][s]]]
    /\ \A r, s \in Agents : delta[r][s] \in Seq(AllOps)

CausalInv ==
    /\ \A r \in Agents :
           /\ Fits(AllOps, {}, doc[r].op_log)
           /\ VectorExact(doc[r].vector, Ops(r))
    /\ \A r, s \in Agents : Fits(AllOps, Ops(r), delta[r][s])

LEMMA LogsAreSequences ==
    ASSUME OpInv, NEW r \in Agents
    PROVE  /\ doc[r].op_log \in Seq(AllOps) /\ Ops(r) \subseteq AllOps
           /\ DOMAIN doc[r].op_log = 1..Len(doc[r].op_log) /\ Len(doc[r].op_log) \in Nat
           /\ Ops(r) = {doc[r].op_log[j] : j \in 1..Len(doc[r].op_log)}
<1>1. doc[r].op_log \in Seq(Ops(r)) /\ Ops(r) \subseteq AllOps
  BY DEF OpInv, DocInv, Ops, AllOps
<1>2. doc[r].op_log \in Seq(AllOps)
  BY <1>1, SeqDef
<1>3. DOMAIN doc[r].op_log = 1..Len(doc[r].op_log) /\ Len(doc[r].op_log) \in Nat
  BY <1>2, LenProperties
<1> QED  BY <1>1, <1>2, <1>3 DEF Ops, ToSet

LEMMA VectorKnows ==
    ASSUME OpInv, TextInv, CausalInv
    PROVE  VectorIsComplete
<1> SUFFICES ASSUME NEW r \in Agents, NEW op \in AllOps, op.id.seq <= doc[r].vector[op.id.agent]
             PROVE  op \in Ops(r)
  BY DEF VectorIsComplete
<1> DEFINE a == op.id.agent
           v == doc[r].vector
           log == doc[r].op_log
<1>1. a \in Agents /\ op.id.seq \in Nat /\ op.id.seq # 0
  <2>1. op.id \in ItemId
    BY DEF TextInv
  <2> QED  BY <2>1 DEF ItemId
<1>2. v[a] \in Nat /\ (v[a] = 0 \/ \E o \in Ops(r) : o.id.agent = a /\ o.id.seq = v[a])
  BY <1>1 DEF CausalInv, VectorExact
<1> HIDE DEF v
<1>3. PICK o \in Ops(r) : o.id.agent = a /\ o.id.seq = v[a]
  BY <1>1, <1>2 DEF v
<1>4. PICK i \in 1..Len(log) : log[i] = o
  BY <1>3, LogsAreSequences
<1>5. Fits(AllOps, {}, log) /\ Len(log) \in Nat
  BY LogsAreSequences DEF CausalInv
<1> HIDE DEF log, a
<1>6. op.id.agent = log[i].id.agent /\ op.id.seq <= log[i].id.seq
  BY <1>3, <1>4 DEF a, v
<1>7. PICK j \in 1..i : log[j] = op
  BY <1>5, <1>6 DEF Fits
<1>8. j \in 1..Len(log)
  BY <1>5
<1> QED  BY <1>7, <1>8, LogsAreSequences DEF log

LEMMA LogsAreCausal ==
    ASSUME OpInv, CausalInv
    PROVE  LogIsCausal
<1> SUFFICES ASSUME NEW r \in Agents, NEW i \in DOMAIN doc[r].op_log, NEW id \in Depends(doc[r].op_log[i])
             PROVE  \E j \in 1..(i - 1) : doc[r].op_log[j].kind = "Insert" /\ doc[r].op_log[j].id = id
  BY DEF LogIsCausal
<1>1. i \in 1..Len(doc[r].op_log) /\ Fits(AllOps, {}, doc[r].op_log)
  BY LogsAreSequences DEF CausalInv
<1> QED  BY <1>1 DEF Fits

\* Replaying operations that fit keeps the log causal and the vector exact.
LEMMA ReplayFits ==
    ASSUME OpInv, CausalInv, NEW r \in Agents, NEW ops \in Seq(AllOps), Fits(AllOps, Ops(r), ops),
           NEW E, Applying(E, doc[r], ops),
           \A i \in 0..Len(ops) : Replayed(doc[r], r, ops, i, E[i])
    PROVE  \A i \in 0..Len(ops) : /\ Fits(AllOps, {}, E[i].op_log)
                                  /\ VectorExact(E[i].vector, ToSet(E[i].op_log))
<1> DEFINE n == Len(ops)
           Sound(e) == Fits(AllOps, {}, e.op_log) /\ VectorExact(e.vector, ToSet(e.op_log))
           g == [i \in 0..n |-> i]
           T == {i \in 0..n : Sound(E[i])}
<1>1. n \in Nat /\ \A i \in 1..n : ops[i] \in AllOps
  BY LenProperties, ElementOfSeq
<1>2. Sound(E[0])
  BY DEF CausalInv, Ops, Applying
<1>3. ASSUME NEW i \in 1..n, Sound(E[i - 1])
      PROVE  Sound(E[i])
  <2> DEFINE e == E[i - 1]
             op == ops[i]
  <2>0. i - 1 \in 0..n /\ i \in 0..n
    BY <1>1
  <2>1. E[i] = Integrate(e, op) /\ op \in AllOps
    BY <1>1 DEF Applying
  <2>2. /\ DocInv(e, r) /\ ToSet(e.op_log) = Ops(r) \cup {ops[j] : j \in 1..(i - 1)}
        /\ e.next_seq = doc[r].next_seq
    BY <2>0 DEF Replayed, Ops
  <2>3. ToSet(e.op_log) \subseteq AllOps
    <3>1. \A j \in 1..(i - 1) : j \in 1..n
      BY <1>1
    <3>2. \A j \in 1..(i - 1) : ops[j] \in AllOps
      BY <1>1, <3>1
    <3> HIDE DEF e
    <3> QED  BY <2>2, <3>2 DEF AllOps
  <2>4. /\ \A p \in AllOps : p.id.agent = op.id.agent /\ p.id.seq <= op.id.seq =>
               p \in Ops(r) \/ \E j \in 1..i : ops[j] = p
        /\ \A id \in Depends(op) :
               \/ \E o \in Ops(r) : o.kind = "Insert" /\ o.id = id
               \/ \E j \in 1..(i - 1) : ops[j].kind = "Insert" /\ ops[j].id = id
    BY DEF Fits
  <2> HIDE DEF e
  <2>5. CASE Applied(e, op)
    <3>1. Integrate(e, op) = e
      BY <2>1, <2>2, <2>3, <2>5, AppliedOrNew
    <3> QED  BY <1>3, <2>1, <3>1 DEF e
  <2>6. CASE ~Applied(e, op)
    <3>1. IsNew(e, r, op) /\ op.kind \in {"Insert", "Delete"} /\ op.id.seq \in Nat /\ op.id.agent \in Agents
      BY <2>1, <2>2, <2>3, <2>6, AppliedOrNew DEF OpInv, IdsBelow
    <3>2. Logged(e, op, E[i]) /\ ToSet(E[i].op_log) = ToSet(e.op_log) \cup {op}
      <4>1. Integrated(e, r, op, E[i])
        BY <2>1, <3>1, IntegrateEffect
      <4>2. DOMAIN e = Fields
        BY <2>2 DEF DocInv
      <4>3. Logged(e, op, Integrate(e, op))
        BY <2>6, <3>1, <4>2, IntegrateLogs
      <4> QED  BY <2>1, <4>1, <4>3 DEF Integrated
    <3>3. e.op_log \in Seq(AllOps)
      BY <2>2, <2>3, SeqDef DEF DocInv
    <3>4. \A p \in AllOps : p.id.agent = op.id.agent /\ p.id.seq <= op.id.seq =>
              p \in ToSet(e.op_log) \/ p = op
      <4>1. \A j \in 1..i : j \in 1..(i - 1) \/ j = i
        OBVIOUS
      <4> QED  BY <2>2, <2>4, <4>1
    <3>5. \A id \in Depends(op) : \E o \in ToSet(e.op_log) : o.kind = "Insert" /\ o.id = id
      BY <2>2, <2>4
    <3>6. Fits(AllOps, {}, e.op_log) /\ VectorExact(e.vector, ToSet(e.op_log))
      BY <1>3 DEF e
    <3> HIDE DEF op
    <3>7. Fits(AllOps, {}, Append(e.op_log, op))
      BY <2>1, <3>3, <3>4, <3>5, <3>6, FitsAppended
    <3>8. VectorExact(E[i].vector, ToSet(e.op_log) \cup {op})
      <4>1. \A o \in ToSet(e.op_log) : o.id.seq \in Nat
        BY <2>3 DEF OpInv, IdsBelow
      <4> QED  BY <3>1, <3>2, <3>6, <4>1, VectorFollows
    <3> QED  BY <3>2, <3>7, <3>8 DEF Logged
  <2> QED  BY <2>5, <2>6
<1>4. g[0] \in T
  BY <1>1, <1>2
<1>5. ASSUME NEW i \in 1..n, g[i - 1] \in T PROVE g[i] \in T
  <2>1. i - 1 \in 0..n /\ i \in 0..n
    BY <1>1
  <2>2. g[i - 1] = i - 1 /\ g[i] = i
    BY <2>1
  <2> HIDE DEF g, n, Sound
  <2>3. Sound(E[i - 1])
    BY <1>5, <2>2
  <2> QED  BY <1>3, <2>1, <2>2, <2>3
<1>6. \A i \in 0..n : g[i] \in T
  <2> HIDE DEF n, g, T
  <2> QED  BY <1>1, <1>4, <1>5, StepByStep
<1> QED  BY <1>6

LEMMA ReplayStaysCausal ==
    ASSUME OpInv, DeltaInv, NEW r \in Agents, NEW ops, ReplayBy(r, ops), UNCHANGED delta
    PROVE  /\ DeltaInv'
           /\ CausalInv /\ Fits(AllOps, Ops(r), ops) => CausalInv'
<1>1. LogsGrow /\ AllOps' = AllOps /\ ops \in Seq(AllOps)
  BY ReplayStep DEF ReplayBy
<1>2. DeltaInv'
  BY <1>1 DEF DeltaInv
<1>3. ASSUME CausalInv, Fits(AllOps, Ops(r), ops) PROVE CausalInv'
  <2>1. PICK E : /\ Applying(E, doc[r], ops)
                 /\ \A i \in 0..Len(ops) : Replayed(doc[r], r, ops, i, E[i])
                 /\ doc' = [s \in Agents |-> IF s = r THEN E[Len(ops)] ELSE doc[s]]
    BY ReplayStep
  <2>2. Len(ops) \in 0..Len(ops)
    <3>1. Len(ops) \in Nat
      BY <1>1, LenProperties
    <3> QED  BY <3>1
  <2>3. Fits(AllOps, {}, E[Len(ops)].op_log) /\ VectorExact(E[Len(ops)].vector, ToSet(E[Len(ops)].op_log))
    BY <1>1, <1>3, <2>1, <2>2, ReplayFits
  <2>4. ASSUME NEW s \in Agents
        PROVE  Fits(AllOps, {}, doc'[s].op_log) /\ VectorExact(doc'[s].vector, ToSet(doc'[s].op_log))
    <3>1. CASE s = r
      BY <2>1, <2>3, <3>1
    <3>2. CASE s # r
      <4>1. doc'[s] = doc[s]
        BY <2>1, <3>2
      <4> QED  BY <1>3, <4>1 DEF CausalInv, Ops
    <3> QED  BY <3>1, <3>2
  <2>5. ASSUME NEW s \in Agents, NEW t \in Agents
        PROVE  Fits(AllOps, Ops(s)', delta[s][t])
    <3>1. Fits(AllOps, Ops(s), delta[s][t]) /\ Ops(s) \subseteq Ops(s)'
      BY <1>1, <1>3 DEF CausalInv, LogsGrow
    <3> QED  BY <3>1, FitsMoreKnown
  <2> QED  BY <1>1, <2>4, <2>5 DEF CausalInv, Ops
<1> QED  BY <1>2, <1>3

LEMMA EditStaysCausal ==
    ASSUME OpInv, TextInv, DeltaInv, NEW r \in Agents, NEW op, Rooting(r, op), UNCHANGED delta
    PROVE  DeltaInv' /\ (CausalInv => CausalInv')
<1>1. OpInv' /\ LogsGrow /\ Edited(r, op)
  BY EditStep DEF Rooting
<1>2. /\ AllOps' = AllOps \cup {op} /\ Ops(r)' = Ops(r) \cup {op} /\ op \in AllOps'
      /\ op.id.agent = r /\ op.id.seq = doc[r].next_seq
      /\ doc[r].next_seq \in Nat
      /\ Logged(doc[r], op, doc'[r])
  <2>1. doc[r].agent = r /\ doc[r].next_seq \in Nat
    BY DEF OpInv, DocInv
  <2>2. op.id = [agent |-> r, seq |-> doc[r].next_seq]
    BY <2>1 DEF Rooting, EditBy, AllocId
  <2>3. op.id.agent = r /\ op.id.seq = doc[r].next_seq
    BY <2>2
  <2> QED  BY <1>1, <2>1, <2>3 DEF Edited
<1>3. DeltaInv'
  <2>1. \A s, t \in Agents : delta[s][t] \in Seq(AllOps')
    BY <1>2, SeqDef DEF DeltaInv
  <2> QED  BY <2>1 DEF DeltaInv
<1>4. ASSUME CausalInv PROVE CausalInv'
  <2>1. \A o \in AllOps : o.id.agent = op.id.agent => ~(op.id.seq <= o.id.seq)
    <3>1. ASSUME NEW o \in AllOps, o.id.agent = op.id.agent PROVE ~(op.id.seq <= o.id.seq)
      <4>1. o.id.seq \in Nat /\ o.id.seq < doc[r].next_seq
        BY <1>2, <3>1 DEF OpInv, IdsBelow
      <4> QED  BY <1>2, <4>1
    <3> QED  BY <3>1
  <2>2. ASSUME NEW s \in Agents PROVE Fits(AllOps', {}, doc[s].op_log)
    <3>1. doc[s].op_log \in Seq(AllOps) /\ Fits(AllOps, {}, doc[s].op_log)
      BY <1>4, LogsAreSequences DEF CausalInv
    <3> QED  BY <1>2, <2>1, <3>1, FitsNewOp
  <2>3. ASSUME NEW s \in Agents, s # r
        PROVE  Fits(AllOps', {}, doc'[s].op_log) /\ VectorExact(doc'[s].vector, Ops(s)')
    <3>1. doc'[s] = doc[s]
      BY <1>1, <2>3 DEF Edited
    <3> QED  BY <1>4, <2>2, <3>1 DEF CausalInv, Ops
  <2>4. Fits(AllOps', {}, doc'[r].op_log)
    <3> DEFINE log == doc[r].op_log
    <3>1. log \in Seq(AllOps') /\ ToSet(log) = Ops(r) /\ Fits(AllOps', {}, log)
      <4>1. log \in Seq(AllOps)
        BY LogsAreSequences
      <4>2. log \in Seq(AllOps')
        BY <1>2, <4>1, SeqDef
      <4>3. ToSet(log) = Ops(r)
        BY DEF Ops
      <4> QED  BY <2>2, <4>2, <4>3
    <3>2. \A p \in AllOps' : p.id.agent = op.id.agent /\ p.id.seq <= op.id.seq => p \in ToSet(log) \/ p = op
      BY <1>2, <3>1 DEF TextInv
    <3>3. \A id \in Depends(op) : \E o \in ToSet(log) : o.kind = "Insert" /\ o.id = id
      BY <3>1, ItemsAreChars DEF Rooting
    <3> HIDE DEF log
    <3>4. Fits(AllOps', {}, Append(log, op))
      BY <1>2, <3>1, <3>2, <3>3, FitsAppended
    <3> QED  BY <1>2, <3>4 DEF Logged, log
  <2>5. VectorExact(doc'[r].vector, Ops(r)')
    <3>1. VectorExact(doc[r].vector, Ops(r)) /\ \A o \in Ops(r) : o.id.seq \in Nat
      BY <1>4, LogsAreSequences DEF CausalInv, OpInv, IdsBelow
    <3>2. op.id.agent \in Agents /\ op.id.seq \in Nat
      BY <1>2
    <3>3. Logged(doc[r], op, doc'[r])
      BY <1>2
    <3>4. VectorExact(doc'[r].vector, Ops(r) \cup {op})
      BY <3>1, <3>2, <3>3, VectorFollows
    <3> QED  BY <1>2, <3>4
  <2>6. ASSUME NEW s \in Agents, NEW t \in Agents
        PROVE  Fits(AllOps', Ops(s)', delta[s][t])
    <3>1. Fits(AllOps, Ops(s), delta[s][t]) /\ Ops(s) \subseteq Ops(s)' /\ delta[s][t] \in Seq(AllOps)
      BY <1>1, <1>4 DEF CausalInv, LogsGrow, DeltaInv
    <3>2. Fits(AllOps, Ops(s)', delta[s][t])
      BY <3>1, FitsMoreKnown
    <3> QED  BY <1>2, <2>1, <3>1, <3>2, FitsNewOp
  <2>7. \A s \in Agents : Fits(AllOps', {}, doc'[s].op_log) /\ VectorExact(doc'[s].vector, Ops(s)')
    BY <2>3, <2>4, <2>5
  <2> QED  BY <2>6, <2>7 DEF CausalInv
<1> QED  BY <1>3, <1>4

\* What r lacks of the log of s fits what r knows: the rest r has, for its
\* vector claims nothing it lacks.
LEMMA ExportFits ==
    ASSUME OpInv, TextInv, NEW r \in Agents, NEW s \in Agents
    PROVE  LET ops == DeltaSince(doc[s], doc[r].vector) IN
           /\ ops \in Seq(AllOps)
           /\ CausalInv => Fits(AllOps, Ops(r), ops)
<1> DEFINE log == doc[s].op_log
           v == doc[r].vector
           S == {op \in ToSet(log) : op.id.seq > v[op.id.agent]}
           t == Those(log, S)
<1>1. log \in Seq(AllOps) /\ Len(log) \in Nat /\ ToSet(log) = {log[j] : j \in 1..Len(log)}
  BY LogsAreSequences DEF Ops
<1>2. DeltaSince(doc[s], v) = t
  BY DEF DeltaSince
<1>3. t \in Seq(AllOps) /\ Sifted(t, log, Len(log), S)
  <2> HIDE DEF S, log
  <2> QED  BY <1>1, ThoseAreSifted
<1>4. ASSUME CausalInv PROVE Fits(AllOps, Ops(r), t)
  <2>1. VectorIsComplete /\ Fits(AllOps, {}, log)
    BY <1>4, VectorKnows DEF CausalInv
  <2>2. ASSUME NEW p \in ToSet(log) PROVE p \in S \/ p \in Ops(r)
    <3>1. p \in AllOps
      BY <2>2, LogsAreSequences DEF Ops
    <3>2. p.id.agent \in Agents /\ p.id.seq \in Nat /\ v[p.id.agent] \in Nat
      BY <1>4, <3>1 DEF OpInv, IdsBelow, CausalInv, VectorExact
    <3>3. p.id.seq <= v[p.id.agent] => p \in Ops(r)
      BY <2>1, <3>1 DEF VectorIsComplete
    <3> HIDE DEF v, Ops
    <3> QED  BY <2>2, <3>2, <3>3
  <2>3. Len(t) \in Nat
    BY <1>3, LenProperties
  <2> HIDE DEF log, S, t
  <2>4. ASSUME NEW i \in 1..Len(t)
        PROVE  /\ \A p \in AllOps : p.id.agent = t[i].id.agent /\ p.id.seq <= t[i].id.seq =>
                      p \in Ops(r) \/ \E j \in 1..i : t[j] = p
               /\ \A id \in Depends(t[i]) :
                      \/ \E o \in Ops(r) : o.kind = "Insert" /\ o.id = id
                      \/ \E j \in 1..(i - 1) : t[j].kind = "Insert" /\ t[j].id = id
    <3>1. PICK k \in 1..Len(log) : /\ t[i] = log[k]
                                   /\ \A j \in 1..(k - 1) : log[j] \in S => \E l \in 1..(i - 1) : t[l] = log[j]
      BY <1>3 DEF Sifted
    <3>2. (\A l \in 1..(i - 1) : l \in 1..i) /\ i \in 1..i
      BY <2>3
    <3>3. ASSUME NEW j \in 1..(k - 1) PROVE log[j] \in Ops(r) \/ \E l \in 1..(i - 1) : t[l] = log[j]
      <4>1. j \in 1..Len(log)
        BY <1>1
      <4>2. log[j] \in ToSet(log)
        BY <1>1, <4>1
      <4> QED  BY <2>2, <3>1, <4>2
    <3>4. ASSUME NEW p \in AllOps, p.id.agent = t[i].id.agent, p.id.seq <= t[i].id.seq
          PROVE  p \in Ops(r) \/ \E j \in 1..i : t[j] = p
      <4>1. PICK j \in 1..k : log[j] = p
        BY <2>1, <3>1, <3>4 DEF Fits
      <4>2. CASE j = k
        BY <3>1, <3>2, <4>1, <4>2
      <4>3. CASE j # k
        <5>1. j \in 1..(k - 1)
          BY <1>1, <4>3
        <5> QED  BY <3>2, <3>3, <4>1, <5>1
      <4> QED  BY <4>2, <4>3
    <3>5. ASSUME NEW id \in Depends(t[i])
          PROVE  \/ \E o \in Ops(r) : o.kind = "Insert" /\ o.id = id
                 \/ \E j \in 1..(i - 1) : t[j].kind = "Insert" /\ t[j].id = id
      <4>1. PICK j \in 1..(k - 1) : log[j].kind = "Insert" /\ log[j].id = id
        BY <2>1, <3>1, <3>5 DEF Fits
      <4> QED  BY <3>3, <4>1
    <3> QED  BY <3>4, <3>5
  <2> QED  BY <2>4 DEF Fits
<1> QED  BY <1>2, <1>3, <1>4

LEMMA ExportStaysCausal ==
    ASSUME OpInv, TextInv, DeltaInv, NEW r \in Agents, NEW s \in Agents, Export(r, s)
    PROVE  DeltaInv' /\ (CausalInv => CausalInv')
<1> DEFINE ops == DeltaSince(doc[s], doc[r].vector)
<1>1. ops \in Seq(AllOps) /\ (CausalInv => Fits(AllOps, Ops(r), ops))
  BY ExportFits
<1>2. UNCHANGED doc /\ delta' = [delta EXCEPT ![r][s] = ops]
  BY DEF Export
<1>3. AllOps' = AllOps /\ \A a \in Agents : Ops(a)' = Ops(a)
  BY <1>2, NothingMoves
<1> HIDE DEF ops
<1>4. \A a, b \in Agents : delta'[a][b] = IF a = r /\ b = s THEN ops ELSE delta[a][b]
  BY <1>2 DEF DeltaInv
<1>5. delta' = [a \in Agents |-> [b \in Agents |-> delta'[a][b]]]
  BY <1>2 DEF DeltaInv
<1>6. DeltaInv'
  BY <1>1, <1>3, <1>4, <1>5 DEF DeltaInv
<1>7. ASSUME CausalInv PROVE CausalInv'
  <2>1. \A a, b \in Agents : Fits(AllOps', Ops(a)', delta'[a][b])
    BY <1>1, <1>3, <1>4, <1>7 DEF CausalInv
  <2>2. \A a \in Agents : Fits(AllOps', {}, doc'[a].op_log) /\ VectorExact(doc'[a].vector, Ops(a)')
    BY <1>2, <1>3, <1>7 DEF CausalInv
  <2> QED  BY <2>1, <2>2 DEF CausalInv
<1> QED  BY <1>6, <1>7

-----------------------------------------------------------------------------
RgaInv ==
    /\ OpInv
    /\ TextInv
    /\ DeltaInv
    /\ gossip = "deltas" => CausalInv

LEMMA InitRgaInv == Init => RgaInv
<1> SUFFICES ASSUME Init PROVE RgaInv
  OBVIOUS
<1>1. OpInv
  BY InitOpInv
<1>2. ASSUME NEW r \in Agents
      PROVE  doc[r].op_log = << >> /\ doc[r].vector = [b \in Agents |-> 0] /\ doc[r].next_seq = 1
             /\ Ops(r) = {}
  <2>1. doc[r] = New(r)
    BY DEF Init
  <2>2. doc[r].op_log = << >> /\ doc[r].vector = [b \in Agents |-> 0] /\ doc[r].next_seq = 1
    BY <2>1 DEF New
  <2>3. Ops(r) = {}
    BY <2>2 DEF Ops, ToSet
  <2> QED  BY <2>2, <2>3
<1>3. AllOps = {} /\ Inserts(AllOps) = {} /\ Chars = {}
  BY <1>2 DEF AllOps, Chars, Inserts
<1>4. TextInv
  <2>1. RankedBy(<< >>, 0)
    BY <1>3 DEF RankedBy
  <2>2. \E rank, N : RankedBy(rank, N)
    BY <2>1
  <2> QED  BY <1>2, <1>3, <2>2, FS_EmptySet DEF TextInv
<1>5. DeltaInv
  BY EmptySeq DEF Init, DeltaInv
<1>6. ASSUME NEW known PROVE Fits(AllOps, known, << >>)
  <2>1. Len(<< >>) = 0 /\ 1..0 = {}
    BY EmptySeq
  <2> QED  BY <2>1 DEF Fits
<1>7. \A r \in Agents : VectorExact(doc[r].vector, Ops(r))
  BY <1>2 DEF VectorExact
<1>8. \A r, s \in Agents : delta[r][s] = << >>
  BY DEF Init
<1>9. CausalInv
  BY <1>2, <1>6, <1>7, <1>8 DEF CausalInv
<1> QED  BY <1>1, <1>4, <1>5, <1>9 DEF RgaInv

\* A local edit hangs its character under one that its island shows.
LEMMA LocalEdits ==
    ASSUME OpInv, TextInv, LocalNext
    PROVE  UNCHANGED delta /\ \E r \in Agents : \E op : Rooting(r, op)
<1>1. ASSUME NEW r \in Agents
      PROVE  \A i \in DOMAIN Visible(doc[r].items) : Visible(doc[r].items)[i] \in DOMAIN doc[r].items
  <2> DEFINE w == Visible(doc[r].items)
  <2>1. w \in Seq(DOMAIN doc[r].items)
    BY WalksItsItems
  <2> HIDE DEF w
  <2>2. \A i \in DOMAIN w : w[i] \in DOMAIN doc[r].items
    BY <2>1, LenProperties, ElementOfSeq
  <2> QED  BY <2>2 DEF w
<1>2. ASSUME NEW r \in Agents, NEW i, InsertChar(r, i) PROVE Rooting(r, InsertCharOp(doc[r], i))
  <2> DEFINE op == InsertCharOp(doc[r], i)
             w == Visible(doc[r].items)
  <2>1. op.kind = "Insert" /\ op.id = AllocId(doc[r]) /\ op.parent = IF i \in DOMAIN w THEN w[i] ELSE None
    BY DEF InsertCharOp
  <2>2. doc' = [doc EXCEPT ![r] = Edit(@, op)] /\ doc[r].next_seq <= MaxSeq
    BY <1>2 DEF InsertChar
  <2>3. Depends(op) = {op.parent} \ {None}
    BY <2>1 DEF Depends
  <2> HIDE DEF op
  <2>4. Depends(op) \subseteq DOMAIN doc[r].items
    BY <1>1, <2>1, <2>3
  <2>5. EditBy(r, op)
    BY <2>1, <2>2 DEF EditBy
  <2> QED  BY <2>2, <2>4, <2>5 DEF Rooting, op
<1>3. ASSUME NEW r \in Agents, NEW i, DeleteChar(r, i)
      PROVE  Rooting(r, [kind |-> "Delete", id |-> AllocId(doc[r]), target |-> Visible(doc[r].items)[i]])
  <2> DEFINE op == [kind |-> "Delete", id |-> AllocId(doc[r]), target |-> Visible(doc[r].items)[i]]
  <2>1. op.kind = "Delete" /\ op.id = AllocId(doc[r]) /\ op.target = Visible(doc[r].items)[i]
    OBVIOUS
  <2>2. /\ doc' = [doc EXCEPT ![r] = Edit(@, op)] /\ doc[r].next_seq <= MaxSeq
        /\ i \in DOMAIN Visible(doc[r].items)
    BY <1>3 DEF DeleteChar
  <2>3. Depends(op) = {op.target}
    BY <2>1 DEF Depends
  <2> HIDE DEF op
  <2>4. Depends(op) \subseteq DOMAIN doc[r].items
    BY <1>1, <2>1, <2>2, <2>3
  <2>5. EditBy(r, op)
    BY <2>1, <2>2 DEF EditBy
  <2> QED  BY <2>2, <2>4, <2>5 DEF Rooting, op
<1>4. UNCHANGED delta
  BY DEF LocalNext, InsertChar, DeleteChar
<1>5. PICK r \in Agents : (\E i : InsertChar(r, i)) \/ (\E i : DeleteChar(r, i))
  BY DEF LocalNext
<1>6. \E op : Rooting(r, op)
  BY <1>2, <1>3, <1>5
<1> QED  BY <1>4, <1>6

LEMMA EveryStep ==
    ASSUME RgaInv, [Next]_vars
    PROVE  RgaInv' /\ LogsGrow
<1> USE DEF RgaInv
<1>1. ASSUME NEW r \in Agents, NEW op, Rooting(r, op), UNCHANGED <<delta, gossip>>
      PROVE  RgaInv' /\ LogsGrow
  <2>1. OpInv' /\ LogsGrow
    BY <1>1, EditStep DEF Rooting
  <2>2. TextInv'
    BY <1>1, EditRanks
  <2>3. DeltaInv' /\ (CausalInv => CausalInv')
    BY <1>1, EditStaysCausal
  <2> QED  BY <1>1, <2>1, <2>2, <2>3
<1>2. ASSUME NEW r \in Agents, NEW ops, ReplayBy(r, ops), UNCHANGED <<delta, gossip>>,
             CausalInv /\ gossip = "deltas" => Fits(AllOps, Ops(r), ops)
      PROVE  RgaInv' /\ LogsGrow
  <2>1. OpInv' /\ LogsGrow
    BY <1>2, ReplayStep
  <2>2. TextInv'
    BY <1>2, ReplayRanks
  <2>3. DeltaInv' /\ (CausalInv /\ Fits(AllOps, Ops(r), ops) => CausalInv')
    BY <1>2, ReplayStaysCausal
  <2> QED  BY <1>2, <2>1, <2>2, <2>3
<1>3. ASSUME LocalNext, UNCHANGED gossip PROVE RgaInv' /\ LogsGrow
  BY <1>1, <1>3, LocalEdits
<1>4. ASSUME NEW r \in Agents, NEW op \in AllOps, Receive(r, op), gossip = "operations", UNCHANGED gossip
      PROVE  RgaInv' /\ LogsGrow
  <2>1. ReplayBy(r, <<op>>)
    BY <1>4, ReceiveReplays
  <2>2. UNCHANGED <<delta, gossip>>
    BY <1>4 DEF Receive
  <2> QED  BY <1>2, <1>4, <2>1, <2>2
<1>5. ASSUME NEW r \in Agents, NEW s \in Agents, Export(r, s), UNCHANGED gossip
      PROVE  RgaInv' /\ LogsGrow
  <2>1. UNCHANGED doc
    BY <1>5 DEF Export
  <2>2. OpInv' /\ LogsGrow /\ TextInv'
    BY <2>1, NothingMoves
  <2>3. DeltaInv' /\ (CausalInv => CausalInv')
    BY <1>5, ExportStaysCausal
  <2> QED  BY <1>5, <2>2, <2>3
<1>6. ASSUME NEW r \in Agents, NEW s \in Agents, Apply(r, s), UNCHANGED gossip
      PROVE  RgaInv' /\ LogsGrow
  <2>1. ReplayBy(r, delta[r][s])
    BY <1>6 DEF Apply, ReplayBy, DeltaInv
  <2>2. CausalInv => Fits(AllOps, Ops(r), delta[r][s])
    BY DEF CausalInv
  <2>3. UNCHANGED <<delta, gossip>>
    BY <1>6 DEF Apply
  <2> QED  BY <1>2, <2>1, <2>2, <2>3
<1>7. ASSUME NEW r \in Agents, NEW s \in Agents, Merge(r, s), UNCHANGED gossip
      PROVE  RgaInv' /\ LogsGrow
  <2>1. ReplayBy(r, doc[s].op_log)
    BY <1>7, LogsAreSequences DEF Merge, ReplayBy
  <2>2. CausalInv => Fits(AllOps, Ops(r), doc[s].op_log)
    <3>1. CausalInv => Fits(AllOps, {}, doc[s].op_log)
      BY DEF CausalInv
    <3> QED  BY <3>1, FitsMoreKnown
  <2>3. UNCHANGED <<delta, gossip>>
    BY <1>7 DEF Merge
  <2> QED  BY <1>2, <2>1, <2>2, <2>3
<1>8. CASE UNCHANGED vars
  <2>1. UNCHANGED doc /\ UNCHANGED delta /\ UNCHANGED gossip
    BY <1>8 DEF vars
  <2>2. AllOps' = AllOps /\ (\A r \in Agents : Ops(r)' = Ops(r)) /\ OpInv' /\ LogsGrow /\ TextInv'
    BY <2>1, NothingMoves
  <2>3. DeltaInv' /\ (CausalInv => CausalInv')
    BY <2>1, <2>2 DEF DeltaInv, CausalInv
  <2> QED  BY <2>1, <2>2, <2>3
<1>9. CASE Next
  <2>1. UNCHANGED gossip
    BY <1>9 DEF Next
  <2>2. CASE gossip = "operations" /\ OpNext
    BY <1>3, <1>4, <2>1, <2>2 DEF OpNext
  <2>3. CASE gossip = "deltas" /\ DeltaNext
    BY <1>3, <1>5, <1>6, <1>7, <2>1, <2>3 DEF DeltaNext
  <2> QED  BY <1>9, <2>2, <2>3 DEF Next
<1> QED  BY <1>8, <1>9

LEMMA RgaInvInductive == Spec => []RgaInv
BY InitRgaInv, EveryStep, PTL DEF Spec

\* Islands never disagree on the order of two characters they can both place,
\* whatever each of them knows; and with deltas, however stale or repeated, a
\* version vector claims nothing its island lacks and no character waits for
\* the one it hangs from (walk, delta_since, apply_delta, merge).
THEOREM IslandsNeverDisagree == Spec => []IslandsAgree
<1>1. RgaInv => IslandsAgree
  BY OrderIsGlobal, VectorKnows, LogsAreCausal DEF RgaInv, IslandsAgree, DeltasAreCausal
<1> QED  BY <1>1, RgaInvInductive, PTL

\* Strong eventual consistency of the text, by operations, deltas or merges:
\* whatever the order and the repetitions, islands that integrated the same
\* operations show the same text.
THEOREM TextConverges == Spec => []Converged
<1>1. RgaInv => Converged
  <2> SUFFICES ASSUME RgaInv, NEW r \in Agents, NEW s \in Agents, Ops(r) = Ops(s)
               PROVE  Visible(doc[r].items) = Visible(doc[s].items)
    BY DEF Converged
  <2>1. doc[r].items = doc[s].items
    BY SameOpsSameItems DEF RgaInv, OpInv, DocInv, Ops
  <2> QED
    BY <2>1
<1> QED
  BY <1>1, RgaInvInductive, PTL

\* Deletes commute with everything: a character is a tombstone exactly when a
\* delete of it has arrived, before or after the character itself.
THEOREM DeletesCommute == Spec => []TombstonesMatchDeletes
<1>1. RgaInv => TombstonesMatchDeletes
  <2> SUFFICES ASSUME RgaInv, NEW r \in Agents
               PROVE  /\ \A id \in DOMAIN doc[r].items :
                             doc[r].items[id].deleted <=> id \in DeleteTargets(r)
                      /\ doc[r].pending_deletes = DeleteTargets(r) \ DOMAIN doc[r].items
    BY DEF TombstonesMatchDeletes
  <2>1. DeleteTargets(r) = Targets(Ops(r))
    BY DEF DeleteTargets, Targets, Deletes
  <2>2. Reflects(doc[r].items, doc[r].pending_deletes, doc[r].applied_deletes, Ops(r))
    BY DEF RgaInv, OpInv, DocInv, Ops
  <2> QED
    BY <2>1, <2>2 DEF Reflects
<1> QED
  BY <1>1, RgaInvInductive, PTL

\* No id ever names two operations, on whichever islands they are.
THEOREM OperationIdsAreUnique == Spec => []IdsAreUnique
<1>1. RgaInv => IdsAreUnique
  BY DEF RgaInv, OpInv
<1> QED
  BY <1>1, RgaInvInductive, PTL

\* A deleted character never shows again at the island, whatever arrives next.
THEOREM DeletedStaysDeleted == Spec => NoResurrection
<1>1. ASSUME OpInv, OpInv', LogsGrow PROVE NoResurrectionStep
  <2> SUFFICES ASSUME NEW r \in Agents, NEW id \in DOMAIN doc[r].items
               PROVE  /\ id \in DOMAIN doc'[r].items
                      /\ doc[r].items[id].deleted => doc'[r].items[id].deleted
    BY DEF NoResurrectionStep
  <2>1. /\ Reflects(doc[r].items, doc[r].pending_deletes, doc[r].applied_deletes, Ops(r))
        /\ Reflects(doc'[r].items, doc'[r].pending_deletes, doc'[r].applied_deletes, Ops(r)')
    BY <1>1 DEF OpInv, DocInv, Ops
  <2>2. Ops(r) \subseteq Ops(r)'
    BY <1>1 DEF LogsGrow
  <2>3. Inserts(Ops(r)) \subseteq Inserts(Ops(r)') /\ Targets(Ops(r)) \subseteq Targets(Ops(r)')
    BY <2>2 DEF Inserts, Deletes, Targets
  <2> HIDE DEF Ops
  <2>4. id \in DOMAIN doc'[r].items
    BY <2>1, <2>3 DEF Reflects
  <2> QED
    BY <2>1, <2>3, <2>4 DEF Reflects
<1>2. RgaInv /\ RgaInv' /\ [Next]_vars => NoResurrectionStep
  BY <1>1, EveryStep DEF RgaInv
<1> QED
  BY <1>2, RgaInvInductive, PTL DEF Spec, NoResurrection
=============================================================================
