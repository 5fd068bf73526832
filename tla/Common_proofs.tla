--------------------------- MODULE Common_proofs ----------------------------
(***************************************************************************)
(* What the proofs of several components rest on.                          *)
(*                                                                         *)
(* Induction over the natural numbers for sets: the theorems of the        *)
(* library take an operator as a parameter; a set of numbers serves for    *)
(* the inductions of this project.  Then the iteration of a function, the  *)
(* order of the keys of constants, and the segments of concatenations.     *)
(***************************************************************************)
EXTENDS ConstKeys, SequencesExt, SequenceTheorems, WellFoundedInduction, TLAPS

Smaller == {p \in Nat \X Nat : p[1] < p[2]}

(* A set of numbers that is not empty has a least element.                 *)
LEMMA LeastElement ==
  ASSUME NEW T \in SUBSET Nat, T # {}
  PROVE  \E x \in T : \A y \in T : x <= y
  <1>1. IsWellFoundedOn(Smaller, Nat)
    BY NatLessThanWellFounded DEF OpToRel, Smaller
  <1>2. PICK x \in T : \A y \in T : ~(<<y, x>> \in Smaller)
    BY <1>1, WFMin
  <1>3. ASSUME NEW y \in T
        PROVE  x <= y
    <2>1. ASSUME y < x
          PROVE  FALSE
      <3>1. <<y, x>> \in Nat \X Nat
        OBVIOUS
      <3>2. <<y, x>>[1] < <<y, x>>[2]
        BY <2>1
      <3>3. <<y, x>> \in Smaller
        BY <3>1, <3>2 DEF Smaller
      <3> QED
        BY <1>2, <3>3
    <2>2. x \in Int /\ y \in Int
      OBVIOUS
    <2> QED
      BY <2>1, <2>2
  <1> QED
    BY <1>3

(* Induction: the set holds zero, and with a number the next one.          *)
LEMMA SetInduction ==
  ASSUME NEW T \in SUBSET Nat, 0 \in T, \A n \in T : n + 1 \in T
  PROVE  T = Nat
  <1>1. SUFFICES ASSUME Nat \ T # {}
                 PROVE  FALSE
    OBVIOUS
  <1>2. PICK x \in Nat \ T : \A y \in Nat \ T : x <= y
    BY <1>1, LeastElement
  <1>3. x - 1 \in Nat
    BY <1>2
  <1>4. x - 1 \in T
    BY <1>2, <1>3
  <1> QED
    BY <1>4

(* A list in which no number is above the next one is sorted.              *)
LEMMA SortedPairs ==
  ASSUME NEW n \in Nat, NEW c \in [1..n -> Nat], \A k \in 1..n - 1 : c[k] <= c[k + 1]
  PROVE  \A a, b \in 1..n : a <= b => c[a] <= c[b]
  <1> DEFINE T == {d \in Nat : \A a \in 1..n : a + d \in 1..n => c[a] <= c[a + d]}
  <1>1. 0 \in T
    OBVIOUS
  <1>2. ASSUME NEW d \in T
        PROVE  d + 1 \in T
    <2>1. SUFFICES ASSUME NEW a \in 1..n, a + (d + 1) \in 1..n
                   PROVE  c[a] <= c[a + (d + 1)]
      OBVIOUS
    <2>2. d \in Nat /\ a + d \in 1..n - 1 /\ a + (d + 1) = (a + d) + 1
      BY <2>1
    <2>3. c[a] <= c[a + d] /\ c[a + d] <= c[(a + d) + 1]
      BY <2>2
    <2>4. c[a] \in Nat /\ c[a + d] \in Nat /\ c[(a + d) + 1] \in Nat
      BY <2>1, <2>2
    <2> QED
      BY <2>2, <2>3, <2>4
  <1>3. T \in SUBSET Nat
    OBVIOUS
  <1>4. T = Nat
    <2> HIDE DEF T
    <2> QED
      BY <1>1, <1>2, <1>3, SetInduction
  <1>5. ASSUME NEW a \in 1..n, NEW b \in 1..n, a <= b
        PROVE  c[a] <= c[b]
    <2>1. b - a \in Nat /\ a + (b - a) = b
      BY <1>5
    <2>2. b - a \in T
      BY <1>4, <2>1 DEF T
    <2>3. \A x \in 1..n : x + (b - a) \in 1..n => c[x] <= c[x + (b - a)]
      BY <2>2
    <2> QED
      BY <2>1, <2>3
  <1> QED
    BY <1>5

(* The elements that f leads to from c.                                    *)
Orbit(S, f, c) ==
  {d \in S : \A T \in SUBSET S : c \in T /\ (\A x \in T : f[x] \in T) => d \in T}

(* An orbit is closed under f, and lies in every such set that c is in.    *)
LEMMA OrbitFacts ==
  ASSUME NEW S, NEW f \in [S -> S], NEW c \in S
  PROVE  /\ c \in Orbit(S, f, c)
         /\ \A x \in Orbit(S, f, c) : f[x] \in Orbit(S, f, c)
         /\ \A T \in SUBSET S :
              c \in T /\ (\A x \in T : f[x] \in T) => Orbit(S, f, c) \subseteq T
  <1>1. ASSUME NEW x \in Orbit(S, f, c) PROVE f[x] \in Orbit(S, f, c)
    <2>1. x \in S /\ f[x] \in S
      BY DEF Orbit
    <2>2. ASSUME NEW T \in SUBSET S, c \in T, \A y \in T : f[y] \in T
          PROVE  f[x] \in T
      <3>1. x \in T
        BY <2>2 DEF Orbit
      <3> QED
        BY <2>2, <3>1
    <2> QED
      BY <2>1, <2>2 DEF Orbit
  <1>2. c \in Orbit(S, f, c)
    BY DEF Orbit
  <1>3. ASSUME NEW T \in SUBSET S, c \in T, \A x \in T : f[x] \in T
        PROVE  Orbit(S, f, c) \subseteq T
    BY <1>3 DEF Orbit
  <1> QED
    BY <1>1, <1>2, <1>3

(* An orbit holds one element that f leaves as it is.                      *)
LEMMA OrbitEnd ==
  ASSUME NEW S, NEW f \in [S -> S], NEW c \in S,
         NEW d \in Orbit(S, f, c), f[d] = d, NEW e \in Orbit(S, f, c), f[e] = e
  PROVE  d = e
  <1> DEFINE T == {x \in Orbit(S, f, c) : d \in Orbit(S, f, x)}
  <1>1. Orbit(S, f, c) \subseteq S
    BY DEF Orbit
  <1>2. c \in T
    BY OrbitFacts
  <1>3. ASSUME NEW x \in T PROVE f[x] \in T
    <2>1. x \in S /\ f[x] \in S /\ f[x] \in Orbit(S, f, c) /\ d \in Orbit(S, f, x)
      BY <1>1, OrbitFacts
    <2>2. d \in Orbit(S, f, f[x])
      <3>1. CASE d = x
        BY <2>1, <3>1, OrbitFacts
      <3>2. CASE d # x
        <4> DEFINE U == {x} \cup Orbit(S, f, f[x])
        <4>1. U \in SUBSET S /\ x \in U
          BY <2>1 DEF Orbit
        <4>2. f[x] \in Orbit(S, f, f[x]) /\ \A y \in Orbit(S, f, f[x]) : f[y] \in Orbit(S, f, f[x])
          BY <2>1, OrbitFacts
        <4>3. \A y \in U : f[y] \in U
          BY <4>2
        <4>4. Orbit(S, f, x) \subseteq U
          <5> HIDE DEF U
          <5> QED
            BY <2>1, <4>1, <4>3, OrbitFacts
        <4> QED
          BY <2>1, <3>2, <4>4
      <3> QED
        BY <3>1, <3>2
    <2> QED
      BY <2>1, <2>2
  <1>4. e \in T
    <2>1. T \in SUBSET S
      BY <1>1
    <2> HIDE DEF T
    <2>2. Orbit(S, f, c) \subseteq T
      BY <1>2, <1>3, <2>1, OrbitFacts
    <2> QED
      BY <2>2
  <1>5. d \in Orbit(S, f, e)
    BY <1>4
  <1>6. e \in S /\ {e} \in SUBSET S
    BY <1>1
  <1>7. \A x \in {e} : f[x] \in {e}
    OBVIOUS
  <1>8. Orbit(S, f, e) \subseteq {e}
    BY <1>6, <1>7, OrbitFacts
  <1> QED
    BY <1>5, <1>8

(* The results of applying F to s, up to n times one after the other.      *)
Iterations(S, F, s, n) ==
  {w \in [0..n -> S] : w[0] = s /\ \A k \in 1..n : w[k] = F[w[k - 1]]}

(* A function can be applied any number of times one after the other.      *)
LEMMA Iterates ==
  ASSUME NEW S, NEW F \in [S -> S], NEW s \in S, NEW n \in Nat
  PROVE  Iterations(S, F, s, n) # {}
  <1> DEFINE T == {m \in Nat : \E w \in [0..m -> S] :
                                 w[0] = s /\ \A k \in 1..m : w[k] = F[w[k - 1]]}
  <1>1. 0 \in T
    <2> DEFINE w == [k \in 0..0 |-> s]
    <2>1. w \in [0..0 -> S] /\ w[0] = s /\ \A k \in 1..0 : w[k] = F[w[k - 1]]
      OBVIOUS
    <2> QED
      BY <2>1
  <1>2. ASSUME NEW m \in T
        PROVE  m + 1 \in T
    <2>1. m \in Nat
      OBVIOUS
    <2>2. PICK w \in [0..m -> S] : w[0] = s /\ \A k \in 1..m : w[k] = F[w[k - 1]]
      OBVIOUS
    <2> DEFINE v == [k \in 0..(m + 1) |-> IF k = m + 1 THEN F[w[m]] ELSE w[k]]
    <2>3. w[m] \in S /\ F[w[m]] \in S
      BY <2>1
    <2>4. v \in [0..(m + 1) -> S] /\ v[0] = s
      BY <2>1, <2>2, <2>3
    <2>5. ASSUME NEW k \in 1..(m + 1)
          PROVE  v[k] = F[v[k - 1]]
      <3>1. k \in 0..(m + 1) /\ k - 1 \in 0..(m + 1) /\ k - 1 # m + 1
        BY <2>1
      <3>2. v[k - 1] = w[k - 1]
        BY <3>1
      <3>3. CASE k = m + 1
        BY <2>1, <3>1, <3>2, <3>3
      <3>4. CASE k # m + 1
        <4>1. k \in 1..m /\ v[k] = w[k]
          BY <2>1, <3>1, <3>4
        <4> QED
          BY <2>2, <3>2, <4>1
      <3> QED
        BY <3>3, <3>4
    <2>6. m + 1 \in Nat
      BY <2>1
    <2> HIDE DEF v
    <2> QED
      BY <2>4, <2>5, <2>6
  <1>3. T \in SUBSET Nat
    OBVIOUS
  <1>4. T = Nat
    <2> HIDE DEF T
    <2> QED
      BY <1>1, <1>2, <1>3, SetInduction
  <1>5. n \in T
    BY <1>4
  <1> QED
    BY <1>5 DEF Iterations

-----------------------------------------------------------------------------
(* No key is before itself.                                                *)
LEMMA LessIrreflexive ==
  ASSUME NEW a \in Seq(Nat), Less(a, a)
  PROVE  FALSE
  <1>1. PICK n \in 0..Len(a) : n < Len(a) /\ (n < Len(a) => a[n + 1] < a[n + 1])
    BY DEF Less
  <1>2. n + 1 \in 1..Len(a)
    BY <1>1, LenProperties
  <1>3. a[n + 1] \in Nat
    BY <1>2, ElementOfSeq
  <1> QED
    BY <1>1, <1>3

(* The order of keys is transitive.                                        *)
LEMMA LessTransitive ==
  ASSUME NEW a \in Seq(Nat), NEW b \in Seq(Nat), NEW c \in Seq(Nat),
         Less(a, b), Less(b, c)
  PROVE  Less(a, c)
  <1>len. Len(a) \in Nat /\ Len(b) \in Nat /\ Len(c) \in Nat
    BY LenProperties
  <1>elt. /\ \A n \in 1..Len(a) : a[n] \in Nat
          /\ \A n \in 1..Len(b) : b[n] \in Nat
          /\ \A n \in 1..Len(c) : c[n] \in Nat
    BY ElementOfSeq
  <1>1. PICK m \in 0..Len(a) :
          /\ m < Len(b)
          /\ \A k \in 1..m : a[k] = b[k]
          /\ m < Len(a) => a[m + 1] < b[m + 1]
    BY DEF Less
  <1>2. PICK n \in 0..Len(b) :
          /\ n < Len(c)
          /\ \A k \in 1..n : b[k] = c[k]
          /\ n < Len(b) => b[n + 1] < c[n + 1]
    BY DEF Less
  <1>3. CASE m <= n
    <2>1. m \in 0..Len(a) /\ m < Len(c)
      BY <1>len, <1>2, <1>3
    <2>2. \A k \in 1..m : a[k] = c[k]
      BY <1>1, <1>2, <1>3, <1>len
    <2>3. ASSUME m < Len(a) PROVE a[m + 1] < c[m + 1]
      <3>1. /\ m + 1 \in 1..Len(a) /\ m + 1 \in 1..Len(b) /\ m + 1 \in 1..Len(c)
            /\ a[m + 1] < b[m + 1]
        BY SMTT(30), <1>len, <1>1, <2>1, <2>3
      <3>2. a[m + 1] \in Nat /\ b[m + 1] \in Nat /\ c[m + 1] \in Nat
        BY <1>elt, <3>1
      <3>3. b[m + 1] = c[m + 1] \/ b[m + 1] < c[m + 1]
        <4>1. CASE m = n
          BY <1>1, <1>2, <4>1
        <4>2. CASE m < n
          <5>1. m + 1 \in 1..n
            BY <1>len, <4>2
          <5> QED
            BY <1>2, <5>1
        <4> QED
          BY <1>3, <1>len, <4>1, <4>2
      <3> QED
        BY <3>1, <3>2, <3>3
    <2> QED
      BY <2>1, <2>2, <2>3 DEF Less
  <1>4. CASE n < m
    <2>1. n \in 0..Len(a) /\ n < Len(c) /\ n < Len(b) /\ n < Len(a)
      BY SMTT(30), <1>len, <1>1, <1>2, <1>4
    <2>2. \A k \in 1..n : a[k] = c[k]
      BY <1>1, <1>2, <1>4, <1>len
    <2>3. n + 1 \in 1..m
      BY <1>len, <1>4
    <2>4. a[n + 1] = b[n + 1] /\ b[n + 1] < c[n + 1]
      BY <1>1, <1>2, <2>1, <2>3
    <2> QED
      BY <2>1, <2>2, <2>4 DEF Less
  <1> QED
    BY <1>len, <1>3, <1>4

(* Two keys that differ are in order one way or the other.                 *)
LEMMA LessTotal ==
  ASSUME NEW a \in Seq(Nat), NEW b \in Seq(Nat), a # b
  PROVE  Less(a, b) \/ Less(b, a)
  <1>len. Len(a) \in Nat /\ Len(b) \in Nat
    BY LenProperties
  <1>elt. /\ \A n \in 1..Len(a) : a[n] \in Nat
          /\ \A n \in 1..Len(b) : b[n] \in Nat
    BY ElementOfSeq
  <1> DEFINE D == {n \in Nat : n < Len(a) /\ n < Len(b) /\ a[n + 1] # b[n + 1]}
  <1>1. CASE D = {}
    <2>1. \A k \in Nat : k < Len(a) /\ k < Len(b) => a[k + 1] = b[k + 1]
      BY <1>1
    <2>2. \A k \in 1..Len(a) : k <= Len(b) => a[k] = b[k]
      <3>1. ASSUME NEW k \in 1..Len(a), k <= Len(b) PROVE a[k] = b[k]
        <4>1. k - 1 \in Nat /\ k - 1 < Len(a) /\ k - 1 < Len(b) /\ (k - 1) + 1 = k
          BY <1>len, <3>1
        <4> HIDE DEF D
        <4>2. a[(k - 1) + 1] = b[(k - 1) + 1]
          BY <2>1, <4>1
        <4> QED
          BY <4>1, <4>2
      <3> QED
        BY <3>1
    <2>3. CASE Len(a) = Len(b)
      <3>1. a = b
        BY <1>len, <2>2, <2>3, SeqEqual
      <3> QED
        BY <3>1
    <2>4. CASE Len(a) < Len(b)
      <3>1. \A k \in 1..Len(a) : a[k] = b[k]
        BY <1>len, <2>2, <2>4
      <3>2. Len(a) \in 0..Len(a) /\ ~(Len(a) < Len(a))
        BY <1>len
      <3> QED
        BY <2>4, <3>1, <3>2 DEF Less
    <2>5. CASE Len(b) < Len(a)
      <3>1. \A k \in 1..Len(b) : b[k] = a[k]
        BY <1>len, <2>2, <2>5
      <3>2. Len(b) \in 0..Len(b) /\ ~(Len(b) < Len(b))
        BY <1>len
      <3> QED
        BY <2>5, <3>1, <3>2 DEF Less
    <2> QED
      BY <1>len, <2>3, <2>4, <2>5
  <1>2. CASE D # {}
    <2>1. D \in SUBSET Nat
      OBVIOUS
    <2>2. PICK n \in D : \A m \in D : n <= m
      <3> HIDE DEF D
      <3> QED
        BY <1>2, <2>1, LeastElement
    <2>3. n \in Nat /\ n < Len(a) /\ n < Len(b) /\ a[n + 1] # b[n + 1]
      BY <2>2
    <2>4. ASSUME NEW k \in 1..n PROVE a[k] = b[k]
      <3>1. k - 1 \in Nat /\ k - 1 < n /\ k - 1 < Len(a) /\ k - 1 < Len(b)
            /\ (k - 1) + 1 = k
        BY <1>len, <2>3
      <3>2. ~(k - 1 \in D)
        <4> HIDE DEF D
        <4> QED
          BY <2>2, <2>3, <3>1
      <3>3. a[(k - 1) + 1] = b[(k - 1) + 1]
        BY <3>1, <3>2
      <3> QED
        BY <3>1, <3>3
    <2>5. n + 1 \in 1..Len(a) /\ n + 1 \in 1..Len(b) /\ n \in 0..Len(a) /\ n \in 0..Len(b)
      BY <1>len, <2>3
    <2>6. a[n + 1] \in Nat /\ b[n + 1] \in Nat
      BY <1>elt, <2>5
    <2>7. a[n + 1] < b[n + 1] \/ b[n + 1] < a[n + 1]
      BY <2>3, <2>6
    <2> QED
      <3> HIDE DEF D
      <3>1. CASE a[n + 1] < b[n + 1]
        BY <2>3, <2>4, <2>5, <3>1 DEF Less
      <3>2. CASE b[n + 1] < a[n + 1]
        BY <2>3, <2>4, <2>5, <3>2 DEF Less
      <3> QED
        BY <2>7, <3>1, <3>2
  <1> QED
    BY <1>1, <1>2
-----------------------------------------------------------------------------
(* What FlattenSeq puts together, list by list.                            *)
LEMMA FlattenSteps ==
  ASSUME NEW S, NEW ss \in Seq(Seq(S)), Len(ss) # 0
  PROVE  \E c \in [1..Len(ss) -> Seq(S)] :
           /\ FlattenSeq(ss) = c[Len(ss)]
           /\ c[1] = ss[1]
           /\ \A k \in 2..Len(ss) : c[k] = c[k - 1] \o ss[k]
  <1> DEFINE n == Len(ss)
             Step(c) == [k \in 1..n |-> IF k = 1 THEN ss[k] ELSE c[k - 1] \o ss[k]]
             Chain(f, m) ==
               \A k \in 1..m : f[k] = IF k = 1 THEN ss[1] ELSE f[k - 1] \o ss[k]
             T == {m \in Nat : m <= n =>
                     \E f \in [1..m -> Seq(S)] : Chain(f, m)}
  <1>1. n \in Nat \ {0} /\ \A k \in 1..n : ss[k] \in Seq(S)
    OBVIOUS
  <1>2. 0 \in T
    <2>1. << >> \in [1..0 -> Seq(S)] /\ 1..0 = {}
      OBVIOUS
    <2> QED
      BY <2>1
  <1>3. ASSUME NEW m \in T
        PROVE  m + 1 \in T
    <2>1. m \in Nat /\ m + 1 \in Nat
      OBVIOUS
    <2>2. ASSUME m + 1 <= n
          PROVE  \E f \in [1..m + 1 -> Seq(S)] : Chain(f, m + 1)
      <3>1. PICK f \in [1..m -> Seq(S)] : Chain(f, m)
        <4>1. n \in Nat /\ m <= n
          BY <1>1, <2>1, <2>2
        <4> HIDE DEF Chain, n
        <4> QED
          BY <2>1, <4>1
      <3> DEFINE new == IF m = 0 THEN ss[1] ELSE f[m] \o ss[m + 1]
                 g == [k \in 1..m + 1 |-> IF k = m + 1 THEN new ELSE f[k]]
      <3>2. new \in Seq(S)
        <4>1. ss[1] \in Seq(S) /\ ss[m + 1] \in Seq(S) /\ (m # 0 => f[m] \in Seq(S))
          BY <1>1, <2>1, <2>2
        <4> QED
          BY <4>1
      <3>3. g \in [1..m + 1 -> Seq(S)]
        BY <2>1, <3>2
      <3>4. ASSUME NEW k \in 1..m + 1
            PROVE  g[k] = IF k = 1 THEN ss[1] ELSE g[k - 1] \o ss[k]
        <4>1. CASE k = m + 1
          <5>1. g[k] = new
            BY <4>1
          <5>2. k # 1 => k - 1 = m /\ m # 0 /\ m \in 1..m + 1 /\ m # m + 1
            BY <2>1, <4>1
          <5>3. k # 1 => g[k - 1] = f[m]
            BY <5>2
          <5> HIDE DEF g
          <5> QED
            BY <2>1, <4>1, <5>1, <5>2, <5>3
        <4>2. CASE k # m + 1
          <5>1. k \in 1..m /\ g[k] = f[k]
            BY <2>1, <4>2
          <5>2. k # 1 => k - 1 \in 1..m + 1 /\ k - 1 # m + 1
            BY <2>1, <5>1
          <5>3. k # 1 => g[k - 1] = f[k - 1]
            BY <5>2
          <5> HIDE DEF g
          <5> QED
            BY <3>1, <5>1, <5>3
        <4> QED
          BY <4>1, <4>2
      <3> HIDE DEF g
      <3> QED
        BY <3>3, <3>4
    <2> QED
      BY <2>1, <2>2
  <1>4. T = Nat
    <2>1. T \in SUBSET Nat
      OBVIOUS
    <2> HIDE DEF T
    <2> QED
      BY <1>2, <1>3, <2>1, SetInduction
  <1>5. n \in T
    BY <1>1, <1>4
  <1>6. PICK f \in [1..n -> Seq(S)] : Chain(f, n)
    <2>1. n <= n
      BY <1>1
    <2> HIDE DEF Chain, n
    <2> QED
      BY <1>1, <1>5, <2>1
  <1>7. \A k \in 1..n : f[k] = IF k = 1 THEN ss[1] ELSE f[k - 1] \o ss[k]
    BY <1>6
  <1>8. f = Step(f)
    <2>1. \A k \in 1..n : f[k] = IF k = 1 THEN ss[k] ELSE f[k - 1] \o ss[k]
      BY <1>1, <1>7
    <2> QED
      BY <2>1
  <1> DEFINE c == CHOOSE h : h = Step(h)
  <1>9. c = Step(c)
    <2> HIDE DEF Step
    <2> QED
      BY <1>8
  <1>10. FlattenSeq(ss) = c[n]
    <2>1. n # 0
      BY <1>1
    <2> QED
      BY <2>1 DEF FlattenSeq
  <1> HIDE DEF c
  <1>11. \A k \in 1..n : c[k] = IF k = 1 THEN ss[k] ELSE c[k - 1] \o ss[k]
    BY <1>9
  <1> DEFINE U == {m \in Nat : m \in 1..n => c[m] = f[m]}
  <1>13. 0 \in U
    OBVIOUS
  <1>14. ASSUME NEW m \in U
         PROVE  m + 1 \in U
    <2>1. m \in Nat /\ m + 1 \in Nat /\ (m + 1) - 1 = m
      OBVIOUS
    <2>2. ASSUME m + 1 \in 1..n
          PROVE  c[m + 1] = f[m + 1]
      <3>1. m # 0 => m \in 1..n /\ c[m] = f[m]
        BY <2>1, <2>2
      <3> QED
        <4>1. c[m + 1] = IF m + 1 = 1 THEN ss[m + 1] ELSE c[(m + 1) - 1] \o ss[m + 1]
          BY <1>11, <2>2
        <4>2. f[m + 1] = IF m + 1 = 1 THEN ss[1] ELSE f[(m + 1) - 1] \o ss[m + 1]
          BY <1>7, <2>2
        <4>3. m = 0 => m + 1 = 1
          OBVIOUS
        <4> QED
          BY <2>1, <3>1, <4>1, <4>2, <4>3
    <2> QED
      BY <2>1, <2>2
  <1>15. U = Nat
    <2>1. U \in SUBSET Nat
      OBVIOUS
    <2> HIDE DEF U
    <2> QED
      BY <1>13, <1>14, <2>1, SetInduction
  <1>16. c[n] = f[n]
    <2>1. n \in 1..n /\ n \in U
      BY <1>1, <1>15
    <2> QED
      BY <2>1
  <1>17. f[1] = ss[1] /\ \A k \in 2..n : f[k] = f[k - 1] \o ss[k]
    <2>1. 1 \in 1..n /\ \A k \in 2..n : k \in 1..n /\ k # 1
      BY <1>1
    <2>2. f[1] = ss[1]
      BY <1>7, <2>1
    <2>3. ASSUME NEW k \in 2..n
          PROVE  f[k] = f[k - 1] \o ss[k]
      <3>1. k \in 1..n /\ k # 1
        BY <2>1
      <3>2. f[k] = IF k = 1 THEN ss[1] ELSE f[k - 1] \o ss[k]
        BY <1>7, <3>1
      <3> QED
        BY <3>1, <3>2
    <2> QED
      BY <2>2, <2>3
  <1> QED
    BY <1>10, <1>16, <1>17

(* The sequence s holds t behind its first off elements.                   *)
Segment(s, off, t) ==
  /\ off + Len(t) <= Len(s)
  /\ \A j \in 1..Len(t) : s[off + j] = t[j]

(* The parts of a concatenation.                                           *)
LEMMA SegmentLeft ==
  ASSUME NEW S, NEW a \in Seq(S), NEW b \in Seq(S), NEW off \in Nat, NEW t \in Seq(S),
         Segment(a, off, t)
  PROVE  Segment(a \o b, off, t)
  <1>1. Len(a \o b) = Len(a) + Len(b) /\ Len(a) \in Nat /\ Len(b) \in Nat /\ Len(t) \in Nat
    OBVIOUS
  <1>2. ASSUME NEW j \in 1..Len(t)
        PROVE  (a \o b)[off + j] = t[j]
    <2>1. off + j \in 1..Len(a)
      BY <1>1 DEF Segment
    <2>2. (a \o b)[off + j] = a[off + j]
      BY <2>1
    <2> QED
      BY <2>2 DEF Segment
  <1> QED
    BY <1>1, <1>2 DEF Segment

(* A segment of the second of two sequences is one of their concatenation, *)
(* moved by the length of the first.                                       *)
LEMMA SegmentRight ==
  ASSUME NEW S, NEW a \in Seq(S), NEW b \in Seq(S), NEW off \in Nat, NEW t \in Seq(S),
         Segment(b, off, t)
  PROVE  Segment(a \o b, Len(a) + off, t)
  <1>1. Len(a \o b) = Len(a) + Len(b) /\ Len(a) \in Nat /\ Len(b) \in Nat /\ Len(t) \in Nat
    OBVIOUS
  <1>2. ASSUME NEW j \in 1..Len(t)
        PROVE  (a \o b)[(Len(a) + off) + j] = t[j]
    <2>1. off + j \in 1..Len(b) /\ (Len(a) + off) + j = Len(a) + (off + j)
      BY <1>1 DEF Segment
    <2>2. (a \o b)[Len(a) + (off + j)] = b[off + j]
      BY <1>1, <2>1
    <2> QED
      BY <2>1, <2>2 DEF Segment
  <1> QED
    BY <1>1, <1>2 DEF Segment

(* A sequence is a segment of itself.                                      *)
LEMMA SegmentSelf ==
  ASSUME NEW S, NEW a \in Seq(S)
  PROVE  Segment(a, 0, a)
  BY DEF Segment

(* A segment of a segment is a segment.                                    *)
LEMMA SegmentTrans ==
  ASSUME NEW S, NEW s \in Seq(S), NEW t \in Seq(S), NEW u \in Seq(S),
         NEW k \in Nat, NEW n \in Nat, Segment(s, k, t), Segment(t, n, u)
  PROVE  Segment(s, k + n, u)
  <1>1. Len(s) \in Nat /\ Len(t) \in Nat /\ Len(u) \in Nat
    OBVIOUS
  <1>2. ASSUME NEW j \in 1..Len(u)
        PROVE  s[(k + n) + j] = u[j]
    <2>1. n + j \in 1..Len(t) /\ k + (n + j) = (k + n) + j
      BY <1>1 DEF Segment
    <2> QED
      BY <2>1 DEF Segment
  <1> QED
    BY <1>1, <1>2 DEF Segment

(* The lists lie one behind the other in what FlattenSeq returns.          *)
LEMMA FlattenSegments ==
  ASSUME NEW S, NEW ss \in Seq(Seq(S))
  PROVE  /\ FlattenSeq(ss) \in Seq(S)
         /\ \E P \in [0..Len(ss) -> Nat] :
              /\ P[0] = 0 /\ P[Len(ss)] = Len(FlattenSeq(ss))
              /\ \A k \in 1..Len(ss) :
                   P[k] = P[k - 1] + Len(ss[k]) /\ Segment(FlattenSeq(ss), P[k - 1], ss[k])
  <1>1. CASE Len(ss) = 0
    <2>1. FlattenSeq(ss) = << >> /\ ss = << >>
      BY <1>1 DEF FlattenSeq
    <2> DEFINE P == [k \in 0..0 |-> 0]
    <2>2. P \in [0..0 -> Nat] /\ P[0] = 0 /\ 1..0 = {}
      OBVIOUS
    <2>3. FlattenSeq(ss) \in Seq(S) /\ Len(FlattenSeq(ss)) = 0
      BY <2>1
    <2> HIDE DEF P
    <2> QED
      BY <1>1, <2>2, <2>3
  <1>2. CASE Len(ss) # 0
    <2> DEFINE n == Len(ss)
    <2>1. PICK c \in [1..n -> Seq(S)] :
            /\ FlattenSeq(ss) = c[n]
            /\ c[1] = ss[1]
            /\ \A k \in 2..n : c[k] = c[k - 1] \o ss[k]
      BY <1>2, FlattenSteps
    <2>2. n \in Nat \ {0} /\ \A k \in 1..n : ss[k] \in Seq(S) /\ Len(ss[k]) \in Nat
      BY <1>2
    <2> DEFINE P == [k \in 0..n |-> IF k = 0 THEN 0 ELSE Len(c[k])]
    <2>3. P \in [0..n -> Nat] /\ P[0] = 0 /\ P[n] = Len(c[n])
      BY <2>2
    <2>4. ASSUME NEW k \in 1..n
          PROVE  P[k] = P[k - 1] + Len(ss[k]) /\ Segment(c[k], P[k - 1], ss[k])
      <3>1. k - 1 \in 0..n /\ ss[k] \in Seq(S)
        BY <2>2
      <3>2. CASE k = 1
        <4>1. P[k - 1] = 0 /\ P[k] = Len(ss[1])
          BY <2>1, <2>2, <3>2
        <4>2. Segment(c[k], 0, ss[k])
          BY <2>1, <3>1, <3>2, SegmentSelf
        <4> QED
          BY <2>2, <3>2, <4>1, <4>2
      <3>3. CASE k # 1
        <4>0. k \in 2..n /\ k - 1 \in 1..n /\ k - 1 # 0 /\ k \in 0..n
          BY <2>2, <3>3
        <4>1. c[k - 1] \in Seq(S)
          BY <4>0
        <4>2. P[k - 1] = Len(c[k - 1]) /\ P[k] = Len(c[k]) /\ c[k] = c[k - 1] \o ss[k]
          <5>1. P[k - 1] = Len(c[k - 1])
            BY <3>1, <4>0
          <5>2. P[k] = Len(c[k])
            BY <2>2, <4>0
          <5> QED
            BY <2>1, <4>0, <5>1, <5>2
        <4>3. Segment(ss[k], 0, ss[k])
          BY <3>1, SegmentSelf
        <4>4. Segment(c[k - 1] \o ss[k], Len(c[k - 1]) + 0, ss[k])
          BY <3>1, <4>1, <4>3, SegmentRight
        <4>5. Len(c[k - 1] \o ss[k]) = Len(c[k - 1]) + Len(ss[k]) /\ Len(c[k - 1]) + 0 = Len(c[k - 1])
          BY <3>1, <4>1
        <4> QED
          BY <4>2, <4>4, <4>5
      <3> QED
        BY <3>2, <3>3
    <2> DEFINE T == {m \in Nat : m <= n => \A k \in 1..m : Segment(c[m], P[k - 1], ss[k])}
    <2> HIDE DEF P
    <2>5. 0 \in T
      OBVIOUS
    <2>6. ASSUME NEW m \in T
          PROVE  m + 1 \in T
      <3>1. m \in Nat /\ m + 1 \in Nat
        OBVIOUS
      <3>2. ASSUME m + 1 <= n, NEW k \in 1..m + 1
            PROVE  Segment(c[m + 1], P[k - 1], ss[k])
        <4>1. CASE k = m + 1
          BY <2>4, <3>2, <4>1
        <4>2. CASE k # m + 1
          <5>1. k \in 1..m /\ m <= n /\ m \in 1..n /\ m + 1 \in 2..n /\ (m + 1) - 1 = m
                /\ k \in 1..n /\ k - 1 \in 0..n
            BY <2>2, <3>1, <3>2, <4>2
          <5>2. Segment(c[m], P[k - 1], ss[k])
            BY <5>1
          <5>3. c[m] \in Seq(S) /\ P[k - 1] \in Nat
            BY <2>3, <5>1
          <5>5. ss[m + 1] \in Seq(S) /\ ss[k] \in Seq(S)
            BY <2>2, <5>1
          <5>4. c[m + 1] = c[m] \o ss[m + 1]
            BY <2>1, <5>1
          <5> QED
            BY <5>2, <5>3, <5>4, <5>5, SegmentLeft
        <4> QED
          BY <4>1, <4>2
      <3> QED
        BY <3>1, <3>2
    <2>7. T = Nat
      <3>1. T \in SUBSET Nat
        OBVIOUS
      <3> HIDE DEF T
      <3> QED
        BY <2>5, <2>6, <3>1, SetInduction
    <2>8. \A k \in 1..n : Segment(c[n], P[k - 1], ss[k])
      <3>1. n \in T
        BY <2>2, <2>7
      <3> QED
        BY <2>2, <3>1
    <2>9. c[n] \in Seq(S)
      BY <2>2
    <2> QED
      BY <2>1, <2>3, <2>4, <2>8, <2>9
  <1> QED
    BY <1>1, <1>2

(* One list is returned as it is.                                          *)
LEMMA FlattenOne ==
  ASSUME NEW S, NEW t \in Seq(S)
  PROVE  FlattenSeq(<<t>>) = t
  <1>1. <<t>> \in Seq(Seq(S)) /\ Len(<<t>>) = 1 /\ <<t>>[1] = t
    OBVIOUS
  <1>2. PICK c \in [1..1 -> Seq(S)] : FlattenSeq(<<t>>) = c[1] /\ c[1] = t
    <2>1. Len(<<t>>) # 0
      BY <1>1
    <2> QED
      BY <1>1, <2>1, FlattenSteps
  <1> QED
    BY <1>2
=============================================================================
