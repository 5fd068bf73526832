------------------------- MODULE PoolClosure_proofs -------------------------
(***************************************************************************)
(* For any classes: the pools of the writer are closed in a single pass,   *)
(* stay sorted, and every lookup finds the constant it asks for.           *)
(***************************************************************************)
EXTENDS PoolClosure, FiniteSetTheorems, Common_proofs

(* The intermediate states of a search in an array of n entries.           *)
Searches(n) == [lo : 0..n, hi : 0..n, hit : -1..n - 1]

(* A round stays inside the array.                                         *)
LEMMA NarrowType ==
  ASSUME NEW p, NEW A, Len(A) \in Nat, NEW key, NEW s \in Searches(Len(A))
  PROVE  Narrow(p, A, key, s) \in Searches(Len(A))
  <1> DEFINE mid == s.lo + (s.hi - s.lo) \div 2
             r == Compare(p, key, A[mid + 1])
  <1>1. CASE s.hit # NO_INDEX \/ s.lo >= s.hi
    BY <1>1 DEF Narrow
  <1>2. CASE ~(s.hit # NO_INDEX \/ s.lo >= s.hi)
    <2>1. s.lo \in 0..Len(A) /\ s.hi \in 0..Len(A) /\ s.lo < s.hi /\ s.hit = NO_INDEX
      BY <1>2 DEF Searches
    <2>2. mid \in Nat /\ s.lo <= mid /\ mid < s.hi
      BY <2>1
    <2>3. mid \in 0..Len(A) /\ mid + 1 \in 0..Len(A) /\ mid \in -1..Len(A) - 1
      BY <2>1, <2>2
    <2>4. Narrow(p, A, key, s) = IF r = 0 THEN [s EXCEPT !.hit = mid]
                                 ELSE IF r < 0 THEN [s EXCEPT !.hi = mid]
                                 ELSE [s EXCEPT !.lo = mid + 1]
      BY <1>2 DEF Narrow
    <2> HIDE DEF mid, r
    <2> QED
      BY <2>3, <2>4 DEF Searches
  <1> QED
    BY <1>1, <1>2

(* The loop of find_pool, round by round.                                  *)
Loops(p, A, key) ==
  {w \in [0..Len(A) -> Searches(Len(A))] :
     /\ w[0] = [lo |-> 0, hi |-> Len(A), hit |-> NO_INDEX]
     /\ \A k \in 1..Len(A) : w[k] = Narrow(p, A, key, w[k - 1])}

(* What the recursive function is.                                         *)
LEMMA RoundsFacts ==
  ASSUME NEW p, NEW A, Len(A) \in Nat, NEW key
  PROVE  Rounds(p, A, key) \in Loops(p, A, key)
  <1> DEFINE s == [lo |-> 0, hi |-> Len(A), hit |-> NO_INDEX]
             Step(w) == [k \in 0..Len(A) |-> IF k = 0 THEN s ELSE Narrow(p, A, key, w[k - 1])]
  <1>1. s \in Searches(Len(A))
    BY DEF Searches, NO_INDEX
  <1>2. PICK F \in [Searches(Len(A)) -> Searches(Len(A))] :
          \A t \in Searches(Len(A)) : F[t] = Narrow(p, A, key, t)
    <2>1. [t \in Searches(Len(A)) |-> Narrow(p, A, key, t)]
            \in [Searches(Len(A)) -> Searches(Len(A))]
      BY NarrowType
    <2> QED
      BY <2>1
  <1>3. PICK w \in [0..Len(A) -> Searches(Len(A))] :
          w[0] = s /\ \A k \in 1..Len(A) : w[k] = F[w[k - 1]]
    <2> HIDE DEF s
    <2>1. Iterations(Searches(Len(A)), F, s, Len(A)) # {}
      BY <1>1, Iterates
    <2> QED
      BY <2>1 DEF Iterations
  <1>4. w = Step(w)
    <2>1. ASSUME NEW k \in 0..Len(A)
          PROVE  w[k] = Step(w)[k]
      <3>1. CASE k = 0
        BY <1>3, <3>1
      <3>2. CASE k # 0
        <4>1. k \in 1..Len(A) /\ k - 1 \in 0..Len(A)
          BY <3>2
        <4>2. w[k - 1] \in Searches(Len(A))
          BY <1>3, <4>1
        <4>3. w[k] = Narrow(p, A, key, w[k - 1])
          BY <1>2, <1>3, <4>1, <4>2
        <4> QED
          BY <3>2, <4>3
      <3> QED
        BY <3>1, <3>2
    <2> QED
      BY <2>1
  <1>5. Rounds(p, A, key) = CHOOSE v : v = Step(v)
    BY DEF Rounds
  <1>6. Rounds(p, A, key) = Step(Rounds(p, A, key))
    <2> HIDE DEF Step
    <2> QED
      BY <1>4, <1>5
  <1> DEFINE v == Rounds(p, A, key)
  <1>7. DOMAIN v = 0..Len(A) /\ v[0] = s
        /\ \A k \in 1..Len(A) : v[k] = Narrow(p, A, key, v[k - 1])
    <2> HIDE DEF s, v
    <2>1. v = [k \in 0..Len(A) |-> IF k = 0 THEN s ELSE Narrow(p, A, key, v[k - 1])]
      BY <1>6 DEF v
    <2> QED
      BY <2>1
  <1>8. \A k \in 0..Len(A) : v[k] \in Searches(Len(A))
    <2> HIDE DEF v, s
    <2> DEFINE T == {k \in Nat : k \in 0..Len(A) => v[k] \in Searches(Len(A))}
    <2>1. 0 \in T
      BY <1>1, <1>7
    <2>2. ASSUME NEW k \in T
          PROVE  k + 1 \in T
      <3>1. SUFFICES ASSUME k + 1 \in 0..Len(A)
                     PROVE  v[k + 1] \in Searches(Len(A))
        OBVIOUS
      <3>2. k \in Nat /\ k \in 0..Len(A) /\ k + 1 \in 1..Len(A) /\ (k + 1) - 1 = k
        BY <3>1
      <3>3. v[k] \in Searches(Len(A))
        BY <3>2
      <3>4. v[k + 1] = Narrow(p, A, key, v[k])
        BY <1>7, <3>2
      <3> QED
        BY <3>3, <3>4, NarrowType
    <2>3. T \in SUBSET Nat
      OBVIOUS
    <2>4. T = Nat
      <3> HIDE DEF T
      <3> QED
        BY <2>1, <2>2, <2>3, SetInduction
    <2> QED
      BY <2>4
  <1>9. v \in [0..Len(A) -> Searches(Len(A))]
    <2>1. v = [k \in 0..Len(A) |-> v[k]]
      BY <1>6, <1>7
    <2> HIDE DEF v
    <2> QED
      BY <2>1, <1>8
  <1> QED
    BY <1>7, <1>9 DEF Loops

(* The array holds lists of strings, the smaller first.                    *)
Ascending(A) ==
  A \in Seq(Seq(Nat)) /\ \A i, j \in 1..Len(A) : i < j => Less(A[i], A[j])

(* The search has found entry j, or has it still before it.                *)
Before(s, j) ==
  IF s.hit = NO_INDEX THEN s.lo < j /\ j <= s.hi ELSE s.hit = j - 1

(* A round of find_pool keeps the entry that is looked for, and finds it   *)
(* or leaves less to search.                                               *)
LEMMA NarrowFacts ==
  ASSUME NEW p, NEW A, Ascending(A), NEW j \in 1..Len(A),
         NEW s \in Searches(Len(A)), Before(s, j), s.hit = NO_INDEX
  PROVE  /\ Before(Narrow(p, A, A[j], s), j)
         /\ Narrow(p, A, A[j], s).hit = NO_INDEX =>
              Narrow(p, A, A[j], s).hi - Narrow(p, A, A[j], s).lo < s.hi - s.lo
  <1> DEFINE mid == s.lo + (s.hi - s.lo) \div 2
             r == Compare(p, A[j], A[mid + 1])
             t == Narrow(p, A, A[j], s)
  <1>len. Len(A) \in Nat
    BY LenProperties DEF Ascending
  <1>1. s.lo \in 0..Len(A) /\ s.hi \in 0..Len(A) /\ s.lo < j /\ j <= s.hi /\ s.lo < s.hi
    BY <1>len DEF Searches, Before
  <1>2. mid \in Nat /\ s.lo <= mid /\ mid < s.hi
    BY <1>1, <1>len, SMTT(30)
  <1>3. mid + 1 \in 1..Len(A)
    BY <1>1, <1>2, <1>len
  <1>4. t = IF r = 0 THEN [s EXCEPT !.hit = mid]
            ELSE IF r < 0 THEN [s EXCEPT !.hi = mid]
            ELSE [s EXCEPT !.lo = mid + 1]
    BY <1>1 DEF Narrow
  <1>5. A[j] \in Seq(Nat) /\ A[mid + 1] \in Seq(Nat)
    BY <1>3, ElementOfSeq DEF Ascending
  <1>6. /\ j < mid + 1 => Less(A[j], A[mid + 1])
        /\ mid + 1 < j => Less(A[mid + 1], A[j])
    BY <1>3 DEF Ascending
  <1>7. ~(Less(A[j], A[mid + 1]) /\ Less(A[mid + 1], A[j]))
    BY <1>5, LessTransitive, LessIrreflexive
  <1> HIDE DEF mid, r, t
  <1>8. s = [lo |-> s.lo, hi |-> s.hi, hit |-> s.hit]
    BY DEF Searches
  <1>9. CASE j = mid + 1
    <2>1. r = 0
      BY <1>5, <1>9, LessIrreflexive DEF r, Compare
    <2>2. t = [lo |-> s.lo, hi |-> s.hi, hit |-> mid]
      BY <1>4, <1>8, <2>1
    <2>3. t.hit = j - 1
      BY <1>2, <1>9, <2>2
    <2>4. t.hit # NO_INDEX
      BY <2>3 DEF NO_INDEX
    <2> QED
      BY <2>3, <2>4 DEF Before, t
  <1>10. CASE j < mid + 1
    <2>1. r = -1
      BY <1>6, <1>10 DEF r, Compare
    <2>2. t = [lo |-> s.lo, hi |-> mid, hit |-> s.hit]
      BY <1>4, <1>8, <2>1
    <2>3. t.hit = NO_INDEX /\ t.lo < j /\ j <= t.hi /\ t.hi - t.lo < s.hi - s.lo
      BY <1>1, <1>2, <1>10, <2>2
    <2> QED
      BY <2>3 DEF Before, t
  <1>11. CASE mid + 1 < j
    <2>1. ~Less(A[j], A[mid + 1]) /\ A[j] # A[mid + 1]
      BY <1>5, <1>6, <1>7, <1>11, LessIrreflexive
    <2>2. r = 1
      BY <2>1 DEF r, Compare
    <2>3. t = [lo |-> mid + 1, hi |-> s.hi, hit |-> s.hit]
      BY <1>4, <1>8, <2>2
    <2>4. t.hit = NO_INDEX /\ t.lo < j /\ j <= t.hi /\ t.hi - t.lo < s.hi - s.lo
      BY <1>1, <1>2, <1>11, <2>3
    <2> QED
      BY <2>4 DEF Before, t
  <1> QED
    BY <1>2, <1>9, <1>10, <1>11

(* find_pool finds the entry of a sorted array.                            *)
LEMMA FindExact ==
  ASSUME NEW p, NEW A, Ascending(A), NEW j \in 1..Len(A)
  PROVE  Find(p, A, A[j]) = j - 1
  <1> DEFINE w == Rounds(p, A, A[j])
             T == {k \in Nat : k \in 0..Len(A) =>
                     Before(w[k], j) /\ (w[k].hit = NO_INDEX => w[k].hi - w[k].lo <= Len(A) - k)}
  <1>len. Len(A) \in Nat
    BY LenProperties DEF Ascending
  <1>1. /\ w \in [0..Len(A) -> Searches(Len(A))]
        /\ w[0] = [lo |-> 0, hi |-> Len(A), hit |-> NO_INDEX]
        /\ \A k \in 1..Len(A) : w[k] = Narrow(p, A, A[j], w[k - 1])
    <2>1. w \in Loops(p, A, A[j])
      BY <1>len, RoundsFacts
    <2> HIDE DEF w
    <2> QED
      BY <2>1 DEF Loops
  <1> HIDE DEF w
  <1>2. 0 \in T
    BY <1>len, <1>1 DEF Before, NO_INDEX
  <1>3. ASSUME NEW k \in T
        PROVE  k + 1 \in T
    <2>1. SUFFICES ASSUME k + 1 \in 0..Len(A)
                   PROVE  /\ Before(w[k + 1], j)
                          /\ w[k + 1].hit = NO_INDEX =>
                               w[k + 1].hi - w[k + 1].lo <= Len(A) - (k + 1)
      OBVIOUS
    <2>2. k \in Nat /\ k \in 0..Len(A) /\ k + 1 \in 1..Len(A) /\ (k + 1) - 1 = k
      BY <1>len, <2>1
    <2>3. Before(w[k], j) /\ (w[k].hit = NO_INDEX => w[k].hi - w[k].lo <= Len(A) - k)
      BY <2>2
    <2>4. w[k + 1] = Narrow(p, A, A[j], w[k]) /\ w[k] \in Searches(Len(A))
          /\ w[k + 1] \in Searches(Len(A))
      BY <1>1, <2>1, <2>2
    <2>5. CASE w[k].hit # NO_INDEX
      <3>1. w[k + 1] = w[k]
        BY <2>4, <2>5 DEF Narrow
      <3> QED
        BY <2>3, <2>5, <3>1
    <2>6. CASE w[k].hit = NO_INDEX
      <3>1. Before(w[k + 1], j)
        BY <2>3, <2>4, <2>6, NarrowFacts
      <3>2. ASSUME w[k + 1].hit = NO_INDEX
            PROVE  w[k + 1].hi - w[k + 1].lo <= Len(A) - (k + 1)
        <4>1. w[k + 1].hi - w[k + 1].lo < w[k].hi - w[k].lo
          BY <2>3, <2>4, <2>6, <3>2, NarrowFacts
        <4>2. /\ w[k].hi \in Int /\ w[k].lo \in Int
              /\ w[k + 1].hi \in Int /\ w[k + 1].lo \in Int
          BY <2>4 DEF Searches
        <4>3. w[k].hi - w[k].lo <= Len(A) - k
          BY <2>3, <2>6
        <4> DEFINE d == w[k].hi - w[k].lo
                   e == w[k + 1].hi - w[k + 1].lo
        <4>4. d \in Int /\ e \in Int /\ e < d /\ d <= Len(A) - k
          BY <4>1, <4>2, <4>3, SMTT(30)
        <4> HIDE DEF d, e
        <4>5. k \in Int /\ Len(A) \in Int
          BY <1>len, <2>2
        <4>6. e <= Len(A) - (k + 1)
          BY <4>4, <4>5
        <4> QED
          BY <4>6 DEF e
      <3> QED
        BY <3>1, <3>2
    <2> QED
      BY <2>5, <2>6
  <1>4. T \in SUBSET Nat
    OBVIOUS
  <1>5. T = Nat
    <2> HIDE DEF T
    <2> QED
      BY <1>2, <1>3, <1>4, SetInduction
  <1>6. Before(w[Len(A)], j)
        /\ (w[Len(A)].hit = NO_INDEX => w[Len(A)].hi - w[Len(A)].lo <= Len(A) - Len(A))
    BY <1>len, <1>5
  <1>7. w[Len(A)] \in Searches(Len(A))
    BY <1>len, <1>1
  <1>8. w[Len(A)].hit = j - 1
    BY <1>len, <1>6, <1>7 DEF Before, Searches
  <1> QED
    BY <1>8 DEF Find, w

(* An index is a number.                                                   *)
LEMMA FindType ==
  ASSUME NEW p, NEW A, Len(A) \in Nat, NEW key
  PROVE  Find(p, A, key) \in Int
  <1>1. Rounds(p, A, key) \in [0..Len(A) -> Searches(Len(A))]
    BY RoundsFacts DEF Loops
  <1>2. Rounds(p, A, key)[Len(A)] \in Searches(Len(A))
    BY <1>1
  <1> QED
    BY <1>2 DEF Find, Searches

-----------------------------------------------------------------------------
(* The number of keys of S before x.                                       *)
Rank(S, x) == Cardinality({y \in S : Less(y, x)})

(* A key before another has the lower rank.                                *)
LEMMA RankLess ==
  ASSUME NEW S \in SUBSET Seq(Nat), IsFiniteSet(S), NEW x \in S, NEW y \in S, Less(x, y)
  PROVE  Rank(S, x) < Rank(S, y)
  <1> DEFINE X == {z \in S : Less(z, x)}
             Y == {z \in S : Less(z, y)}
  <1>1. X \in SUBSET Y
    <2>1. ASSUME NEW z \in X PROVE z \in Y
      BY LessTransitive
    <2> QED
      BY <2>1
  <1>2. x \in Y /\ ~(x \in X)
    BY LessIrreflexive
  <1>3. Y \in SUBSET S
    OBVIOUS
  <1> HIDE DEF X, Y
  <1>4. IsFiniteSet(Y)
    BY <1>3, FS_Subset
  <1>5. IsFiniteSet(X) /\ Cardinality(X) <= Cardinality(Y)
        /\ (Cardinality(Y) = Cardinality(X) => Y = X)
    BY <1>1, <1>4, FS_Subset
  <1>6. Cardinality(X) \in Nat /\ Cardinality(Y) \in Nat
    BY <1>4, <1>5, FS_CardinalityType
  <1>7. Cardinality(X) < Cardinality(Y)
    BY <1>2, <1>5, <1>6
  <1> QED
    BY <1>7 DEF Rank, X, Y

(* The ranks of n keys are the numbers below n.                            *)
LEMMA RankRange ==
  ASSUME NEW S \in SUBSET Seq(Nat), IsFiniteSet(S)
  PROVE  /\ Cardinality(S) \in Nat
         /\ \A x \in S : Rank(S, x) \in 0..Cardinality(S) - 1
         /\ \A x, y \in S : Rank(S, x) = Rank(S, y) => x = y
         /\ \A k \in 0..Cardinality(S) - 1 : \E x \in S : Rank(S, x) = k
  <1> DEFINE n == Cardinality(S)
             f == [x \in S |-> Rank(S, x)]
  <1>1. n \in Nat
    BY FS_CardinalityType
  <1>2. ASSUME NEW x \in S PROVE Rank(S, x) \in 0..n - 1
    <2> DEFINE X == {z \in S : Less(z, x)}
    <2>1. X \in SUBSET S /\ ~(x \in X)
      BY LessIrreflexive
    <2> HIDE DEF X
    <2>2. IsFiniteSet(X) /\ Cardinality(X) <= n /\ (n = Cardinality(X) => S = X)
      BY <2>1, FS_Subset
    <2>3. Cardinality(X) \in Nat
      BY <2>2, FS_CardinalityType
    <2>4. Cardinality(X) \in 0..n - 1
      BY <1>1, <2>1, <2>2, <2>3
    <2> QED
      BY <2>4 DEF Rank, X
  <1>3. ASSUME NEW x \in S, NEW y \in S, Rank(S, x) = Rank(S, y)
        PROVE  x = y
    <2>1. Rank(S, x) \in Int
      BY <1>1, <1>2
    <2>2. ~Less(x, y) /\ ~Less(y, x)
      BY <1>3, <2>1, RankLess
    <2> QED
      BY <2>2, LessTotal
  <1>4. ASSUME NEW k \in 0..n - 1 PROVE \E x \in S : Rank(S, x) = k
    <2>1. f \in [S -> 0..n - 1] /\ IsInjective(f)
      BY <1>2, <1>3 DEF IsInjective
    <2>2. f \in Injection(S, 0..n - 1)
      BY <2>1 DEF Injection
    <2>3. IsFiniteSet(0..n - 1) /\ Cardinality(0..n - 1) = n
      <3>1. 0 \in Int /\ n - 1 \in Int
        BY <1>1
      <3>2. IsFiniteSet(0..n - 1)
            /\ Cardinality(0..n - 1) = IF 0 > n - 1 THEN 0 ELSE (n - 1) - 0 + 1
        BY <3>1, FS_Interval
      <3> QED
        BY <1>1, <3>2
    <2>4. f \in Surjection(S, 0..n - 1)
      <3> HIDE DEF f
      <3> QED
        BY <2>2, <2>3, FS_Injection
    <2>5. \E x \in S : f[x] = k
      BY <2>4 DEF Surjection
    <2> QED
      BY <2>5
  <1> QED
    BY <1>1, <1>2, <1>3, <1>4

(* make_unique leaves every constant once, the smaller first.              *)
LEMMA MakeUniqueFacts ==
  ASSUME NEW p, NEW S \in SUBSET Seq(Nat), IsFiniteSet(S)
  PROVE  /\ MakeUnique(p, S) \in Seq(S)
         /\ Len(MakeUnique(p, S)) = Cardinality(S)
         /\ Ascending(MakeUnique(p, S))
         /\ ToSet(MakeUnique(p, S)) = S
  <1> DEFINE n == Cardinality(S)
             A == [k \in 1..n |-> CHOOSE x \in S : Rank(S, x) = k - 1]
  <1>1. n \in Nat
    BY RankRange
  <1>2. MakeUnique(p, S) = A
    <2>1. ASSUME NEW x
          PROVE  Cardinality({y \in S : Compare(p, y, x) < 0}) = Rank(S, x)
      <3>1. {y \in S : Compare(p, y, x) < 0} = {y \in S : Less(y, x)}
        BY DEF Compare
      <3> QED
        BY <3>1 DEF Rank
    <2>2. MakeUnique(p, S)
            = [k \in 1..n |-> CHOOSE x \in S : Cardinality({y \in S : Compare(p, y, x) < 0}) = k - 1]
      BY DEF MakeUnique
    <2> QED
      BY <2>1, <2>2
  <1>3. ASSUME NEW k \in 1..n PROVE A[k] \in S /\ Rank(S, A[k]) = k - 1
    <2>1. k - 1 \in 0..n - 1
      BY <1>1
    <2>2. \E x \in S : Rank(S, x) = k - 1
      BY <2>1, RankRange
    <2> QED
      BY <2>2
  <1>4. A \in [1..n -> S]
    BY <1>3
  <1> HIDE DEF A
  <1>5. A \in Seq(S) /\ Len(A) = n
    BY <1>1, <1>4, IsASeq
  <1>6. ASSUME NEW k \in 1..n, NEW m \in 1..n, k < m PROVE Less(A[k], A[m])
    <2>1. A[k] \in S /\ A[m] \in S /\ Rank(S, A[k]) = k - 1 /\ Rank(S, A[m]) = m - 1
      BY <1>3
    <2>2. A[k] # A[m]
      BY <1>1, <1>6, <2>1
    <2>3. ~Less(A[m], A[k])
      <3>1. SUFFICES ASSUME Less(A[m], A[k]) PROVE FALSE
        OBVIOUS
      <3>2. Rank(S, A[m]) < Rank(S, A[k])
        BY <2>1, <3>1, RankLess
      <3> QED
        BY <1>1, <1>6, <2>1, <3>2
    <2> QED
      BY <2>1, <2>2, <2>3, LessTotal
  <1>7. A \in Seq(Seq(Nat))
    <2>1. A \in [1..n -> Seq(Nat)]
      BY <1>4
    <2> QED
      BY <1>1, <2>1, IsASeq
  <1>8. Ascending(A)
    BY <1>5, <1>6, <1>7 DEF Ascending
  <1>9. ASSUME NEW x \in S PROVE \E k \in 1..n : A[k] = x
    <2>1. Rank(S, x) \in 0..n - 1
      BY RankRange
    <2>2. Rank(S, x) + 1 \in 1..n /\ (Rank(S, x) + 1) - 1 = Rank(S, x)
      BY <1>1, <2>1
    <2>3. A[Rank(S, x) + 1] \in S /\ Rank(S, A[Rank(S, x) + 1]) = Rank(S, x)
      BY <1>3, <2>2
    <2>4. A[Rank(S, x) + 1] = x
      BY <2>3, RankRange
    <2> QED
      BY <2>2, <2>4
  <1>10. ToSet(A) = S
    <2>1. DOMAIN A = 1..n
      BY <1>4
    <2> QED
      BY <1>3, <1>9, <2>1 DEF ToSet
  <1> QED
    BY <1>2, <1>5, <1>8, <1>10

-----------------------------------------------------------------------------
(* A key is a list of strings that is not empty.                           *)
LEMMA KeyFacts ==
  ASSUME NEW p \in Pools, NEW key \in KeysOf(p)
  PROVE  /\ key \in Seq(Nat) /\ Len(key) \in Nat \ {0}
         /\ \A i \in 1..Len(key) : key[i] \in Nat
         /\ p \in {"strs", "types"} => Len(key) = 1
         /\ p = "protos" => Shorty(key) \in Nat
         /\ p = "fields" => Len(key) = 3
         /\ p = "methods" => Len(key) >= 3 /\ SubSeq(key, 3, Len(key)) \in KeysOf("protos")
  <1>1. /\ key \in Seq(Nat)
        /\ p \in {"strs", "types"} => Len(key) = 1
        /\ p = "protos" => Len(key) >= 1 /\ Shorty(key) \in Nat
        /\ p = "fields" => Len(key) = 3
        /\ p = "methods" => Len(key) >= 3 /\ SubSeq(key, 3, Len(key)) \in Prototypes
    BY DEF Pools, KeysOf, Prototypes
  <1>2. Len(key) \in Nat
    BY <1>1, LenProperties
  <1>3. Len(key) # 0
    BY <1>1, <1>2 DEF Pools
  <1>4. \A i \in 1..Len(key) : key[i] \in Nat
    BY <1>1, ElementOfSeq
  <1>5. KeysOf("protos") = Prototypes
    BY DEF KeysOf
  <1> QED
    BY <1>1, <1>2, <1>3, <1>4, <1>5

(* A list of one string is a key of the strings and of the types.          *)
LEMMA OneString ==
  ASSUME NEW s \in Nat
  PROVE  /\ <<s>> \in KeysOf("strs") /\ <<s>> \in KeysOf("types")
         /\ IsConstant(Str(s)) /\ IsConstant(Type(s))
  <1>1. <<s>> \in Seq(Nat) /\ Len(<<s>>) = 1
    OBVIOUS
  <1>2. <<s>> \in KeysOf("strs") /\ <<s>> \in KeysOf("types")
    BY <1>1 DEF KeysOf
  <1>3. /\ Str(s).pool = "strs" /\ Str(s).key = <<s>>
        /\ Type(s).pool = "types" /\ Type(s).key = <<s>>
    BY DEF Str, Type
  <1>4. IsConstant(Str(s))
    BY <1>2, <1>3 DEF IsConstant, Pools, Str
  <1>5. IsConstant(Type(s))
    BY <1>2, <1>3 DEF IsConstant, Pools, Type
  <1> QED
    BY <1>2, <1>4, <1>5

(* The pools that are closed after p.                                      *)
Later(p) ==
  CASE p = "methods" -> {"protos", "types", "strs"}
    [] p = "fields" -> {"types", "strs"}
    [] p = "protos" -> {"types", "strs"}
    [] p = "types" -> {"strs"}
    [] p = "strs" -> {}

(* The parts of a constant are constants of the pools closed after its own. *)
LEMMA PartsFacts ==
  ASSUME NEW p \in Pools, NEW key \in KeysOf(p), NEW c \in PartsOf(p, key)
  PROVE  IsConstant(c) /\ c.pool \in Later(p)
  <1> DEFINE proto == SubSeq(key, 3, Len(key))
  <1>1. /\ \A i \in 1..Len(key) : key[i] \in Nat
        /\ Len(key) \in Nat
    BY KeyFacts
  <1>2. /\ \A s \in Nat : IsConstant(Str(s)) /\ Str(s).pool = "strs"
        /\ \A s \in Nat : IsConstant(Type(s)) /\ Type(s).pool = "types"
    BY OneString DEF Str, Type
  <1>3. CASE p = "methods"
    <2>1. c \in {Type(key[1]), Str(key[2]), Proto(proto)}
      BY <1>3 DEF PartsOf
    <2>2. key[1] \in Nat /\ key[2] \in Nat /\ proto \in KeysOf("protos")
      BY <1>1, <1>3, KeyFacts
    <2>3. Proto(proto).pool = "protos" /\ Proto(proto).key = proto
      BY DEF Proto
    <2>4. IsConstant(Proto(proto))
      BY <2>2, <2>3 DEF IsConstant, Pools, Proto
    <2>5. Later(p) = {"protos", "types", "strs"}
      BY <1>3 DEF Later
    <2> HIDE DEF proto
    <2> QED
      BY <1>2, <2>1, <2>2, <2>3, <2>4, <2>5
  <1>4. CASE p = "fields"
    <2>1. c \in {Type(key[1]), Str(key[2]), Type(key[3])}
      BY <1>4 DEF PartsOf
    <2>2. key[1] \in Nat /\ key[2] \in Nat /\ key[3] \in Nat
      BY <1>1, <1>4, KeyFacts
    <2>3. Later(p) = {"types", "strs"}
      BY <1>4 DEF Later
    <2> QED
      BY <1>2, <2>1, <2>2, <2>3
  <1>5. CASE p = "protos"
    <2>1. c \in {Type(key[i]) : i \in 1..Len(key)} \cup {Str(Shorty(key))}
      BY <1>5 DEF PartsOf
    <2>2. Shorty(key) \in Nat
      BY <1>5, KeyFacts
    <2>3. Later(p) = {"types", "strs"}
      BY <1>5 DEF Later
    <2> QED
      BY <1>1, <1>2, <2>1, <2>2, <2>3
  <1>6. CASE p = "types"
    <2>1. c = Str(key[1])
      BY <1>6 DEF PartsOf
    <2>2. key[1] \in Nat
      BY <1>1, <1>6, KeyFacts
    <2>3. Later(p) = {"strs"}
      BY <1>6 DEF Later
    <2> QED
      BY <1>2, <2>1, <2>2, <2>3
  <1>7. CASE p = "strs"
    BY <1>7 DEF PartsOf
  <1> QED
    BY <1>3, <1>4, <1>5, <1>6, <1>7 DEF Pools

(* The id item of a prototype: its shorty descriptor, then its types.      *)
LEMMA ProtoItem ==
  ASSUME NEW key, Len(key) \in Nat \ {0}
  PROVE  IdItem("protos", key) =
           [k \in 1..Len(key) + 1 |-> IF k = 1 THEN Str(Shorty(key)) ELSE Type(key[k - 1])]
  <1>1. IdItem("protos", key) = <<Str(Shorty(key)), Type(key[1])>>
                                  \o [i \in 1..Len(key) - 1 |-> Type(key[i + 1])]
    BY DEF IdItem
  <1> DEFINE item == IdItem("protos", key)
             n == Len(key)
             tail == [i \in 1..n - 1 |-> Type(key[i + 1])]
  <1>2. item = <<Str(Shorty(key)), Type(key[1])>> \o tail
    BY <1>1
  <1>3. n \in Nat \ {0}
    OBVIOUS
  <1> HIDE DEF item, n
  <1>4. item = [k \in 1..n + 1 |-> IF k = 1 THEN Str(Shorty(key)) ELSE Type(key[k - 1])]
    BY <1>2, <1>3
  <1> QED
    BY <1>4 DEF item, n

(* The id item of a constant has one entry for each of its parts.          *)
LEMMA IdItemFacts ==
  ASSUME NEW p \in Pools, NEW key \in KeysOf(p)
  PROVE  /\ Len(IdItem(p, key)) \in Nat
         /\ ToSet(IdItem(p, key)) = PartsOf(p, key)
         /\ \A k \in 1..Len(IdItem(p, key)) : IdItem(p, key)[k] \in PartsOf(p, key)
  <1> DEFINE item == IdItem(p, key)
  <1>1. Len(key) \in Nat \ {0}
    BY KeyFacts
  <1>2. CASE p = "methods"
    <2>1. item = <<Type(key[1]), Proto(SubSeq(key, 3, Len(key))), Str(key[2])>>
      BY <1>2 DEF IdItem
    <2>2. PartsOf(p, key) = {Type(key[1]), Str(key[2]), Proto(SubSeq(key, 3, Len(key)))}
      BY <1>2 DEF PartsOf
    <2> QED
      BY <2>1, <2>2 DEF ToSet
  <1>3. CASE p = "fields"
    <2>1. item = <<Type(key[1]), Type(key[3]), Str(key[2])>>
      BY <1>3 DEF IdItem
    <2>2. PartsOf(p, key) = {Type(key[1]), Str(key[2]), Type(key[3])}
      BY <1>3 DEF PartsOf
    <2> QED
      BY <2>1, <2>2 DEF ToSet
  <1>4. CASE p = "protos"
    <2>2. PartsOf(p, key) = {Type(key[i]) : i \in 1..Len(key)} \cup {Str(Shorty(key))}
      BY <1>4 DEF PartsOf
    <2>3. item = [k \in 1..Len(key) + 1 |-> IF k = 1 THEN Str(Shorty(key)) ELSE Type(key[k - 1])]
      BY <1>1, <1>4, ProtoItem
    <2> HIDE DEF item
    <2>4. Len(item) = Len(key) + 1 /\ DOMAIN item = 1..Len(key) + 1
          /\ item[1] = Str(Shorty(key))
          /\ \A k \in 2..Len(key) + 1 : item[k] = Type(key[k - 1])
      BY <1>1, <2>3
    <2>5. ASSUME NEW k \in 1..Len(key) + 1 PROVE item[k] \in PartsOf(p, key)
      <3>1. CASE k = 1
        BY <2>2, <2>4, <3>1
      <3>2. CASE k # 1
        <4>1. k \in 2..Len(key) + 1 /\ k - 1 \in 1..Len(key)
          BY <1>1, <3>2
        <4> QED
          BY <2>2, <2>4, <4>1
      <3> QED
        BY <3>1, <3>2
    <2>6. ASSUME NEW c \in PartsOf(p, key) PROVE \E k \in 1..Len(key) + 1 : item[k] = c
      <3>1. CASE c = Str(Shorty(key))
        BY <1>1, <2>4, <3>1
      <3>2. CASE \E i \in 1..Len(key) : c = Type(key[i])
        <4>1. PICK i \in 1..Len(key) : c = Type(key[i])
          BY <3>2
        <4>2. i + 1 \in 2..Len(key) + 1 /\ i + 1 \in 1..Len(key) + 1 /\ (i + 1) - 1 = i
          BY <1>1
        <4>3. item[i + 1] = Type(key[i])
          BY <2>4, <4>2
        <4> QED
          BY <4>1, <4>2, <4>3
      <3> QED
        BY <2>2, <3>1, <3>2
    <2> QED
      BY <1>1, <2>4, <2>5, <2>6 DEF ToSet, item
  <1>5. CASE p = "types"
    <2>1. item = <<Str(key[1])>> /\ PartsOf(p, key) = {Str(key[1])}
      BY <1>5 DEF IdItem, PartsOf
    <2> QED
      BY <2>1 DEF ToSet
  <1>6. CASE p = "strs"
    <2>1. item = << >> /\ PartsOf(p, key) = {}
      BY <1>6 DEF IdItem, PartsOf
    <2> QED
      BY <2>1 DEF ToSet
  <1> QED
    BY <1>2, <1>3, <1>4, <1>5, <1>6 DEF Pools

(* The image of a finite set is finite.                                    *)
LEMMA FiniteImage ==
  ASSUME NEW S, IsFiniteSet(S), NEW f, DOMAIN f = S
  PROVE  IsFiniteSet({f[x] : x \in S})
  <1> DEFINE T == {f[x] : x \in S}
             g == [x \in S |-> f[x]]
  <1>1. g \in [S -> T] /\ \A t \in T : \E x \in S : g[x] = t
    OBVIOUS
  <1>2. g \in Surjection(S, T)
    BY <1>1 DEF Surjection
  <1> HIDE DEF T, g
  <1>3. IsFiniteSet(T)
    BY <1>2, FS_Surjection
  <1> QED
    BY <1>3 DEF T

(* A constant has finitely many parts.                                     *)
LEMMA PartsFinite ==
  ASSUME NEW p \in Pools, NEW key \in KeysOf(p)
  PROVE  IsFiniteSet(PartsOf(p, key))
  <1> DEFINE item == IdItem(p, key)
  <1>1. Len(item) \in Nat /\ ToSet(item) = PartsOf(p, key)
    BY IdItemFacts
  <1>2. DOMAIN item = 1..Len(item)
    <2>1. CASE p = "protos"
      <3>1. item = <<Str(Shorty(key)), Type(key[1])>>
                     \o [i \in 1..Len(key) - 1 |-> Type(key[i + 1])]
        BY <2>1 DEF IdItem
      <3>2. Len(key) \in Nat \ {0}
        BY KeyFacts
      <3>3. item = [k \in 1..Len(key) + 1 |-> IF k = 1 THEN Str(Shorty(key)) ELSE Type(key[k - 1])]
        BY <3>1, <3>2
      <3> HIDE DEF item
      <3> QED
        BY <3>2, <3>3
    <2>2. CASE p # "protos"
      <3>1. \/ item = << >>
            \/ item = <<Str(key[1])>>
            \/ item = <<Type(key[1]), Type(key[3]), Str(key[2])>>
            \/ item = <<Type(key[1]), Proto(SubSeq(key, 3, Len(key))), Str(key[2])>>
        BY <2>2 DEF IdItem, Pools
      <3> HIDE DEF item
      <3> QED
        BY <3>1
    <2> QED
      BY <2>1, <2>2
  <1> HIDE DEF item
  <1>3. IsFiniteSet(1..Len(item))
    BY <1>1, FS_Interval
  <1>4. IsFiniteSet({item[k] : k \in 1..Len(item)})
    BY <1>2, <1>3, FiniteImage
  <1> QED
    BY <1>1, <1>2, <1>4 DEF ToSet

(* add_str and the others add the constants to their pools, and nothing    *)
(* else.                                                                   *)
LEMMA AddFacts ==
  ASSUME TypeOK, NEW C, IsFiniteSet(C), \A c \in C : IsConstant(c)
  PROVE  /\ DOMAIN Add(C) = Pools
         /\ \A p \in Pools :
              /\ IsFiniteSet(Add(C)[p]) /\ Add(C)[p] \subseteq KeysOf(p)
              /\ pool[p] \subseteq Add(C)[p]
              /\ (\A c \in C : c.pool # p) => Add(C)[p] = pool[p]
              /\ \A key \in Add(C)[p] : key \in pool[p] \/ [pool |-> p, key |-> key] \in C
         /\ \A c \in C : c.pool \in Pools /\ c.key \in Add(C)[c.pool]
  <1> DEFINE New(p) == {c.key : c \in {d \in C : d.pool = p}}
  <1>1. Add(C) = [p \in Pools |-> pool[p] \cup New(p)]
    BY DEF Add
  <1>2. DOMAIN Add(C) = Pools /\ \A p \in Pools : Add(C)[p] = pool[p] \cup New(p)
    BY <1>1
  <1>3. ASSUME NEW p \in Pools PROVE IsFiniteSet(New(p))
    <2> DEFINE D == {d \in C : d.pool = p}
               f == [c \in D |-> c.key]
    <2>1. IsFiniteSet(D)
      <3>1. D \in SUBSET C
        OBVIOUS
      <3> HIDE DEF D
      <3> QED
        BY <3>1, FS_Subset
    <2>2. DOMAIN f = D /\ New(p) = {f[c] : c \in D}
      OBVIOUS
    <2> HIDE DEF D, f, New
    <2> QED
      BY <2>1, <2>2, FiniteImage
  <1>4. ASSUME NEW c \in C
        PROVE  /\ c.pool \in Pools /\ c.key \in KeysOf(c.pool) /\ c.key \in New(c.pool)
               /\ c = [pool |-> c.pool, key |-> c.key]
    BY DEF IsConstant
  <1>5. ASSUME NEW p \in Pools, NEW key \in New(p)
        PROVE  key \in KeysOf(p) /\ [pool |-> p, key |-> key] \in C /\ \E c \in C : c.pool = p
    <2>1. PICK c \in C : c.pool = p /\ c.key = key
      OBVIOUS
    <2> QED
      BY <1>4, <2>1
  <1>6. \A p \in Pools : IsFiniteSet(pool[p]) /\ pool[p] \subseteq KeysOf(p)
    BY DEF TypeOK
  <1> HIDE DEF New
  <1>7. ASSUME NEW p \in Pools
        PROVE  /\ IsFiniteSet(Add(C)[p]) /\ Add(C)[p] \subseteq KeysOf(p)
               /\ pool[p] \subseteq Add(C)[p]
               /\ (\A c \in C : c.pool # p) => Add(C)[p] = pool[p]
               /\ \A key \in Add(C)[p] : key \in pool[p] \/ [pool |-> p, key |-> key] \in C
    <2>1. IsFiniteSet(pool[p] \cup New(p))
      BY <1>3, <1>6, FS_Union
    <2>2. Add(C)[p] = pool[p] \cup New(p)
      BY <1>2
    <2>3. (\A c \in C : c.pool # p) => New(p) = {}
      BY <1>5
    <2>4. \A key \in New(p) : key \in KeysOf(p) /\ [pool |-> p, key |-> key] \in C
      BY <1>5
    <2> QED
      BY <1>6, <2>1, <2>2, <2>3, <2>4
  <1>8. \A c \in C : c.pool \in Pools /\ c.key \in Add(C)[c.pool]
    BY <1>2, <1>4
  <1> QED
    BY <1>2, <1>7, <1>8

-----------------------------------------------------------------------------
(* The parts of all the constants of a pool.                               *)
PartsOfPool(p) == UNION {PartsOf(p, key) : key \in pool[p]}

(* What closing a pool adds: finitely many constants of later pools.       *)
LEMMA PartsOfPoolFacts ==
  ASSUME TypeOK, NEW p \in Pools
  PROVE  /\ IsFiniteSet(PartsOfPool(p))
         /\ \A c \in PartsOfPool(p) : IsConstant(c) /\ c.pool \in Later(p)
  <1>1. IsFiniteSet(pool[p]) /\ \A key \in pool[p] : key \in KeysOf(p)
    BY DEF TypeOK
  <1> DEFINE f == [key \in pool[p] |-> PartsOf(p, key)]
             Sets == {f[key] : key \in pool[p]}
  <1>2. PartsOfPool(p) = UNION Sets
    BY DEF PartsOfPool
  <1>3. \A T \in Sets : IsFiniteSet(T)
    BY <1>1, PartsFinite
  <1>4. DOMAIN f = pool[p]
    OBVIOUS
  <1>5. IsFiniteSet(Sets)
    <2> HIDE DEF f
    <2> QED
      BY <1>1, <1>4, FiniteImage
  <1>6. IsFiniteSet(UNION Sets)
    <2> HIDE DEF Sets
    <2> QED
      BY <1>3, <1>5, FS_UNION
  <1>7. \A c \in PartsOfPool(p) : IsConstant(c) /\ c.pool \in Later(p)
    BY <1>1, PartsFacts DEF PartsOfPool
  <1> QED
    BY <1>2, <1>6, <1>7

(* What is known of the class that the loops are at.                       *)
LEMMA ClassFacts ==
  ASSUME TypeOK
  PROVE  /\ Len(dex) \in Nat
         /\ \A i \in 1..Len(dex) :
              /\ IsFiniteSet(Collected(dex[i]))
              /\ \A c \in Collected(dex[i]) : IsConstant(c)
              /\ \A c \in LookedUp(dex[i]) : IsConstant(c)
  BY ClassesAssumption DEF TypeOK

(* The type of the pools and of what is found is kept.                     *)
LEMMA CloseTypeOK ==
  ASSUME TypeOK, NEW p \in Pools, NEW next \in Steps, Close(p, next)
  PROVE  TypeOK'
  <1>1. /\ pc' = next /\ UNCHANGED <<dex, pos, ids, found>>
        /\ unique' = unique \cup {p}
        /\ array' = [array EXCEPT ![p] = MakeUnique(p, pool[p])]
        /\ pool' = Add(PartsOfPool(p))
    BY DEF Close, PartsOfPool
  <1>2. IsFiniteSet(PartsOfPool(p)) /\ \A c \in PartsOfPool(p) : IsConstant(c)
    BY PartsOfPoolFacts
  <1>3. DOMAIN pool' = Pools
        /\ \A q \in Pools : IsFiniteSet(pool'[q]) /\ pool'[q] \subseteq KeysOf(q)
    BY <1>1, <1>2, AddFacts
  <1>4. IsFiniteSet(pool[p]) /\ pool[p] \subseteq KeysOf(p)
    BY DEF TypeOK
  <1>5. pool[p] \in SUBSET Seq(Nat)
    BY <1>4, KeyFacts
  <1>6. MakeUnique(p, pool[p]) \in Seq(pool[p])
    BY <1>4, <1>5, MakeUniqueFacts
  <1>7. MakeUnique(p, pool[p]) \in Seq(KeysOf(p))
    <2>1. Seq(pool[p]) \subseteq Seq(KeysOf(p))
      BY <1>4
    <2> QED
      BY <1>6, <2>1
  <1>8. DOMAIN array = Pools /\ \A q \in Pools : array[q] \in Seq(KeysOf(q))
    BY DEF TypeOK
  <1>9. DOMAIN array' = Pools /\ \A q \in Pools : array'[q] \in Seq(KeysOf(q))
    BY <1>1, <1>7, <1>8
  <1> QED
    BY <1>1, <1>3, <1>9 DEF TypeOK

(* The type invariant.                                                     *)
LEMMA NextTypeOK ==
  ASSUME TypeOK, [Next]_vars
  PROVE  TypeOK'
  <1>len. Len(dex) \in Nat /\ pos \in 1..Len(dex) + 1
    BY ClassFacts DEF TypeOK
  <1>1. CASE Populate
    <2>1. pos \in 1..Len(dex) /\ pos' \in 1..Len(dex) + 1
      BY <1>len, <1>1 DEF Populate
    <2>2. IsFiniteSet(Collected(dex[pos])) /\ \A c \in Collected(dex[pos]) : IsConstant(c)
      BY <2>1, ClassFacts
    <2>3. pool' = Add(Collected(dex[pos]))
      BY <1>1 DEF Populate
    <2>4. DOMAIN pool' = Pools
          /\ \A q \in Pools : IsFiniteSet(pool'[q]) /\ pool'[q] \subseteq KeysOf(q)
      BY <2>2, <2>3, AddFacts
    <2>5. UNCHANGED <<dex, pc, unique, array, ids, found>>
      BY <1>1 DEF Populate
    <2> QED
      BY <2>1, <2>4, <2>5 DEF TypeOK
  <1>2. CASE PopulateEnd
    <2>1. pos' = 1 /\ pc' \in Steps /\ UNCHANGED <<dex, pool, unique, array, ids, found>>
      BY <1>2 DEF PopulateEnd, Steps
    <2>2. pos' \in 1..Len(dex) + 1
      BY <1>len, <2>1
    <2> QED
      BY <2>1, <2>2 DEF TypeOK
  <1>3. CASE CloseMethods
    BY <1>3, CloseTypeOK DEF CloseMethods, Pools, Steps
  <1>4. CASE CloseFields
    BY <1>4, CloseTypeOK DEF CloseFields, Pools, Steps
  <1>5. CASE CloseProtos
    BY <1>5, CloseTypeOK DEF CloseProtos, Pools, Steps
  <1>6. CASE CloseTypes
    BY <1>6, CloseTypeOK DEF CloseTypes, Pools, Steps
  <1>7. CASE CloseStrs
    BY <1>7, CloseTypeOK DEF CloseStrs, Pools, Steps
  <1>8. CASE WriteConstantPool
    <2>1. pc' \in Steps /\ UNCHANGED <<dex, pos, pool, unique, array, found>>
      BY <1>8 DEF WriteConstantPool, Steps
    <2> QED
      BY <2>1 DEF TypeOK
  <1>9. CASE WriteClassItem
    <2>1. pos \in 1..Len(dex) /\ pos' \in 1..Len(dex) + 1
      BY <1>len, <1>9 DEF WriteClassItem
    <2>2. UNCHANGED <<dex, pc, pool, unique, array, ids>>
      BY <1>9 DEF WriteClassItem
    <2>3. ASSUME NEW f \in found' PROVE f.index \in Int /\ IsConstant(f.constant)
      <3>1. CASE f \in found
        BY <3>1 DEF TypeOK
      <3>2. CASE f \in {[constant |-> c, index |-> Lookup(c)] : c \in LookedUp(dex[pos])}
        <4>1. PICK c \in LookedUp(dex[pos]) : f = [constant |-> c, index |-> Lookup(c)]
          BY <3>2
        <4>2. IsConstant(c)
          BY <2>1, ClassFacts
        <4>3. array[c.pool] \in Seq(KeysOf(c.pool))
          BY <4>2 DEF TypeOK, IsConstant
        <4>4. Len(array[c.pool]) \in Nat
          BY <4>3, LenProperties
        <4>5. Lookup(c) \in Int
          BY <4>4, FindType DEF Lookup
        <4> QED
          BY <4>1, <4>2, <4>5
      <3>3. found' = found
                     \cup {[constant |-> c, index |-> Lookup(c)] : c \in LookedUp(dex[pos])}
        BY <1>9 DEF WriteClassItem
      <3> QED
        BY <3>1, <3>2, <3>3
    <2> QED
      BY <2>1, <2>2, <2>3 DEF TypeOK
  <1>10. CASE WriteClassesEnd
    <2>1. pc' \in Steps /\ UNCHANGED <<dex, pos, pool, unique, array, ids, found>>
      BY <1>10 DEF WriteClassesEnd, Steps
    <2> QED
      BY <2>1 DEF TypeOK
  <1>11. CASE UNCHANGED vars
    BY <1>11 DEF vars, TypeOK
  <1>12. CASE Done
    BY <1>11, <1>12 DEF Done
  <1> QED
    BY <1>1, <1>2, <1>3, <1>4, <1>5, <1>6, <1>7, <1>8, <1>9, <1>10, <1>11, <1>12 DEF Next

-----------------------------------------------------------------------------
(* The pools that are unique at each step.                                 *)
UniquePools ==
  CASE pc \in {"populate", "methods"} -> {}
    [] pc = "fields" -> {"methods"}
    [] pc = "protos" -> {"methods", "fields"}
    [] pc = "types" -> {"methods", "fields", "protos"}
    [] pc = "strs" -> {"methods", "fields", "protos", "types"}
    [] OTHER -> Pools

UniqueInv == unique = UniquePools

(* A unique pool has been sorted with all that it holds now.               *)
ArrayInv ==
  \A p \in Pools : array[p] = IF p \in unique THEN MakeUnique(p, pool[p]) ELSE << >>

(* The pools hold the parts of the constants of unique pools.              *)
ClosedInv ==
  \A p \in unique : \A key \in pool[p] : \A c \in PartsOf(p, key) : c.key \in pool[c.pool]

(* They hold what the classes visited refer to ...                         *)
CollectedInv ==
  \A i \in 1..Len(dex) : (pc = "populate" => i < pos) =>
    \A c \in Collected(dex[i]) : c.key \in pool[c.pool]

(* ... and nothing else.                                                   *)
Needed(c) ==
  \/ \E i \in 1..Len(dex) : c \in Collected(dex[i])
  \/ \E q \in unique : \E other \in pool[q] : c \in PartsOf(q, other)

OriginInv == \A p \in Pools : \A key \in pool[p] : Needed([pool |-> p, key |-> key])

IdItems ==
  [p \in Pools |->
     [i \in 1..Len(array[p]) |->
        LET parts == IdItem(p, array[p][i])
        IN  [k \in 1..Len(parts) |-> Stored(p, parts[k], k)]]]

IdsInv == pc \in {"classes", "done"} => ids = IdItems

(* What has been found is what the classes written refer to.               *)
FoundInv ==
  /\ \A f \in found : \E i \in 1..Len(dex) :
       /\ pc \in {"classes", "done"}
       /\ f.constant \in LookedUp(dex[i])
       /\ f.index = Lookup(f.constant)
  /\ \A i \in 1..Len(dex) : pc = "done" \/ (pc = "classes" /\ i < pos) =>
       \A c \in LookedUp(dex[i]) : \E f \in found : f.constant = c
  /\ pc \in {"populate", "classes", "done"} \/ pos = 1

IndInv ==
  /\ TypeOK /\ UniqueInv /\ ArrayInv /\ ClosedInv /\ CollectedInv /\ OriginInv
  /\ IdsInv /\ FoundInv

(* As long as an array stays, a lookup in it has the same result.          *)
LEMMA SameLookups ==
  ASSUME array' = array
  PROVE  /\ \A c : Lookup(c)' = Lookup(c)
         /\ IdItems' = IdItems
  <1>1. ASSUME NEW CONSTANT c PROVE Lookup(c)' = Lookup(c)
    BY DEF Lookup
  <1>2. ASSUME NEW CONSTANT p, NEW CONSTANT part, NEW CONSTANT k
        PROVE  Stored(p, part, k)' = Stored(p, part, k)
    BY <1>1 DEF Stored
  <1>3. IdItems' = IdItems
    BY <1>2 DEF IdItems
  <1> QED
    BY <1>1, <1>3

(* What is needed once is needed for ever.                                 *)
LEMMA NeededKept ==
  ASSUME dex' = dex, unique \subseteq unique', \A q \in unique : pool[q] \subseteq pool'[q],
         NEW CONSTANT c, Needed(c)
  PROVE  Needed(c)'
  BY DEF Needed

(* The closure of a pool adds to no pool that is unique already.           *)
LEMMA CloseKeeps ==
  ASSUME IndInv, NEW p \in Pools, NEW next \in Steps, Close(p, next),
         Later(p) \cap (unique \cup {p}) = {}
  PROVE  /\ \A q \in Pools : pool[q] \subseteq pool'[q]
         /\ \A q \in unique \cup {p} : pool'[q] = pool[q]
         /\ \A c \in PartsOfPool(p) : c.pool \in Pools /\ c.key \in pool'[c.pool]
         /\ \A q \in Pools : \A key \in pool'[q] :
              key \in pool[q] \/ [pool |-> q, key |-> key] \in PartsOfPool(p)
  <1>1. TypeOK /\ pool' = Add(PartsOfPool(p))
    BY DEF IndInv, Close, PartsOfPool
  <1>2. /\ IsFiniteSet(PartsOfPool(p))
        /\ \A c \in PartsOfPool(p) : IsConstant(c) /\ c.pool \in Later(p)
    BY <1>1, PartsOfPoolFacts
  <1>3. unique \cup {p} \subseteq Pools
    BY <1>1 DEF TypeOK
  <1>4. /\ \A q \in Pools :
             /\ pool[q] \subseteq pool'[q]
             /\ (\A c \in PartsOfPool(p) : c.pool # q) => pool'[q] = pool[q]
             /\ \A key \in pool'[q] :
                  key \in pool[q] \/ [pool |-> q, key |-> key] \in PartsOfPool(p)
        /\ \A c \in PartsOfPool(p) : c.pool \in Pools /\ c.key \in pool'[c.pool]
    BY <1>1, <1>2, AddFacts
  <1>5. \A q \in unique \cup {p} : \A c \in PartsOfPool(p) : c.pool # q
    BY <1>2
  <1> QED
    BY <1>3, <1>4, <1>5

(* A pool is closed: the invariant, the names of the unique pools apart.   *)
LEMMA CloseInv ==
  ASSUME IndInv, NEW p \in Pools, NEW next \in Steps, Close(p, next),
         ~(p \in unique), Later(p) \cap (unique \cup {p}) = {},
         ~(pc \in {"populate", "classes", "done"}),
         ~(next \in {"populate", "classes", "done"})
  PROVE  /\ ArrayInv' /\ ClosedInv' /\ CollectedInv' /\ OriginInv'
         /\ IdsInv' /\ FoundInv'
  <1>1. /\ pc' = next /\ UNCHANGED <<dex, pos, ids, found>>
        /\ unique' = unique \cup {p}
        /\ array' = [array EXCEPT ![p] = MakeUnique(p, pool[p])]
    BY DEF Close
  <1>2. /\ \A q \in Pools : pool[q] \subseteq pool'[q]
        /\ \A q \in unique' : pool'[q] = pool[q]
        /\ \A c \in PartsOfPool(p) : c.pool \in Pools /\ c.key \in pool'[c.pool]
        /\ \A q \in Pools : \A key \in pool'[q] :
             key \in pool[q] \/ [pool |-> q, key |-> key] \in PartsOfPool(p)
    BY <1>1, CloseKeeps
  <1>3. TypeOK /\ DOMAIN array = Pools /\ unique \subseteq Pools
        /\ \A q \in Pools : \A key \in pool[q] : key \in KeysOf(q)
    BY DEF IndInv, TypeOK
  <1>4. ArrayInv'
    <2>1. ASSUME NEW q \in Pools
          PROVE  array'[q] = IF q \in unique' THEN MakeUnique(q, pool'[q]) ELSE << >>
      <3>1. array[q] = IF q \in unique THEN MakeUnique(q, pool[q]) ELSE << >>
        BY DEF IndInv, ArrayInv
      <3>2. CASE q = p
        BY <1>1, <1>2, <1>3, <3>2
      <3>3. CASE q # p
        BY <1>1, <1>2, <1>3, <3>1, <3>3
      <3> QED
        BY <3>2, <3>3
    <2> QED
      BY <2>1 DEF ArrayInv
  <1>5. ClosedInv'
    <2>1. ASSUME NEW q \in unique', NEW key \in pool'[q], NEW c \in PartsOf(q, key)
          PROVE  c.key \in pool'[c.pool]
      <3>1. q \in Pools /\ key \in pool[q] /\ key \in KeysOf(q)
        BY <1>1, <1>2, <1>3
      <3>2. c.pool \in Pools
        BY <3>1, PartsFacts DEF IsConstant
      <3>3. CASE q = p
        BY <1>2, <3>1, <3>3 DEF PartsOfPool
      <3>4. CASE q # p
        <4>1. q \in unique
          BY <1>1, <3>4
        <4>2. c.key \in pool[c.pool]
          BY <3>1, <4>1 DEF IndInv, ClosedInv
        <4> QED
          BY <1>2, <3>2, <4>2
      <3> QED
        BY <3>3, <3>4
    <2> QED
      BY <2>1 DEF ClosedInv
  <1>6. CollectedInv'
    <2>1. ASSUME NEW i \in 1..Len(dex), NEW c \in Collected(dex[i])
          PROVE  c.key \in pool'[c.pool]
      <3>1. c.key \in pool[c.pool]
        BY <2>1 DEF IndInv, CollectedInv
      <3>2. c.pool \in Pools
        BY <1>3, <2>1, ClassFacts DEF IsConstant
      <3> QED
        BY <1>2, <3>1, <3>2
    <2> QED
      BY <1>1, <2>1 DEF CollectedInv
  <1>7. OriginInv'
    <2>1. ASSUME NEW q \in Pools, NEW key \in pool'[q]
          PROVE  Needed([pool |-> q, key |-> key])'
      <3>1. CASE key \in pool[q]
        <4>1. Needed([pool |-> q, key |-> key])
          BY <3>1 DEF IndInv, OriginInv
        <4>2. \A r \in unique : pool[r] \subseteq pool'[r]
          BY <1>2, <1>3
        <4>3. dex' = dex /\ unique \subseteq unique'
          BY <1>1
        <4> QED
          BY <4>1, <4>2, <4>3 DEF Needed
      <3>2. CASE [pool |-> q, key |-> key] \in PartsOfPool(p)
        <4>1. PICK other \in pool[p] : [pool |-> q, key |-> key] \in PartsOf(p, other)
          BY <3>2 DEF PartsOfPool
        <4>2. p \in unique' /\ other \in pool'[p]
          BY <1>1, <1>2, <4>1
        <4> QED
          BY <4>1, <4>2 DEF Needed
      <3> QED
        BY <1>2, <3>1, <3>2
    <2> QED
      BY <2>1 DEF OriginInv
  <1>8. IdsInv'
    BY <1>1 DEF IdsInv
  <1>9. FoundInv'
    BY <1>1 DEF IndInv, FoundInv
  <1> QED
    BY <1>4, <1>5, <1>6, <1>7, <1>8, <1>9

(* The classes are collected, one by one.                                  *)
LEMMA PopulateInv ==
  ASSUME IndInv, Populate
  PROVE  IndInv'
  <1>1. /\ pc = "populate" /\ pos <= Len(dex) /\ pos' = pos + 1
        /\ pool' = Add(Collected(dex[pos]))
        /\ UNCHANGED <<dex, pc, unique, array, ids, found>>
    BY DEF Populate
  <1>2. TypeOK /\ TypeOK'
    BY NextTypeOK DEF IndInv, Next
  <1>3. Len(dex) \in Nat /\ pos \in 1..Len(dex)
    BY <1>1, <1>2, ClassFacts DEF TypeOK
  <1>4. IsFiniteSet(Collected(dex[pos])) /\ \A c \in Collected(dex[pos]) : IsConstant(c)
    BY <1>2, <1>3, ClassFacts
  <1>5. /\ \A p \in Pools :
             /\ pool[p] \subseteq pool'[p]
             /\ \A key \in pool'[p] :
                  key \in pool[p] \/ [pool |-> p, key |-> key] \in Collected(dex[pos])
        /\ \A c \in Collected(dex[pos]) : c.key \in pool'[c.pool]
    BY <1>1, <1>2, <1>4, AddFacts
  <1>6. unique = {} /\ unique' = {}
    BY <1>1 DEF IndInv, UniqueInv, UniquePools
  <1>7. UniqueInv'
    BY <1>1, <1>6 DEF UniqueInv, UniquePools
  <1>8. ArrayInv' /\ ClosedInv'
    BY <1>1, <1>6 DEF IndInv, ArrayInv, ClosedInv
  <1>9. CollectedInv'
    <2>1. ASSUME NEW i \in 1..Len(dex), i < pos + 1, NEW c \in Collected(dex[i])
          PROVE  c.key \in pool'[c.pool]
      <3>1. CASE i = pos
        BY <1>5, <3>1
      <3>2. CASE i # pos
        <4>1. i < pos
          BY <1>3, <2>1, <3>2
        <4>2. c.key \in pool[c.pool]
          BY <4>1 DEF IndInv, CollectedInv
        <4>3. c.pool \in Pools
          BY <1>2, ClassFacts DEF IsConstant
        <4> QED
          BY <1>5, <4>2, <4>3
      <3> QED
        BY <3>1, <3>2
    <2> QED
      BY <1>1, <2>1 DEF CollectedInv
  <1>10. OriginInv'
    <2>1. ASSUME NEW p \in Pools, NEW key \in pool'[p]
          PROVE  Needed([pool |-> p, key |-> key])'
      <3>1. CASE key \in pool[p]
        <4>1. Needed([pool |-> p, key |-> key])
          BY <3>1 DEF IndInv, OriginInv
        <4> QED
          BY <1>1, <1>6, <4>1 DEF Needed
      <3>2. CASE [pool |-> p, key |-> key] \in Collected(dex[pos])
        BY <1>1, <1>3, <3>2 DEF Needed
      <3> QED
        BY <1>5, <3>1, <3>2
    <2> QED
      BY <2>1 DEF OriginInv
  <1>11. IdsInv'
    BY <1>1 DEF IdsInv
  <1>12. FoundInv'
    BY <1>1 DEF IndInv, FoundInv
  <1> QED
    BY <1>2, <1>7, <1>8, <1>9, <1>10, <1>11, <1>12 DEF IndInv

(* The steps that leave the pools as they are keep what is known of them.  *)
LEMMA SamePools ==
  ASSUME IndInv, UNCHANGED <<dex, pool, unique, array>>, pc # "populate" \/ pos > Len(dex),
         pc' # "populate"
  PROVE  ArrayInv' /\ ClosedInv' /\ CollectedInv' /\ OriginInv'
  <1>1. TypeOK
    BY DEF IndInv
  <1>len. Len(dex) \in Nat /\ pos \in Nat
    BY <1>1, ClassFacts DEF TypeOK
  <1>2. ArrayInv' /\ ClosedInv'
    BY DEF IndInv, ArrayInv, ClosedInv
  <1>3. CollectedInv'
    <2>1. ASSUME NEW i \in 1..Len(dex) PROVE pc = "populate" => i < pos
      BY <1>len
    <2> QED
      BY <2>1 DEF IndInv, CollectedInv
  <1>4. OriginInv'
    <2>1. ASSUME NEW p \in Pools, NEW key \in pool[p]
          PROVE  Needed([pool |-> p, key |-> key])'
      <3>1. Needed([pool |-> p, key |-> key])
        BY DEF IndInv, OriginInv
      <3> QED
        BY <3>1 DEF Needed
    <2> QED
      BY <2>1 DEF OriginInv
  <1> QED
    BY <1>2, <1>3, <1>4

(* A class is written.                                                     *)
LEMMA WriteClassInv ==
  ASSUME IndInv, WriteClassItem
  PROVE  FoundInv'
  <1>1. /\ pc = "classes" /\ pos <= Len(dex) /\ pos' = pos + 1
        /\ found' = found
                      \cup {[constant |-> c, index |-> Lookup(c)] : c \in LookedUp(dex[pos])}
        /\ UNCHANGED <<dex, pc, pool, unique, array, ids>>
    BY DEF WriteClassItem
  <1>2. TypeOK
    BY DEF IndInv
  <1>3. Len(dex) \in Nat /\ pos \in 1..Len(dex)
    BY <1>1, <1>2, ClassFacts DEF TypeOK
  <1>4. ASSUME NEW f \in found'
        PROVE  \E i \in 1..Len(dex) : f.constant \in LookedUp(dex[i]) /\ f.index = Lookup(f.constant)
    <2>1. CASE f \in found
      BY <2>1 DEF IndInv, FoundInv
    <2>2. CASE f \in {[constant |-> c, index |-> Lookup(c)] : c \in LookedUp(dex[pos])}
      <3>1. PICK c \in LookedUp(dex[pos]) : f = [constant |-> c, index |-> Lookup(c)]
        BY <2>2
      <3>2. f.constant = c /\ f.index = Lookup(c)
        BY <3>1
      <3> QED
        BY <1>3, <3>2
    <2> QED
      BY <1>1, <2>1, <2>2
  <1>5. ASSUME NEW i \in 1..Len(dex), i < pos + 1, NEW c \in LookedUp(dex[i])
        PROVE  \E f \in found' : f.constant = c
    <2>1. CASE i = pos
      <3>1. [constant |-> c, index |-> Lookup(c)] \in found'
        BY <1>1, <2>1
      <3> QED
        BY <3>1
    <2>2. CASE i # pos
      <3>1. i < pos
        BY <1>3, <1>5, <2>2
      <3>2. \E f \in found : f.constant = c
        BY <1>1, <3>1 DEF IndInv, FoundInv
      <3> QED
        BY <1>1, <3>2
    <2> QED
      BY <2>1, <2>2
  <1>6. \A c : Lookup(c)' = Lookup(c)
    BY <1>1, SameLookups
  <1> QED
    BY <1>1, <1>4, <1>5, <1>6 DEF FoundInv

(* Every step keeps the invariant.                                         *)
LEMMA NextIndInv ==
  ASSUME IndInv, [Next]_vars
  PROVE  IndInv'
  <1>1. TypeOK /\ TypeOK'
    BY NextTypeOK DEF IndInv
  <1>len. Len(dex) \in Nat /\ pos \in 1..Len(dex) + 1
    BY <1>1, ClassFacts DEF TypeOK
  <1>2. unique = UniquePools
    BY DEF IndInv, UniqueInv
  <1>3. CASE Populate
    BY <1>3, PopulateInv
  <1>4. CASE PopulateEnd
    <2>1. /\ pc = "populate" /\ pos > Len(dex) /\ pc' = "methods" /\ pos' = 1
          /\ UNCHANGED <<dex, pool, unique, array, ids, found>>
      BY <1>4 DEF PopulateEnd
    <2>2. ArrayInv' /\ ClosedInv' /\ CollectedInv' /\ OriginInv'
      BY <2>1, SamePools
    <2>3. UniqueInv' /\ IdsInv' /\ FoundInv'
      BY <1>2, <2>1 DEF IndInv, UniqueInv, UniquePools, IdsInv, FoundInv
    <2> QED
      BY <1>1, <2>2, <2>3 DEF IndInv
  <1>5. CASE CloseMethods
    <2>1. Close("methods", "fields") /\ pc = "methods" /\ pc' = "fields" /\ unique = {}
          /\ unique' = {"methods"} /\ Later("methods") = {"protos", "types", "strs"}
      BY <1>2, <1>5 DEF CloseMethods, Close, UniquePools, Later
    <2>2. /\ ArrayInv' /\ ClosedInv' /\ CollectedInv' /\ OriginInv' /\ IdsInv' /\ FoundInv'
      BY <2>1, CloseInv DEF Pools, Steps
    <2>3. UniqueInv'
      BY <2>1 DEF UniqueInv, UniquePools
    <2> QED
      BY <1>1, <2>2, <2>3 DEF IndInv
  <1>6. CASE CloseFields
    <2>1. Close("fields", "protos") /\ pc = "fields" /\ pc' = "protos" /\ unique = {"methods"}
          /\ unique' = {"methods", "fields"} /\ Later("fields") = {"types", "strs"}
      BY <1>2, <1>6 DEF CloseFields, Close, UniquePools, Later
    <2>2. /\ ArrayInv' /\ ClosedInv' /\ CollectedInv' /\ OriginInv' /\ IdsInv' /\ FoundInv'
      BY <2>1, CloseInv DEF Pools, Steps
    <2>3. UniqueInv'
      BY <2>1 DEF UniqueInv, UniquePools
    <2> QED
      BY <1>1, <2>2, <2>3 DEF IndInv
  <1>7. CASE CloseProtos
    <2>1. Close("protos", "types") /\ pc = "protos" /\ pc' = "types"
          /\ unique = {"methods", "fields"} /\ unique' = {"methods", "fields", "protos"}
          /\ Later("protos") = {"types", "strs"}
      BY <1>2, <1>7 DEF CloseProtos, Close, UniquePools, Later
    <2>2. /\ ArrayInv' /\ ClosedInv' /\ CollectedInv' /\ OriginInv' /\ IdsInv' /\ FoundInv'
      BY <2>1, CloseInv DEF Pools, Steps
    <2>3. UniqueInv'
      BY <2>1 DEF UniqueInv, UniquePools
    <2> QED
      BY <1>1, <2>2, <2>3 DEF IndInv
  <1>8. CASE CloseTypes
    <2>1. Close("types", "strs") /\ pc = "types" /\ pc' = "strs"
          /\ unique = {"methods", "fields", "protos"}
          /\ unique' = {"methods", "fields", "protos", "types"} /\ Later("types") = {"strs"}
      BY <1>2, <1>8 DEF CloseTypes, Close, UniquePools, Later
    <2>2. /\ ArrayInv' /\ ClosedInv' /\ CollectedInv' /\ OriginInv' /\ IdsInv' /\ FoundInv'
      BY <2>1, CloseInv DEF Pools, Steps
    <2>3. UniqueInv'
      BY <2>1 DEF UniqueInv, UniquePools
    <2> QED
      BY <1>1, <2>2, <2>3 DEF IndInv
  <1>9. CASE CloseStrs
    <2>1. Close("strs", "constants") /\ pc = "strs" /\ pc' = "constants"
          /\ unique = {"methods", "fields", "protos", "types"}
          /\ unique' = Pools /\ Later("strs") = {}
      BY <1>2, <1>9 DEF CloseStrs, Close, UniquePools, Later, Pools
    <2>2. /\ ArrayInv' /\ ClosedInv' /\ CollectedInv' /\ OriginInv' /\ IdsInv' /\ FoundInv'
      BY <2>1, CloseInv DEF Pools, Steps
    <2>3. UniqueInv'
      BY <2>1 DEF UniqueInv, UniquePools
    <2> QED
      BY <1>1, <2>2, <2>3 DEF IndInv
  <1>10. CASE WriteConstantPool
    <2>1. /\ pc = "constants" /\ pc' = "classes" /\ ids' = IdItems
          /\ UNCHANGED <<dex, pos, pool, unique, array, found>>
      BY <1>10 DEF WriteConstantPool, IdItems
    <2>2. ArrayInv' /\ ClosedInv' /\ CollectedInv' /\ OriginInv'
      BY <2>1, SamePools
    <2>3. UniqueInv'
      BY <1>2, <2>1 DEF UniqueInv, UniquePools
    <2>4. IdsInv'
      BY <2>1, SameLookups DEF IdsInv
    <2>5. FoundInv'
      <3>1. found = {}
        BY <2>1 DEF IndInv, FoundInv
      <3>2. ~\E i \in 1..Len(dex) : i < pos
        BY <2>1 DEF IndInv, FoundInv
      <3> QED
        BY <2>1, <3>1, <3>2 DEF FoundInv
    <2> QED
      BY <1>1, <2>2, <2>3, <2>4, <2>5 DEF IndInv
  <1>11. CASE WriteClassItem
    <2>1. /\ pc = "classes" /\ pc' = "classes"
          /\ UNCHANGED <<dex, pool, unique, array, ids>>
      BY <1>11 DEF WriteClassItem
    <2>2. ArrayInv' /\ ClosedInv' /\ CollectedInv' /\ OriginInv'
      BY <2>1, SamePools
    <2>3. UniqueInv'
      BY <1>2, <2>1 DEF UniqueInv, UniquePools
    <2>4. IdsInv'
      BY <2>1, SameLookups DEF IndInv, IdsInv
    <2>5. FoundInv'
      BY <1>11, WriteClassInv
    <2> QED
      BY <1>1, <2>2, <2>3, <2>4, <2>5 DEF IndInv
  <1>12. CASE WriteClassesEnd
    <2>1. /\ pc = "classes" /\ pos > Len(dex) /\ pc' = "done"
          /\ UNCHANGED <<dex, pos, pool, unique, array, ids, found>>
      BY <1>12 DEF WriteClassesEnd
    <2>2. ArrayInv' /\ ClosedInv' /\ CollectedInv' /\ OriginInv'
      BY <2>1, SamePools
    <2>3. UniqueInv'
      BY <1>2, <2>1 DEF UniqueInv, UniquePools
    <2>4. IdsInv'
      BY <2>1, SameLookups DEF IndInv, IdsInv
    <2>5. FoundInv'
      <3>1. \A c : Lookup(c)' = Lookup(c)
        BY <2>1, SameLookups
      <3>2. \A i \in 1..Len(dex) : i < pos
        BY <1>len, <2>1
      <3> QED
        BY <2>1, <3>1, <3>2 DEF IndInv, FoundInv
    <2> QED
      BY <1>1, <2>2, <2>3, <2>4, <2>5 DEF IndInv
  <1>13. CASE UNCHANGED vars
    <2>1. UNCHANGED <<dex, pc, pos, pool, unique, array, ids, found>>
      BY <1>13 DEF vars
    <2>2. UniqueInv' /\ ArrayInv' /\ ClosedInv' /\ CollectedInv'
      BY <2>1 DEF IndInv, UniqueInv, UniquePools, ArrayInv, ClosedInv, CollectedInv
    <2>3. OriginInv'
      <3>1. ASSUME NEW p \in Pools, NEW key \in pool[p]
            PROVE  Needed([pool |-> p, key |-> key])'
        <4>1. Needed([pool |-> p, key |-> key])
          BY DEF IndInv, OriginInv
        <4> QED
          BY <2>1, <4>1 DEF Needed
      <3> QED
        BY <2>1, <3>1 DEF OriginInv
    <2>4. IdsInv'
      BY <2>1, SameLookups DEF IndInv, IdsInv
    <2>5. FoundInv'
      <3>1. \A c : Lookup(c)' = Lookup(c)
        BY <2>1, SameLookups
      <3> QED
        BY <2>1, <3>1 DEF IndInv, FoundInv
    <2> QED
      BY <1>1, <2>2, <2>3, <2>4, <2>5 DEF IndInv
  <1>14. CASE Done
    BY <1>13, <1>14 DEF Done
  <1> QED
    BY <1>3, <1>4, <1>5, <1>6, <1>7, <1>8, <1>9, <1>10, <1>11, <1>12, <1>13, <1>14 DEF Next

(* It holds at the beginning.                                              *)
LEMMA InitIndInv ==
  ASSUME Init
  PROVE  IndInv
  <1>1. dex \in DexFiles /\ pc = "populate" /\ pos = 1 /\ unique = {} /\ found = {}
        /\ pool = [p \in Pools |-> {}] /\ array = [p \in Pools |-> << >>]
    BY DEF Init
  <1>2. Len(dex) \in Nat
    BY <1>1, ClassesAssumption
  <1>3. TypeOK
    <2>1. pos \in 1..Len(dex) + 1 /\ pc \in Steps
      BY <1>1, <1>2 DEF Steps
    <2>2. \A p \in Pools : pool[p] = {} /\ array[p] = << >>
      BY <1>1
    <2>3. IsFiniteSet({})
      BY FS_EmptySet
    <2>4. \A p \in Pools : IsFiniteSet(pool[p]) /\ pool[p] \subseteq KeysOf(p)
                           /\ array[p] \in Seq(KeysOf(p))
      <3>1. ASSUME NEW p \in Pools PROVE IsFiniteSet(pool[p]) /\ pool[p] \subseteq KeysOf(p)
        BY <2>2, <2>3
      <3>2. \A S : << >> \in Seq(S)
        BY EmptySeq
      <3> QED
        BY <2>2, <3>1, <3>2
    <2> QED
      BY <1>1, <2>1, <2>4 DEF TypeOK
  <1>4. UniqueInv /\ ArrayInv /\ ClosedInv /\ OriginInv /\ IdsInv /\ FoundInv
    BY <1>1 DEF UniqueInv, UniquePools, ArrayInv, ClosedInv, OriginInv, IdsInv, FoundInv
  <1>5. CollectedInv
    BY <1>1, <1>2 DEF CollectedInv
  <1> QED
    BY <1>3, <1>4, <1>5 DEF IndInv

(* The inductive invariant of dxc_write_file's pools.                      *)
THEOREM PoolInvariant == Spec => []IndInv
  <1>1. Init => IndInv
    BY InitIndInv
  <1>2. IndInv /\ [Next]_vars => IndInv'
    BY NextIndInv
  <1> QED
    BY <1>1, <1>2, PTL DEF Spec

(* The type invariant of the pools.                                        *)
THEOREM PoolTypeCorrect == Spec => []TypeOK
  <1>1. IndInv => TypeOK
    BY DEF IndInv
  <1> QED
    BY <1>1, PoolInvariant, PTL

-----------------------------------------------------------------------------
(* A unique pool is sorted, and a search for what it holds finds it.       *)
LEMMA UniqueFacts ==
  ASSUME IndInv, NEW p \in unique
  PROVE  /\ p \in Pools
         /\ Ascending(array[p]) /\ ToSet(array[p]) = pool[p]
         /\ Len(array[p]) \in Nat
         /\ \A i \in 1..Len(array[p]) : array[p][i] \in pool[p]
         /\ pool[p] \subseteq KeysOf(p)
  <1>1. p \in Pools /\ IsFiniteSet(pool[p]) /\ pool[p] \subseteq KeysOf(p)
    BY DEF IndInv, TypeOK
  <1>2. pool[p] \in SUBSET Seq(Nat)
    BY <1>1, KeyFacts
  <1>3. array[p] = MakeUnique(p, pool[p])
    BY <1>1 DEF IndInv, ArrayInv
  <1>4. array[p] \in Seq(pool[p]) /\ Ascending(array[p]) /\ ToSet(array[p]) = pool[p]
    BY <1>1, <1>2, <1>3, MakeUniqueFacts
  <1>5. Len(array[p]) \in Nat /\ \A i \in 1..Len(array[p]) : array[p][i] \in pool[p]
    BY <1>4, LenProperties, ElementOfSeq
  <1> QED
    BY <1>1, <1>4, <1>5

(* The place of a constant in the sorted array of its pool.                *)
LEMMA HeldFound ==
  ASSUME IndInv, NEW c, c.pool \in unique, c.key \in pool[c.pool]
  PROVE  /\ Lookup(c) \in 0..Len(array[c.pool]) - 1
         /\ array[c.pool][Lookup(c) + 1] = c.key
  <1> DEFINE A == array[c.pool]
  <1>1. Ascending(A) /\ ToSet(A) = pool[c.pool] /\ Len(A) \in Nat
    BY UniqueFacts
  <1>2. DOMAIN A = 1..Len(A)
    BY <1>1, LenProperties DEF Ascending
  <1>3. PICK j \in 1..Len(A) : A[j] = c.key
    BY <1>1, <1>2 DEF ToSet
  <1>4. Find(c.pool, A, A[j]) = j - 1
    BY <1>1, FindExact
  <1>5. Lookup(c) = j - 1
    BY <1>3, <1>4 DEF Lookup
  <1>6. j - 1 \in 0..Len(A) - 1 /\ (j - 1) + 1 = j
    BY <1>1
  <1> QED
    BY <1>3, <1>5, <1>6

(* Every pool is sorted and without duplicates once make_unique has been   *)
(* called on it, for any classes: the closure adds to no pool behind it.   *)
THEOREM PoolSorted == Spec => []PoolsStaySorted
  <1>1. ASSUME IndInv PROVE PoolsStaySorted
    BY <1>1, UniqueFacts DEF PoolsStaySorted, Ascending
  <1> QED
    BY <1>1, PoolInvariant, PTL

(* What write_class looks up for a class, pop_class has collected.         *)
WalksAgree == \A i \in 1..Len(dex) : LookedUp(dex[i]) \subseteq Collected(dex[i])

(* If pop_class collects what write_class looks up, every lookup finds the *)
(* constant it asks for: the sort, the closure and the search lose none.   *)
THEOREM PoolLookupsHit == Spec => [](WalksAgree => LookupsHit)
  <1>1. ASSUME IndInv, WalksAgree
        PROVE  LookupsHit
    <2>1. SUFFICES ASSUME NEW f \in found
                   PROVE  f.index # NO_INDEX
                          /\ array[f.constant.pool][f.index + 1] = f.constant.key
      BY DEF LookupsHit
    <2>2. PICK i \in 1..Len(dex) :
            /\ pc \in {"classes", "done"}
            /\ f.constant \in LookedUp(dex[i])
            /\ f.index = Lookup(f.constant)
      BY <1>1 DEF IndInv, FoundInv
    <2>3. f.constant \in Collected(dex[i])
      BY <1>1, <2>2 DEF WalksAgree
    <2>4. unique = Pools
      BY <1>1, <2>2 DEF IndInv, UniqueInv, UniquePools
    <2>5. f.constant.pool \in Pools
      BY <1>1, <2>3, ClassFacts DEF IndInv, IsConstant
    <2>6. f.constant.key \in pool[f.constant.pool]
      BY <1>1, <2>2, <2>3 DEF IndInv, CollectedInv
    <2>7. /\ Lookup(f.constant) \in 0..Len(array[f.constant.pool]) - 1
          /\ array[f.constant.pool][Lookup(f.constant) + 1] = f.constant.key
      BY <1>1, <2>4, <2>5, <2>6, HeldFound
    <2>8. f.index \in Nat
      BY <2>2, <2>7
    <2> QED
      BY <2>2, <2>7, <2>8 DEF NO_INDEX
  <1>2. IndInv => (WalksAgree => LookupsHit)
    BY <1>1
  <1> QED
    BY <1>2, PoolInvariant, PTL

-----------------------------------------------------------------------------
(* The indices of types and prototypes fit 16 bits.                        *)
PoolsFit == \A p \in {"types", "protos"} : Len(array[p]) <= UShortMax + 1

(* Each part of a constant is found, and stored as it is found.            *)
LEMMA StoredFacts ==
  ASSUME IndInv, PoolsFit, pc \in {"classes", "done"},
         NEW p \in Pools, NEW i \in 1..Len(array[p]),
         NEW k \in 1..Len(IdItem(p, array[p][i]))
  PROVE  /\ IdItem(p, array[p][i])[k].pool \in unique
         /\ IdItem(p, array[p][i])[k].key \in pool[IdItem(p, array[p][i])[k].pool]
         /\ ids[p][i][k] = Lookup(IdItem(p, array[p][i])[k])
  <1> DEFINE key == array[p][i]
             part == IdItem(p, key)[k]
  <1>1. unique = Pools
    BY DEF IndInv, UniqueInv, UniquePools
  <1>2. key \in pool[p] /\ key \in KeysOf(p)
    BY <1>1, UniqueFacts
  <1>3. part \in PartsOf(p, key)
    BY <1>2, IdItemFacts
  <1>4. IsConstant(part) /\ part.pool \in Later(p)
    BY <1>2, <1>3, PartsFacts
  <1>5. part.pool \in Pools /\ part.pool \in {"strs", "types", "protos"}
    BY <1>4 DEF IsConstant, Later, Pools
  <1>6. part.key \in pool[part.pool]
    BY <1>1, <1>2, <1>3 DEF IndInv, ClosedInv
  <1>7. Lookup(part) \in 0..Len(array[part.pool]) - 1
    BY <1>1, <1>5, <1>6, HeldFound
  <1>8. ids[p][i][k] = Stored(p, part, k)
    BY DEF IndInv, IdsInv, IdItems
  <1>9. Stored(p, part, k) = Lookup(part)
    <2>1. CASE part.pool = "strs"
      BY <2>1 DEF Stored
    <2>2. CASE part.pool # "strs"
      <3>1. Len(array[part.pool]) <= UShortMax + 1 /\ Len(array[part.pool]) \in Nat
        BY <1>1, <1>5, <2>2, UniqueFacts DEF PoolsFit
      <3>2. Lookup(part) \in Nat /\ Lookup(part) <= UShortMax
        BY <1>7, <3>1, UShortAssumption
      <3>3. Uint2UShort(Lookup(part)) = Lookup(part)
        BY <3>2, UShortAssumption DEF Uint2UShort
      <3> QED
        BY <3>3 DEF Stored
    <2> QED
      BY <2>1, <2>2
  <1> QED
    BY <1>1, <1>5, <1>6, <1>8, <1>9

(* The parts of every constant are in their pools, at the indices that its *)
(* id item stores: for any classes, as long as the indices of types and    *)
(* prototypes fit 16 bits.                                                 *)
THEOREM PoolIdItemsExact == Spec => [](PoolsFit => IdItemsExact)
  <1>1. ASSUME IndInv, PoolsFit
        PROVE  IdItemsExact
    <2>1. SUFFICES ASSUME pc \in {"classes", "done"},
                          NEW p \in Pools, NEW i \in 1..Len(array[p]),
                          NEW k \in 1..Len(IdItem(p, array[p][i]))
                   PROVE  /\ ids[p][i][k] # NO_INDEX
                          /\ array[IdItem(p, array[p][i])[k].pool][ids[p][i][k] + 1]
                               = IdItem(p, array[p][i])[k].key
      BY DEF IdItemsExact
    <2> DEFINE part == IdItem(p, array[p][i])[k]
    <2>2. part.pool \in unique /\ part.key \in pool[part.pool] /\ ids[p][i][k] = Lookup(part)
      BY <1>1, <2>1, StoredFacts
    <2> HIDE DEF part
    <2>3. Lookup(part) \in 0..Len(array[part.pool]) - 1
          /\ array[part.pool][Lookup(part) + 1] = part.key
      BY <1>1, <2>2, HeldFound
    <2>4. ids[p][i][k] # NO_INDEX /\ array[part.pool][ids[p][i][k] + 1] = part.key
      BY <2>2, <2>3 DEF NO_INDEX
    <2> QED
      BY <2>4 DEF part
  <1>2. IndInv => (PoolsFit => IdItemsExact)
    BY <1>1
  <1> QED
    BY <1>2, PoolInvariant, PTL

-----------------------------------------------------------------------------
(* A smaller constant has the smaller index.                               *)
LEMMA LookupsAscend ==
  ASSUME IndInv, NEW c, NEW d, c.pool \in unique, d.pool = c.pool,
         c.key \in pool[c.pool], d.key \in pool[d.pool], Less(c.key, d.key)
  PROVE  Lookup(c) \in Nat /\ Lookup(d) \in Nat /\ Lookup(c) < Lookup(d)
  <1> DEFINE A == array[c.pool]
             m == Lookup(c) + 1
             n == Lookup(d) + 1
  <1>1. Ascending(A) /\ Len(A) \in Nat
    BY UniqueFacts
  <1>2. /\ Lookup(c) \in 0..Len(A) - 1 /\ A[m] = c.key
        /\ Lookup(d) \in 0..Len(A) - 1 /\ A[n] = d.key
    BY HeldFound
  <1>3. c.key \in Seq(Nat) /\ d.key \in Seq(Nat)
    BY UniqueFacts, KeyFacts
  <1>4. Lookup(c) \in Nat /\ Lookup(d) \in Nat /\ m \in 1..Len(A) /\ n \in 1..Len(A)
    BY <1>1, <1>2
  <1> HIDE DEF A
  <1>5. m # n
    BY <1>2, <1>3, LessIrreflexive
  <1>6. ~(n < m)
    <2>1. SUFFICES ASSUME n < m PROVE FALSE
      OBVIOUS
    <2>2. Less(A[n], A[m])
      BY <1>1, <1>4, <2>1 DEF Ascending
    <2> QED
      BY <1>2, <1>3, <2>2, LessTransitive, LessIrreflexive
  <1> QED
    BY <1>4, <1>5, <1>6

(* m and n are in the order of x and y.                                    *)
SameOrder(x, y, m, n) == (x = y => m = n) /\ (x < y => m < n)

(* Lists s and t correspond, entry by entry, to the lists a and b.         *)
Corresponding(a, b, s, t) ==
  \A m \in 1..Len(a) : m <= Len(b) => SameOrder(a[m], b[m], s[m], t[m])

(* They are in the order of the lists they correspond to.                  *)
LEMMA LessMapped ==
  ASSUME NEW a \in Seq(Nat), NEW b \in Seq(Nat), Less(a, b), NEW s, NEW t,
         Len(s) = Len(a), Len(t) = Len(b), Corresponding(a, b, s, t)
  PROVE  Less(s, t)
  <1>len. Len(a) \in Nat /\ Len(b) \in Nat
    BY LenProperties
  <1>1. PICK n \in 0..Len(a) : /\ n < Len(b)
                               /\ \A i \in 1..n : a[i] = b[i]
                               /\ n < Len(a) => a[n + 1] < b[n + 1]
    BY DEF Less
  <1>2. \A i \in 1..n : s[i] = t[i]
    BY <1>len, <1>1 DEF Corresponding, SameOrder
  <1>3. ASSUME n < Len(a) PROVE s[n + 1] < t[n + 1]
    <2>1. n + 1 \in 1..Len(a) /\ n + 1 <= Len(b)
      BY <1>len, <1>1, <1>3
    <2> QED
      BY <1>1, <1>3, <2>1 DEF Corresponding, SameOrder
  <1> QED
    BY <1>1, <1>2, <1>3 DEF Less

(* An index that an item stores for a constant of the pools.               *)
IndexOf(index, c) == index = Lookup(c) /\ c.key \in pool[c.pool]

(* The keys of one string are in the order of the strings.                 *)
LEMMA OneStringLess ==
  ASSUME NEW x \in Nat, NEW y \in Nat, x < y
  PROVE  Less(<<x>>, <<y>>)
  <1>1. 0 \in 0..Len(<<x>>) /\ 0 < Len(<<y>>) /\ <<x>>[0 + 1] < <<y>>[0 + 1]
    OBVIOUS
  <1> QED
    BY <1>1 DEF Less

(* The indices of types are in the order of the strings ...                *)
LEMMA TypesAscend ==
  ASSUME IndInv, unique = Pools, NEW x \in Nat, NEW y \in Nat, NEW m, NEW n,
         IndexOf(m, Type(x)), IndexOf(n, Type(y))
  PROVE  SameOrder(x, y, m, n)
  <1>1. /\ Type(x).pool = "types" /\ Type(x).key = <<x>>
        /\ Type(y).pool = "types" /\ Type(y).key = <<y>>
    BY DEF Type
  <1>2. "types" \in unique
    BY DEF Pools
  <1>3. ASSUME x < y PROVE m < n
    BY <1>1, <1>2, <1>3, OneStringLess, LookupsAscend DEF IndexOf
  <1> QED
    BY <1>3 DEF IndexOf, SameOrder

(* ... and so are those of strings.                                        *)
LEMMA StringsAscend ==
  ASSUME IndInv, unique = Pools, NEW x \in Nat, NEW y \in Nat, NEW m, NEW n,
         IndexOf(m, Str(x)), IndexOf(n, Str(y))
  PROVE  SameOrder(x, y, m, n)
  <1>1. /\ Str(x).pool = "strs" /\ Str(x).key = <<x>>
        /\ Str(y).pool = "strs" /\ Str(y).key = <<y>>
    BY DEF Str
  <1>2. "strs" \in unique
    BY DEF Pools
  <1>3. ASSUME x < y PROVE m < n
    BY <1>1, <1>2, <1>3, OneStringLess, LookupsAscend DEF IndexOf
  <1> QED
    BY <1>3 DEF IndexOf, SameOrder

(* The items have been written and their indices fit.                      *)
ItemsWritten == IndInv /\ PoolsFit /\ pc \in {"classes", "done"} /\ unique = Pools

(* What the id item of a constant stores.                                  *)
LEMMA ItemLength ==
  ASSUME ItemsWritten, NEW p \in Pools, NEW i \in 1..Len(array[p])
  PROVE  /\ array[p][i] \in KeysOf(p) /\ Len(ids[p][i]) = Len(IdItem(p, array[p][i]))
         /\ \E S : ids[p][i] \in Seq(S)
  <1>1. array[p][i] \in KeysOf(p)
    BY UniqueFacts DEF ItemsWritten
  <1> DEFINE parts == IdItem(p, array[p][i])
  <1>2. ids[p][i] = [k \in 1..Len(parts) |-> Stored(p, parts[k], k)]
    <2>1. ids = IdItems
      BY DEF ItemsWritten, IndInv, IdsInv
    <2>2. ids[p] = [n \in 1..Len(array[p]) |->
                     [k \in 1..Len(IdItem(p, array[p][n])) |->
                        Stored(p, IdItem(p, array[p][n])[k], k)]]
      BY <2>1 DEF IdItems
    <2> QED
      BY <2>2
  <1>3. Len(parts) \in Nat
    BY <1>1, IdItemFacts
  <1> HIDE DEF parts
  <1>4. Len(ids[p][i]) = Len(parts)
    BY <1>2, <1>3
  <1>5. ids[p][i] \in Seq({ids[p][i][k] : k \in 1..Len(parts)})
    BY <1>2, <1>3
  <1> QED
    BY <1>1, <1>4, <1>5 DEF parts

(* An id item stores the index of each part of the constant.               *)
LEMMA ItemStored ==
  ASSUME ItemsWritten, NEW p \in Pools, NEW i \in 1..Len(array[p]),
         NEW k \in 1..Len(IdItem(p, array[p][i])), NEW c, c = IdItem(p, array[p][i])[k]
  PROVE  IndexOf(ids[p][i][k], c)
  BY StoredFacts DEF ItemsWritten, IndexOf

(* A type stores the index of its descriptor.                              *)
LEMMA TypeStored ==
  ASSUME ItemsWritten, NEW i \in 1..Len(array["types"])
  PROVE  /\ array["types"][i] \in Seq(Nat) /\ Len(array["types"][i]) = 1
         /\ array["types"][i][1] \in Nat
         /\ Len(ids["types"][i]) = 1 /\ IndexOf(ids["types"][i][1], Str(array["types"][i][1]))
  <1> DEFINE a == array["types"][i]
  <1>1. "types" \in Pools
    BY DEF Pools
  <1>2. a \in KeysOf("types") /\ Len(ids["types"][i]) = Len(IdItem("types", a))
    BY <1>1, ItemLength
  <1>3. IdItem("types", a) = <<Str(a[1])>>
    BY DEF IdItem
  <1>4. Len(IdItem("types", a)) = 1 /\ IdItem("types", a)[1] = Str(a[1])
    BY <1>3
  <1>5. IndexOf(ids["types"][i][1], Str(a[1]))
    BY <1>1, <1>4, ItemStored
  <1>6. a \in Seq(Nat) /\ Len(a) = 1 /\ \A k \in 1..Len(a) : a[k] \in Nat
    BY <1>1, <1>2, KeyFacts
  <1>7. a[1] \in Nat
    BY <1>6
  <1> QED
    BY <1>2, <1>4, <1>5, <1>6, <1>7

(* Types are in the order of their descriptors' indices.                   *)
LEMMA TypesOrdered ==
  ASSUME ItemsWritten, NEW i \in 1..Len(array["types"]), NEW j \in 1..Len(array["types"]),
         Less(array["types"][i], array["types"][j])
  PROVE  Less(SortKey("types", ids["types"][i]), SortKey("types", ids["types"][j]))
  <1> DEFINE a == array["types"][i]
             b == array["types"][j]
             s == ids["types"][i]
             t == ids["types"][j]
  <1>1. /\ a \in Seq(Nat) /\ Len(a) = 1 /\ a[1] \in Nat
        /\ Len(s) = 1 /\ IndexOf(s[1], Str(a[1]))
        /\ b \in Seq(Nat) /\ Len(b) = 1 /\ b[1] \in Nat
        /\ Len(t) = 1 /\ IndexOf(t[1], Str(b[1]))
    BY TypeStored
  <1> HIDE DEF a, b, s, t
  <1>2. SameOrder(a[1], b[1], s[1], t[1])
    BY <1>1, StringsAscend DEF ItemsWritten
  <1>3. Less(a, b)
    BY DEF a, b
  <1>4. Corresponding(a, b, s, t)
    BY <1>1, <1>2 DEF Corresponding
  <1>5. Less(s, t)
    BY <1>1, <1>3, <1>4, LessMapped
  <1> QED
    BY <1>5 DEF SortKey, s, t

(* A field stores the indices of its class, its type and its name.         *)
LEMMA FieldStored ==
  ASSUME ItemsWritten, NEW i \in 1..Len(array["fields"])
  PROVE  /\ array["fields"][i] \in Seq(Nat) /\ Len(array["fields"][i]) = 3
         /\ array["fields"][i][1] \in Nat /\ array["fields"][i][2] \in Nat
         /\ array["fields"][i][3] \in Nat
         /\ IndexOf(ids["fields"][i][1], Type(array["fields"][i][1]))
         /\ IndexOf(ids["fields"][i][2], Type(array["fields"][i][3]))
         /\ IndexOf(ids["fields"][i][3], Str(array["fields"][i][2]))
  <1> DEFINE a == array["fields"][i]
  <1>1. "fields" \in Pools
    BY DEF Pools
  <1>2. a \in KeysOf("fields")
    BY <1>1, ItemLength
  <1>3. IdItem("fields", a) = <<Type(a[1]), Type(a[3]), Str(a[2])>>
    BY DEF IdItem
  <1>4. Len(IdItem("fields", a)) = 3 /\ IdItem("fields", a)[1] = Type(a[1])
        /\ IdItem("fields", a)[2] = Type(a[3]) /\ IdItem("fields", a)[3] = Str(a[2])
    BY <1>3
  <1>5. /\ IndexOf(ids["fields"][i][1], Type(a[1]))
        /\ IndexOf(ids["fields"][i][2], Type(a[3]))
        /\ IndexOf(ids["fields"][i][3], Str(a[2]))
    BY <1>1, <1>4, ItemStored
  <1>6. a \in Seq(Nat) /\ Len(a) = 3 /\ \A k \in 1..Len(a) : a[k] \in Nat
    BY <1>1, <1>2, KeyFacts
  <1>7. a[1] \in Nat /\ a[2] \in Nat /\ a[3] \in Nat
    BY <1>6
  <1> QED
    BY <1>5, <1>6, <1>7

(* Fields are in the order of the indices of class, name and type.         *)
LEMMA FieldsOrdered ==
  ASSUME ItemsWritten, NEW i \in 1..Len(array["fields"]), NEW j \in 1..Len(array["fields"]),
         Less(array["fields"][i], array["fields"][j])
  PROVE  Less(SortKey("fields", ids["fields"][i]), SortKey("fields", ids["fields"][j]))
  <1> DEFINE a == array["fields"][i]
             b == array["fields"][j]
             s == ids["fields"][i]
             t == ids["fields"][j]
             u == <<s[1], s[3], s[2]>>
             v == <<t[1], t[3], t[2]>>
  <1>1. /\ a \in Seq(Nat) /\ Len(a) = 3 /\ a[1] \in Nat /\ a[2] \in Nat /\ a[3] \in Nat
        /\ IndexOf(s[1], Type(a[1])) /\ IndexOf(s[2], Type(a[3])) /\ IndexOf(s[3], Str(a[2]))
    BY FieldStored
  <1>2. /\ b \in Seq(Nat) /\ Len(b) = 3 /\ b[1] \in Nat /\ b[2] \in Nat /\ b[3] \in Nat
        /\ IndexOf(t[1], Type(b[1])) /\ IndexOf(t[2], Type(b[3])) /\ IndexOf(t[3], Str(b[2]))
    BY FieldStored
  <1>3. Less(a, b) /\ IndInv /\ unique = Pools
    BY DEF ItemsWritten
  <1> HIDE DEF a, b, s, t
  <1>4. SameOrder(a[1], b[1], s[1], t[1])
    <2>1. a[1] \in Nat /\ b[1] \in Nat /\ IndexOf(s[1], Type(a[1])) /\ IndexOf(t[1], Type(b[1]))
      BY <1>1, <1>2
    <2> QED
      BY <1>3, <2>1, TypesAscend
  <1>5. SameOrder(a[3], b[3], s[2], t[2])
    <2>1. a[3] \in Nat /\ b[3] \in Nat /\ IndexOf(s[2], Type(a[3])) /\ IndexOf(t[2], Type(b[3]))
      BY <1>1, <1>2
    <2> QED
      BY <1>3, <2>1, TypesAscend
  <1>6. SameOrder(a[2], b[2], s[3], t[3])
    <2>1. a[2] \in Nat /\ b[2] \in Nat /\ IndexOf(s[3], Str(a[2])) /\ IndexOf(t[3], Str(b[2]))
      BY <1>1, <1>2
    <2> QED
      BY <1>3, <2>1, StringsAscend
  <1>7. Len(u) = Len(a) /\ Len(v) = Len(b)
        /\ u[1] = s[1] /\ u[2] = s[3] /\ u[3] = s[2]
        /\ v[1] = t[1] /\ v[2] = t[3] /\ v[3] = t[2]
    BY <1>1, <1>2
  <1> HIDE DEF u, v
  <1>8. ASSUME NEW m \in 1..Len(a)
        PROVE  SameOrder(a[m], b[m], u[m], v[m])
    <2>1. m \in {1, 2, 3}
      BY <1>1
    <2> QED
      BY <1>4, <1>5, <1>6, <1>7, <2>1
  <1>9. Corresponding(a, b, u, v)
    BY <1>8 DEF Corresponding
  <1>10. Less(u, v)
    BY <1>1, <1>2, <1>3, <1>7, <1>9, LessMapped
  <1> QED
    BY <1>10 DEF SortKey, s, t, u, v

(* A prototype stores the indices of its types after that of its shorty.   *)
LEMMA ProtoStored ==
  ASSUME ItemsWritten, NEW i \in 1..Len(array["protos"])
  PROVE  /\ array["protos"][i] \in Seq(Nat) /\ Len(array["protos"][i]) \in Nat \ {0}
         /\ Len(Tail(ids["protos"][i])) = Len(array["protos"][i])
         /\ \A n \in 1..Len(array["protos"][i]) :
              /\ array["protos"][i][n] \in Nat
              /\ Tail(ids["protos"][i])[n] = ids["protos"][i][n + 1]
              /\ IndexOf(ids["protos"][i][n + 1], Type(array["protos"][i][n]))
  <1> DEFINE a == array["protos"][i]
             s == ids["protos"][i]
             item == IdItem("protos", a)
  <1>1. "protos" \in Pools
    BY DEF Pools
  <1>2. a \in KeysOf("protos") /\ Len(s) = Len(item)
    BY <1>1, ItemLength
  <1>3. a \in Seq(Nat) /\ Len(a) \in Nat \ {0} /\ \A n \in 1..Len(a) : a[n] \in Nat
    BY <1>1, <1>2, KeyFacts
  <1>4. item = [k \in 1..Len(a) + 1 |-> IF k = 1 THEN Str(Shorty(a)) ELSE Type(a[k - 1])]
    BY <1>3, ProtoItem
  <1>5. Len(item) = Len(a) + 1 /\ \A n \in 1..Len(a) : item[n + 1] = Type(a[n])
    <2> DEFINE l == Len(a) + 1
    <2>1. l \in Nat /\ l >= 2 /\ \A n \in 1..Len(a) : n + 1 \in 1..l /\ n + 1 # 1 /\ (n + 1) - 1 = n
      BY <1>3
    <2> HIDE DEF item, a, l
    <2>2. item = [k \in 1..l |-> IF k = 1 THEN Str(Shorty(a)) ELSE Type(a[k - 1])]
      BY <1>4 DEF l
    <2>3. Len(item) = l
      BY <2>1, <2>2
    <2>4. \A n \in 1..Len(a) : item[n + 1] = Type(a[n])
      BY <2>1, <2>2
    <2> QED
      BY <2>3, <2>4 DEF l
  <1>6. ASSUME NEW n \in 1..Len(a)
        PROVE  IndexOf(s[n + 1], Type(a[n]))
    <2>1. n + 1 \in 1..Len(item) /\ item[n + 1] = Type(a[n])
      BY <1>3, <1>5, SMTT(30)
    <2> QED
      BY <1>1, <2>1, ItemStored
  <1>7. Len(Tail(s)) = Len(a) /\ \A n \in 1..Len(a) : Tail(s)[n] = s[n + 1]
    <2>1. PICK S : s \in Seq(S)
      BY <1>1, ItemLength
    <2> HIDE DEF s, a, item
    <2>2. s # << >>
      BY <1>2, <1>3, <1>5
    <2> QED
      BY <1>2, <1>3, <1>5, <2>1, <2>2, HeadTailProperties
  <1> QED
    BY <1>3, <1>6, <1>7

(* Prototypes are in the order of the indices of their types.              *)
LEMMA ProtosOrdered ==
  ASSUME ItemsWritten, NEW i \in 1..Len(array["protos"]), NEW j \in 1..Len(array["protos"]),
         Less(array["protos"][i], array["protos"][j])
  PROVE  Less(SortKey("protos", ids["protos"][i]), SortKey("protos", ids["protos"][j]))
  <1> DEFINE a == array["protos"][i]
             b == array["protos"][j]
             s == ids["protos"][i]
             t == ids["protos"][j]
             u == Tail(s)
             v == Tail(t)
  <1>1. /\ a \in Seq(Nat) /\ Len(a) \in Nat \ {0}
        /\ Len(u) = Len(a)
        /\ \A n \in 1..Len(a) : a[n] \in Nat /\ u[n] = s[n + 1] /\ IndexOf(s[n + 1], Type(a[n]))
    BY ProtoStored
  <1>2. /\ b \in Seq(Nat) /\ Len(b) \in Nat \ {0}
        /\ Len(v) = Len(b)
        /\ \A n \in 1..Len(b) : b[n] \in Nat /\ v[n] = t[n + 1] /\ IndexOf(t[n + 1], Type(b[n]))
    BY ProtoStored
  <1>3. Less(a, b) /\ IndInv /\ unique = Pools
    BY DEF ItemsWritten
  <1> HIDE DEF a, b, s, t, u, v
  <1>4. ASSUME NEW m \in 1..Len(a), m <= Len(b)
        PROVE  SameOrder(a[m], b[m], u[m], v[m])
    <2>1. m \in 1..Len(b)
      BY <1>1, <1>2, <1>4
    <2>2. a[m] \in Nat /\ b[m] \in Nat /\ IndexOf(u[m], Type(a[m])) /\ IndexOf(v[m], Type(b[m]))
      BY <1>1, <1>2, <2>1
    <2> QED
      BY <1>3, <2>2, TypesAscend
  <1>5. Corresponding(a, b, u, v)
    BY <1>4 DEF Corresponding
  <1>6. Less(u, v)
    BY <1>1, <1>2, <1>3, <1>5, LessMapped
  <1> QED
    BY <1>6 DEF SortKey, s, t, u, v

(* A method stores the indices of its class, its prototype and its name.   *)
LEMMA MethodStored ==
  ASSUME ItemsWritten, NEW i \in 1..Len(array["methods"])
  PROVE  /\ array["methods"][i] \in Seq(Nat) /\ Len(array["methods"][i]) >= 3
         /\ array["methods"][i][1] \in Nat /\ array["methods"][i][2] \in Nat
         /\ IndexOf(ids["methods"][i][1], Type(array["methods"][i][1]))
         /\ IndexOf(ids["methods"][i][2],
                    Proto(SubSeq(array["methods"][i], 3, Len(array["methods"][i]))))
         /\ IndexOf(ids["methods"][i][3], Str(array["methods"][i][2]))
  <1> DEFINE a == array["methods"][i]
  <1>1. "methods" \in Pools
    BY DEF Pools
  <1>2. a \in KeysOf("methods")
    BY <1>1, ItemLength
  <1>3. IdItem("methods", a) = <<Type(a[1]), Proto(SubSeq(a, 3, Len(a))), Str(a[2])>>
    BY DEF IdItem
  <1>4. /\ Len(IdItem("methods", a)) = 3
        /\ IdItem("methods", a)[1] = Type(a[1])
        /\ IdItem("methods", a)[2] = Proto(SubSeq(a, 3, Len(a)))
        /\ IdItem("methods", a)[3] = Str(a[2])
    BY <1>3
  <1>5. /\ IndexOf(ids["methods"][i][1], Type(a[1]))
        /\ IndexOf(ids["methods"][i][2], Proto(SubSeq(a, 3, Len(a))))
        /\ IndexOf(ids["methods"][i][3], Str(a[2]))
    <2>1. IndexOf(ids["methods"][i][1], Type(a[1]))
      BY <1>1, <1>4, ItemStored
    <2>2. IndexOf(ids["methods"][i][2], Proto(SubSeq(a, 3, Len(a))))
      BY <1>1, <1>4, ItemStored
    <2>3. IndexOf(ids["methods"][i][3], Str(a[2]))
      BY <1>1, <1>4, ItemStored, SMTT(30)
    <2> QED
      BY <2>1, <2>2, <2>3
  <1>6. a \in Seq(Nat) /\ Len(a) \in Nat /\ Len(a) >= 3 /\ \A k \in 1..Len(a) : a[k] \in Nat
    BY <1>1, <1>2, KeyFacts
  <1>7. a[1] \in Nat /\ a[2] \in Nat
    BY <1>6
  <1> QED
    BY <1>5, <1>6, <1>7

(* Of two lists in order that agree on two strings, the rests are in order. *)
LEMMA LessRest ==
  ASSUME NEW a \in Seq(Nat), NEW b \in Seq(Nat), Len(a) >= 3, Len(b) >= 3,
         NEW n \in 0..Len(a), n < Len(b), \A k \in 1..n : a[k] = b[k],
         n < Len(a) => a[n + 1] < b[n + 1], n >= 2
  PROVE  Less(SubSeq(a, 3, Len(a)), SubSeq(b, 3, Len(b)))
  <1> DEFINE c == SubSeq(a, 3, Len(a))
             d == SubSeq(b, 3, Len(b))
  <1>len. Len(a) \in Nat /\ Len(b) \in Nat
    BY LenProperties
  <1>1. Len(c) = Len(a) - 2 /\ \A k \in 1..Len(a) - 2 : c[k] = a[k + 2]
    <2>1. 3 \in 1..Len(a) + 1 /\ Len(a) \in 3 - 1..Len(a)
      BY <1>len
    <2>2. Len(c) = Len(a) - 3 + 1 /\ \A k \in 1..Len(a) - 3 + 1 : c[k] = a[3 + k - 1]
      BY <2>1, SubSeqProperties
    <2> HIDE DEF c
    <2> QED
      BY <1>len, <2>2
  <1>2. Len(d) = Len(b) - 2 /\ \A k \in 1..Len(b) - 2 : d[k] = b[k + 2]
    <2>1. 3 \in 1..Len(b) + 1 /\ Len(b) \in 3 - 1..Len(b)
      BY <1>len
    <2>2. Len(d) = Len(b) - 3 + 1 /\ \A k \in 1..Len(b) - 3 + 1 : d[k] = b[3 + k - 1]
      BY <2>1, SubSeqProperties
    <2> HIDE DEF d
    <2> QED
      BY <1>len, <2>2
  <1> HIDE DEF c, d
  <1> DEFINE m == n - 2
  <1>3. m \in 0..Len(c) /\ m < Len(d)
    BY <1>len, <1>1, <1>2
  <1>4. ASSUME NEW k \in 1..m PROVE c[k] = d[k]
    <2>1. k \in 1..Len(a) - 2 /\ k \in 1..Len(b) - 2 /\ k + 2 \in 1..n
      BY <1>len
    <2> QED
      BY <1>1, <1>2, <2>1
  <1>5. ASSUME m < Len(c) PROVE c[m + 1] < d[m + 1]
    <2>1. n - 2 < Len(a) - 2
      BY <1>1, <1>5
    <2>2. n < Len(a)
      BY <1>len, <2>1
    <2> DEFINE k == m + 1
    <2>3. k \in 1..Len(a) - 2 /\ k \in 1..Len(b) - 2 /\ k + 2 = n + 1
      <3>1. k = n - 1 /\ n \in Int
        BY <1>len
      <3> HIDE DEF k
      <3>2. 1 <= k /\ k <= Len(a) - 2 /\ k <= Len(b) - 2 /\ k \in Int
        BY SMTT(30), <1>len, <2>2, <3>1
      <3> QED
        BY <1>len, <3>1, <3>2
    <2> HIDE DEF k
    <2>4. c[k] = a[n + 1] /\ d[k] = b[n + 1]
      BY <1>1, <1>2, <2>3
    <2> QED
      BY <2>2, <2>4 DEF k
  <1>6. Less(c, d)
    <2> HIDE DEF m
    <2> QED
      BY <1>3, <1>4, <1>5 DEF Less
  <1> QED
    BY <1>6 DEF c, d

(* Methods are in the order of the indices of class, name and prototype.   *)
LEMMA MethodsOrdered ==
  ASSUME ItemsWritten, NEW i \in 1..Len(array["methods"]), NEW j \in 1..Len(array["methods"]),
         Less(array["methods"][i], array["methods"][j])
  PROVE  Less(SortKey("methods", ids["methods"][i]), SortKey("methods", ids["methods"][j]))
  <1> DEFINE a == array["methods"][i]
             b == array["methods"][j]
             s == ids["methods"][i]
             t == ids["methods"][j]
             c == SubSeq(a, 3, Len(a))
             d == SubSeq(b, 3, Len(b))
             u == <<s[1], s[3], s[2]>>
             v == <<t[1], t[3], t[2]>>
  <1>1. /\ a \in Seq(Nat) /\ Len(a) >= 3 /\ a[1] \in Nat /\ a[2] \in Nat
        /\ IndexOf(s[1], Type(a[1])) /\ IndexOf(s[2], Proto(c)) /\ IndexOf(s[3], Str(a[2]))
    BY MethodStored
  <1>2. /\ b \in Seq(Nat) /\ Len(b) >= 3 /\ b[1] \in Nat /\ b[2] \in Nat
        /\ IndexOf(t[1], Type(b[1])) /\ IndexOf(t[2], Proto(d)) /\ IndexOf(t[3], Str(b[2]))
    BY MethodStored
  <1>3. Less(a, b) /\ IndInv /\ unique = Pools
    BY DEF ItemsWritten
  <1> HIDE DEF a, b, s, t
  <1>4. SameOrder(a[1], b[1], s[1], t[1])
    <2>1. a[1] \in Nat /\ b[1] \in Nat /\ IndexOf(s[1], Type(a[1])) /\ IndexOf(t[1], Type(b[1]))
      BY <1>1, <1>2
    <2> QED
      BY <1>3, <2>1, TypesAscend
  <1>5. SameOrder(a[2], b[2], s[3], t[3])
    <2>1. a[2] \in Nat /\ b[2] \in Nat /\ IndexOf(s[3], Str(a[2])) /\ IndexOf(t[3], Str(b[2]))
      BY <1>1, <1>2
    <2> QED
      BY <1>3, <2>1, StringsAscend
  <1>6. Less(c, d) => s[2] < t[2]
    <2> HIDE DEF c, d
    <2>1. Proto(c).pool = "protos" /\ Proto(c).key = c /\ Proto(d).pool = "protos" /\ Proto(d).key = d
      BY DEF Proto
    <2>2. "protos" \in unique
      BY <1>3 DEF Pools
    <2> QED
      BY <1>1, <1>2, <1>3, <2>1, <2>2, LookupsAscend DEF IndexOf
  <1>7. PICK n \in 0..Len(a) : /\ n < Len(b)
                               /\ \A k \in 1..n : a[k] = b[k]
                               /\ n < Len(a) => a[n + 1] < b[n + 1]
    BY <1>3 DEF Less
  <1>8. Len(a) \in Nat /\ Len(b) \in Nat
    BY <1>1, <1>2, LenProperties
  <1>9. /\ Len(u) = 3 /\ u[1] = s[1] /\ u[2] = s[3] /\ u[3] = s[2]
        /\ Len(v) = 3 /\ v[1] = t[1] /\ v[2] = t[3] /\ v[3] = t[2]
    OBVIOUS
  <1> HIDE DEF u, v
  <1>10. CASE n = 0
    <2>1. u[0 + 1] < v[0 + 1]
      BY <1>1, <1>4, <1>7, <1>8, <1>9, <1>10 DEF SameOrder
    <2>2. 0 \in 0..Len(u) /\ 0 < Len(v) /\ \A k \in 1..0 : u[k] = v[k]
      BY <1>9
    <2>3. Less(u, v)
      BY <2>1, <2>2 DEF Less
    <2> QED
      BY <2>3 DEF SortKey, u, v, s, t
  <1>11. CASE n = 1
    <2>1. a[1] = b[1] /\ a[2] < b[2]
      BY <1>1, <1>7, <1>8, <1>11
    <2>2. u[1] = v[1] /\ u[1 + 1] < v[1 + 1]
      BY <1>4, <1>5, <1>9, <2>1 DEF SameOrder
    <2>3. 1 \in 0..Len(u) /\ 1 < Len(v) /\ \A k \in 1..1 : u[k] = v[k]
      BY <1>9, <2>2
    <2>4. Less(u, v)
      BY <2>2, <2>3 DEF Less
    <2> QED
      BY <2>4 DEF SortKey, u, v, s, t
  <1>12. CASE n >= 2
    <2>1. a[1] = b[1] /\ a[2] = b[2]
      BY <1>7, <1>8, <1>12
    <2>2. Less(c, d)
      BY <1>1, <1>2, <1>7, <1>12, LessRest
    <2>3. u[1] = v[1] /\ u[2] = v[2] /\ u[2 + 1] < v[2 + 1]
      BY <1>4, <1>5, <1>6, <1>9, <2>1, <2>2 DEF SameOrder
    <2>4. 2 \in 0..Len(u) /\ 2 < Len(v) /\ \A k \in 1..2 : u[k] = v[k]
      BY <1>9, <2>3
    <2>5. Less(u, v)
      BY <2>3, <2>4 DEF Less
    <2> QED
      BY <2>5 DEF SortKey, u, v, s, t
  <1> QED
    BY <1>7, <1>8, <1>10, <1>11, <1>12

(* The dex format's order of the id items by the indices of their parts is *)
(* the order of the strings that the writer sorts by: for any classes, as  *)
(* long as the indices of types and prototypes fit 16 bits.                *)
THEOREM PoolIdItemsOrdered == Spec => [](PoolsFit => IdItemsOrdered)
  <1>1. ASSUME IndInv, PoolsFit
        PROVE  IdItemsOrdered
    <2>1. SUFFICES ASSUME pc \in {"classes", "done"}, NEW p \in Pools \ {"strs"},
                          NEW i \in 1..Len(ids[p]), NEW j \in 1..Len(ids[p]), i < j
                   PROVE  Less(SortKey(p, ids[p][i]), SortKey(p, ids[p][j]))
      BY DEF IdItemsOrdered
    <2>2. unique = Pools
      BY <1>1, <2>1 DEF IndInv, UniqueInv, UniquePools
    <2>3. ItemsWritten
      BY <1>1, <2>1, <2>2 DEF ItemsWritten
    <2>4. Len(array[p]) \in Nat /\ Ascending(array[p])
      BY <1>1, <2>2, UniqueFacts
    <2>5. ids[p] = [n \in 1..Len(array[p]) |->
                     LET parts == IdItem(p, array[p][n])
                     IN  [k \in 1..Len(parts) |-> Stored(p, parts[k], k)]]
      BY <1>1, <2>1 DEF IndInv, IdsInv, IdItems
    <2>6. Len(ids[p]) = Len(array[p])
      BY <2>4, <2>5
    <2>7. i \in 1..Len(array[p]) /\ j \in 1..Len(array[p]) /\ Less(array[p][i], array[p][j])
      BY <2>1, <2>4, <2>6 DEF Ascending
    <2>8. p \in {"types", "protos", "fields", "methods"}
      BY DEF Pools
    <2>9. CASE p = "types"
      BY <2>3, <2>7, <2>9, TypesOrdered
    <2>10. CASE p = "protos"
      BY <2>3, <2>7, <2>10, ProtosOrdered
    <2>11. CASE p = "fields"
      BY <2>3, <2>7, <2>11, FieldsOrdered
    <2>12. CASE p = "methods"
      BY <2>3, <2>7, <2>12, MethodsOrdered
    <2> QED
      BY <2>8, <2>9, <2>10, <2>11, <2>12
  <1>2. IndInv => (PoolsFit => IdItemsOrdered)
    BY <1>1
  <1> QED
    BY <1>2, PoolInvariant, PTL

-----------------------------------------------------------------------------
(* Each constant that pop_class collects from a class that is whole is     *)
(* looked up by write_class or is a part of another one it collects.       *)
WalksMeet ==
  \A i \in 1..Len(dex) : \A c \in Collected(dex[i]) : Whole(dex[i]) =>
    \/ c \in LookedUp(dex[i])
    \/ \E d \in Collected(dex[i]) : c \in PartsOf(d.pool, d.key)

(* When every class is whole and the walks over it meet, no constant       *)
(* is written that nothing refers to: closing the pools adds only parts.   *)
THEOREM PoolNoSpare == Spec => [](WalksMeet => NoSpareConstants)
  <1>1. ASSUME IndInv, WalksMeet
        PROVE  NoSpareConstants
    <2>1. SUFFICES ASSUME pc = "done", \A i \in 1..Len(dex) : Whole(dex[i]),
                          NEW p \in Pools, NEW key \in ToSet(array[p])
                   PROVE  \/ \E f \in found : f.constant = [pool |-> p, key |-> key]
                          \/ \E q \in Pools : \E other \in ToSet(array[q]) :
                               [pool |-> p, key |-> key] \in ToSet(IdItem(q, other))
      BY DEF NoSpareConstants
    <2> DEFINE c == [pool |-> p, key |-> key]
    <2>2. unique = Pools
      BY <1>1, <2>1 DEF IndInv, UniqueInv, UniquePools
    <2>3. \A q \in Pools : ToSet(array[q]) = pool[q] /\ pool[q] \subseteq KeysOf(q)
      BY <1>1, <2>2, UniqueFacts
    <2>4. Needed(c)
      BY <1>1, <2>3 DEF IndInv, OriginInv
    <2> HIDE DEF c
    <2>5. ASSUME NEW q \in Pools, NEW other \in pool[q], c \in PartsOf(q, other)
          PROVE  \E r \in Pools : \E o \in ToSet(array[r]) : c \in ToSet(IdItem(r, o))
      <3>1. other \in KeysOf(q) /\ other \in ToSet(array[q])
        BY <2>3, <2>5
      <3>2. c \in ToSet(IdItem(q, other))
        BY <2>5, <3>1, IdItemFacts
      <3> QED
        BY <3>1, <3>2
    <2>6. ASSUME NEW i \in 1..Len(dex), c \in Collected(dex[i])
          PROVE  \/ \E f \in found : f.constant = c
                 \/ \E r \in Pools : \E o \in ToSet(array[r]) : c \in ToSet(IdItem(r, o))
      <3>1. \A d \in LookedUp(dex[i]) : \E f \in found : f.constant = d
        BY <1>1, <2>1 DEF IndInv, FoundInv
      <3>2. CASE c \in LookedUp(dex[i])
        BY <3>1, <3>2
      <3>3. ASSUME NEW d \in Collected(dex[i]), c \in PartsOf(d.pool, d.key)
            PROVE  \E r \in Pools : \E o \in ToSet(array[r]) : c \in ToSet(IdItem(r, o))
        <4>1. d.key \in pool[d.pool]
          BY <1>1, <2>1, <3>3 DEF IndInv, CollectedInv
        <4>2. d.pool \in Pools
          BY <1>1, <3>3, ClassFacts DEF IndInv, IsConstant
        <4> QED
          BY <2>5, <3>3, <4>1, <4>2
      <3> QED
        BY <1>1, <2>1, <2>6, <3>2, <3>3 DEF WalksMeet
    <2>7. \/ \E f \in found : f.constant = c
          \/ \E r \in Pools : \E o \in ToSet(array[r]) : c \in ToSet(IdItem(r, o))
      BY <2>2, <2>4, <2>5, <2>6 DEF Needed
    <2> QED
      BY <2>7 DEF c
  <1>2. IndInv => (WalksMeet => NoSpareConstants)
    BY <1>1
  <1> QED
    BY <1>2, PoolInvariant, PTL

=============================================================================
