--------------------------- MODULE DexOwing_proofs ---------------------------
(***************************************************************************)
(* Reading a dex or odex file, part one: what dxc_read_buffer owes.        *)
(* Everything that a read acquires is a token; a read is paid for (Paid)   *)
(* when the function that frees its structure releases just the tokens     *)
(* that the read took, or fewer where the structure forgets some.  From    *)
(* the leaves up: references, values, annotations, debug information,      *)
(* code, the sections of a file.  A failed read has taken what its half    *)
(* made structure owes, as the structures are freed up to the first        *)
(* sentinel.  Then the debt of a context and the inductive invariant IInv: *)
(* what is held covers the debt at every step, and is the debt if no       *)
(* structure of the file forgets anything.  Then the first steps.          *)
(***************************************************************************)
EXTENDS ReadDex, DexShape, Common_proofs, FiniteSetTheorems

(* How often an element is in a bag.                                       *)
LEMMA BagCopies ==
  ASSUME NEW B, IsABag(B), NEW x
  PROVE  /\ Copies(x, B) \in Nat
         /\ x \in DOMAIN B => Copies(x, B) = B[x] /\ B[x] > 0
         /\ x \notin DOMAIN B => Copies(x, B) = 0
  BY DEF IsABag, Copies

(* The sum of two bags has the copies of both.                             *)
LEMMA BagAdd ==
  ASSUME NEW B, IsABag(B), NEW C, IsABag(C)
  PROVE  /\ IsABag(B (+) C)
         /\ \A x : Copies(x, B (+) C) = Copies(x, B) + Copies(x, C)
  BY DEF IsABag, Copies, (+)

(* A bag is part of another one when it has no more copies of anything.    *)
LEMMA BagFits ==
  ASSUME NEW B, IsABag(B), NEW C, IsABag(C)
  PROVE  B \sqsubseteq C <=> \A x : Copies(x, B) <= Copies(x, C)
  BY DEF IsABag, Copies, \sqsubseteq

(* Taking a part of a bag away takes its copies away.                      *)
LEMMA BagSub ==
  ASSUME NEW B, IsABag(B), NEW C, IsABag(C), \A x : Copies(x, C) <= Copies(x, B)
  PROVE  /\ IsABag(B (-) C)
         /\ \A x : Copies(x, B (-) C) = Copies(x, B) - Copies(x, C)
  BY DEF IsABag, Copies, (-)

(* Bags with the same copies are the same.                                 *)
LEMMA BagEqual ==
  ASSUME NEW B, IsABag(B), NEW C, IsABag(C), \A x : Copies(x, B) = Copies(x, C)
  PROVE  B = C
  BY DEF IsABag, Copies

(* The places of an element in a list.                                     *)
Where(s, x) == {i \in DOMAIN s : s[i] = x}

(* An element is found in a list a finite number of times.                 *)
LEMMA OccType ==
  ASSUME NEW S, NEW s \in Seq(S), NEW x
  PROVE  IsFiniteSet(Where(s, x)) /\ Occurrences(s, x) = Cardinality(Where(s, x))
         /\ Occurrences(s, x) \in Nat
  <1>1. DOMAIN s = 1..Len(s) /\ Len(s) \in Nat
    OBVIOUS
  <1>2. IsFiniteSet(1..Len(s))
    BY <1>1, FS_Interval
  <1>3. Where(s, x) \in SUBSET (1..Len(s))
    BY <1>1 DEF Where
  <1>4. IsFiniteSet(Where(s, x))
    BY <1>2, <1>3, FS_Subset
  <1> QED
    BY <1>4, FS_CardinalityType DEF Occurrences, Where

(* Nothing is found in the empty list.                                     *)
LEMMA OccEmpty ==
  ASSUME NEW x
  PROVE  Occurrences(<< >>, x) = 0
  <1>1. {i \in DOMAIN << >> : << >>[i] = x} = {}
    OBVIOUS
  <1> QED
    BY <1>1, FS_EmptySet DEF Occurrences

(* A list of one element has that element only.                            *)
LEMMA OccOne ==
  ASSUME NEW y, NEW x
  PROVE  Occurrences(<<y>>, x) = IF x = y THEN 1 ELSE 0
  <1>1. CASE x = y
    <2>1. {i \in DOMAIN <<y>> : <<y>>[i] = x} = {1}
      BY <1>1
    <2> QED
      BY <1>1, <2>1, FS_Singleton DEF Occurrences
  <1>2. CASE x # y
    <2>1. {i \in DOMAIN <<y>> : <<y>>[i] = x} = {}
      BY <1>2
    <2> QED
      BY <1>2, <2>1, FS_EmptySet DEF Occurrences
  <1> QED
    BY <1>1, <1>2

(* What is found in two lists put together is found in one or in the       *)
(* other.                                                                  *)
LEMMA OccCat ==
  ASSUME NEW S, NEW s \in Seq(S), NEW t \in Seq(S), NEW x
  PROVE  /\ s \o t \in Seq(S)
         /\ Occurrences(s \o t, x) = Occurrences(s, x) + Occurrences(t, x)
  <1> DEFINE B == {j \in (Len(s) + 1)..(Len(s) + Len(t)) : t[j - Len(s)] = x}
  <1>1. s \o t \in Seq(S) /\ Len(s) \in Nat /\ Len(t) \in Nat
    OBVIOUS
  <1>2. DOMAIN (s \o t) = 1..(Len(s) + Len(t)) /\ DOMAIN s = 1..Len(s) /\ DOMAIN t = 1..Len(t)
    OBVIOUS
  <1>3. \A j \in 1..(Len(s) + Len(t)) :
          (s \o t)[j] = IF j <= Len(s) THEN s[j] ELSE t[j - Len(s)]
    OBVIOUS
  <1>4. Where(s \o t, x) = Where(s, x) \cup B
    BY <1>1, <1>2, <1>3 DEF Where
  <1>5. Where(s, x) \cap B = {}
    BY <1>1, <1>2 DEF Where
  <1>6. IsFiniteSet(B) /\ Cardinality(B) = Cardinality(Where(t, x))
    <2> DEFINE f == [i \in Where(t, x) |-> i + Len(s)]
    <2>1. f \in Bijection(Where(t, x), B)
      <3>1. \A i \in Where(t, x) : i \in 1..Len(t) /\ t[i] = x
        BY <1>2 DEF Where
      <3>2. f \in [Where(t, x) -> B]
        BY <1>1, <3>1
      <3>3. \A a, b \in Where(t, x) : f[a] = f[b] => a = b
        BY <1>1, <3>1
      <3>4. \A j \in B : \E i \in Where(t, x) : f[i] = j
        <4> TAKE j \in B
        <4>1. j - Len(s) \in Where(t, x) /\ (j - Len(s)) + Len(s) = j
          BY <1>1, <1>2 DEF Where
        <4> QED
          BY <4>1
      <3> QED
        BY <3>2, <3>3, <3>4 DEF Bijection, Injection, Surjection, IsInjective
    <2> HIDE DEF B
    <2> QED
      BY <2>1, OccType, FS_Bijection DEF ExistsBijection
  <1>7. Cardinality(Where(s, x) \cap B) = 0
    BY <1>5, FS_EmptySet
  <1> HIDE DEF B
  <1>8. Cardinality(Where(s \o t, x)) = Cardinality(Where(s, x)) + Cardinality(B)
    <2>1. IsFiniteSet(Where(s, x)) /\ Cardinality(Where(s, x)) \in Nat
      BY OccType, FS_CardinalityType
    <2>2. Cardinality(B) \in Nat
      BY <1>6, FS_CardinalityType
    <2>3. Cardinality(Where(s, x) \cup B)
            = Cardinality(Where(s, x)) + Cardinality(B) - Cardinality(Where(s, x) \cap B)
      BY <1>6, <2>1, FS_Union
    <2> QED
      BY <1>4, <1>7, <2>1, <2>2, <2>3
  <1> QED
    BY <1>1, <1>6, <1>8, OccType

(* An element of a list is found in it.                                    *)
LEMMA OccIn ==
  ASSUME NEW S, NEW s \in Seq(S), NEW x
  PROVE  x \in ToSet(s) <=> Occurrences(s, x) > 0
  <1>1. x \in ToSet(s) <=> Where(s, x) # {}
    BY DEF ToSet, Where
  <1> QED
    BY <1>1, OccType, FS_EmptySet

(* The bag of a list has each element as often as the list.                *)
LEMMA BagOfFacts ==
  ASSUME NEW S, NEW s \in Seq(S)
  PROVE  /\ IsABag(BagOf(s))
         /\ \A x : Copies(x, BagOf(s)) = Occurrences(s, x)
  <1>1. \A x : Occurrences(s, x) \in Nat /\ (x \in ToSet(s) <=> Occurrences(s, x) > 0)
    BY OccType, OccIn
  <1> QED
    BY <1>1 DEF BagOf, Copies, IsABag

(* Sums of what is found in the parts of a list.                           *)
LEMMA OccFlatten ==
  ASSUME NEW S, NEW ss \in Seq(Seq(S)), NEW x
  PROVE  /\ FlattenSeq(ss) \in Seq(S)
         /\ \E N \in [0..Len(ss) -> Nat] :
              /\ N[0] = 0
              /\ \A k \in 1..Len(ss) : N[k] = N[k - 1] + Occurrences(ss[k], x)
              /\ Occurrences(FlattenSeq(ss), x) = N[Len(ss)]
  <1>1. CASE Len(ss) = 0
    <2>1. FlattenSeq(ss) = << >>
      BY <1>1 DEF FlattenSeq
    <2> DEFINE N == [k \in 0..Len(ss) |-> 0]
    <2>2. N \in [0..Len(ss) -> Nat] /\ N[0] = 0 /\ N[Len(ss)] = 0 /\ 1..Len(ss) = {}
      BY <1>1
    <2>3. FlattenSeq(ss) \in Seq(S) /\ Occurrences(FlattenSeq(ss), x) = 0
      BY <2>1, OccEmpty
    <2> HIDE DEF N
    <2> QED
      BY <2>2, <2>3
  <1>2. CASE Len(ss) # 0
    <2>1. PICK c \in [1..Len(ss) -> Seq(S)] :
            /\ FlattenSeq(ss) = c[Len(ss)]
            /\ c[1] = ss[1]
            /\ \A k \in 2..Len(ss) : c[k] = c[k - 1] \o ss[k]
      BY <1>2, FlattenSteps
    <2> DEFINE N == [k \in 0..Len(ss) |-> IF k = 0 THEN 0 ELSE Occurrences(c[k], x)]
    <2>2. Len(ss) \in Nat /\ \A k \in 1..Len(ss) : ss[k] \in Seq(S) /\ c[k] \in Seq(S)
      OBVIOUS
    <2>3. \A k \in 1..Len(ss) : Occurrences(c[k], x) \in Nat /\ Occurrences(ss[k], x) \in Nat
      BY <2>2, OccType
    <2>4. N \in [0..Len(ss) -> Nat]
      BY <2>3
    <2>5. ASSUME NEW k \in 1..Len(ss) PROVE N[k] = N[k - 1] + Occurrences(ss[k], x)
      <3>1. CASE k = 1
        BY <2>1, <2>3, <3>1
      <3>2. CASE k # 1
        <4>1. k \in 2..Len(ss) /\ k - 1 \in 1..Len(ss) /\ k - 1 # 0
          BY <3>2, <2>2
        <4>2. c[k] = c[k - 1] \o ss[k] /\ c[k - 1] \in Seq(S) /\ ss[k] \in Seq(S)
          BY <2>1, <2>2, <4>1
        <4>3. Occurrences(c[k], x) = Occurrences(c[k - 1], x) + Occurrences(ss[k], x)
          BY <4>2, OccCat
        <4>4. N[k] = Occurrences(c[k], x) /\ N[k - 1] = Occurrences(c[k - 1], x)
          BY <2>2, <4>1
        <4> QED
          BY <4>3, <4>4
      <3> QED
        BY <3>1, <3>2
    <2>6. FlattenSeq(ss) \in Seq(S) /\ Occurrences(FlattenSeq(ss), x) = N[Len(ss)] /\ N[0] = 0
      BY <1>2, <2>1, <2>2
    <2> HIDE DEF N
    <2> QED
      BY <2>4, <2>5, <2>6
  <1> QED
    BY <1>1, <1>2

(* What s has of x, if it has a k-th part.                                 *)
PartOf(ss, k) == IF k \in DOMAIN ss THEN ss[k] ELSE << >>

(* N[k] is how often x is in the first k parts.                            *)
Sums(ss, x, m, N) ==
  /\ N \in [0..m -> Nat] /\ N[0] = 0
  /\ \A k \in 1..m : N[k] = N[k - 1] + Occurrences(PartOf(ss, k), x)
  /\ Occurrences(FlattenSeq(ss), x) = N[m]

(* The part of a list up to its n-th part.                                 *)
LEMMA OccParts ==
  ASSUME NEW S, NEW ss \in Seq(Seq(S)), NEW x, NEW m \in Nat, Len(ss) <= m
  PROVE  \E N : Sums(ss, x, m, N)
  <1>1. PICK N \in [0..Len(ss) -> Nat] :
              /\ N[0] = 0
              /\ \A k \in 1..Len(ss) : N[k] = N[k - 1] + Occurrences(ss[k], x)
              /\ Occurrences(FlattenSeq(ss), x) = N[Len(ss)]
    BY OccFlatten
  <1>2. Len(ss) \in Nat /\ DOMAIN ss = 1..Len(ss)
    OBVIOUS
  <1> DEFINE M == [k \in 0..m |-> IF k <= Len(ss) THEN N[k] ELSE N[Len(ss)]]
  <1>3. M \in [0..m -> Nat] /\ M[0] = 0 /\ M[m] = N[Len(ss)]
    BY <1>1, <1>2, SMTT(20)
  <1>4. ASSUME NEW k \in 1..m PROVE M[k] = M[k - 1] + Occurrences(PartOf(ss, k), x)
    <2>1. CASE k <= Len(ss)
      BY <1>1, <1>2, <2>1 DEF PartOf
    <2>2. CASE k > Len(ss)
      <3>1. PartOf(ss, k) = << >> /\ M[k] = N[Len(ss)] /\ M[k - 1] = N[Len(ss)]
        BY <1>2, <2>2 DEF PartOf
      <3>2. N[Len(ss)] \in Nat /\ Occurrences(PartOf(ss, k), x) = 0
        BY <1>1, <1>2, <3>1, OccEmpty
      <3> QED
        BY <3>1, <3>2
    <2> QED
      BY <1>2, <2>1, <2>2
  <1> HIDE DEF M
  <1>5. Sums(ss, x, m, M)
    BY <1>1, <1>3, <1>4 DEF Sums
  <1> QED
    BY <1>5

(* The kinds of references and blocks.                                     *)
Kinds ==
  {"str", "proto", "strstr", "parameters", "annotations", "parameter_annotations", "values",
   "annotation", "debug_insns", "start_local", "debug_info", "handlers", "catch_all", "tries",
   "insns", "targets", "keys", "data", "fields", "methods", "code", "strs", "types", "protos",
   "raw_fields", "raw_methods", "classes", "dep", "sha", "dep_shas", "id", "odex", "file",
   "method_table", "field_table", "type_table"}

(* What can be acquired: references to strings and prototypes, and blocks. *)
Tokens == Kinds \X Nat

(* What is freed was taken; exactly that, if exact.                        *)
Paid(took, free, exact) ==
  /\ took \in Seq(Tokens) /\ free \in Seq(Tokens)
  /\ \A x : Occurrences(free, x) <= Occurrences(took, x)
  /\ exact => \A x : Occurrences(free, x) = Occurrences(took, x)

(* The number of places of an element, for lists of tokens.                *)
LEMMA OccNat == \A s \in Seq(Tokens) : \A x : Occurrences(s, x) \in Nat
  BY OccType

(* Lists of tokens put together add up what is found in them.              *)
LEMMA OccSum ==
  \A s, t \in Seq(Tokens) :
    s \o t \in Seq(Tokens)
    /\ \A x : Occurrences(s \o t, x) = Occurrences(s, x) + Occurrences(t, x)
  BY OccCat

(* What was acquired pays for itself.                                      *)
LEMMA PaidSame ==
  ASSUME NEW s \in Seq(Tokens), NEW exact
  PROVE  Paid(s, s, exact)
  BY OccNat DEF Paid

(* Two parts that are paid for are paid for together.                      *)
LEMMA PaidCat ==
  ASSUME NEW exact, NEW s, NEW t, Paid(s, t, exact), NEW u, NEW v, Paid(u, v, exact)
  PROVE  Paid(s \o u, t \o v, exact)
  BY OccNat, OccSum, SMTT(20) DEF Paid

(* In another order.                                                       *)
LEMMA PaidTurn ==
  ASSUME NEW exact, NEW s, NEW t, Paid(s, t, exact), NEW u, NEW v, Paid(u, v, exact)
  PROVE  Paid(s \o u, v \o t, exact)
  BY OccNat, OccSum, SMTT(20) DEF Paid

(* A list of parts is paid for when each part is.                          *)
LEMMA FlattenPaid ==
  ASSUME NEW exact, NEW ss \in Seq(Seq(Tokens)), NEW tt \in Seq(Seq(Tokens)),
         \A k \in Nat \ {0} : Paid(PartOf(ss, k), PartOf(tt, k), exact)
  PROVE  Paid(FlattenSeq(ss), FlattenSeq(tt), exact)
  <1> DEFINE m == Len(ss) + Len(tt)
  <1>1. m \in Nat /\ Len(ss) <= m /\ Len(tt) <= m
    OBVIOUS
  <1>2. FlattenSeq(ss) \in Seq(Tokens) /\ FlattenSeq(tt) \in Seq(Tokens)
    BY OccFlatten
  <1> HIDE DEF m
  <1>3. ASSUME NEW x
        PROVE  /\ Occurrences(FlattenSeq(tt), x) <= Occurrences(FlattenSeq(ss), x)
               /\ exact => Occurrences(FlattenSeq(tt), x) = Occurrences(FlattenSeq(ss), x)
    <2>1. PICK N : Sums(ss, x, m, N)
      BY <1>1, OccParts
    <2>2. PICK M : Sums(tt, x, m, M)
      BY <1>1, OccParts
    <2>a. /\ N \in [0..m -> Nat] /\ N[0] = 0 /\ Occurrences(FlattenSeq(ss), x) = N[m]
          /\ M \in [0..m -> Nat] /\ M[0] = 0 /\ Occurrences(FlattenSeq(tt), x) = M[m]
      BY <2>1, <2>2 DEF Sums
    <2>b. \A k \in 1..m : /\ N[k] = N[k - 1] + Occurrences(PartOf(ss, k), x)
                          /\ M[k] = M[k - 1] + Occurrences(PartOf(tt, k), x)
      BY <2>1, <2>2 DEF Sums
    <2> DEFINE T == {k \in Nat : k <= m => M[k] <= N[k] /\ (exact => M[k] = N[k])}
    <2>3. 0 \in T
      BY <2>a
    <2>4. ASSUME NEW k \in T PROVE k + 1 \in T
      <3>1. CASE k + 1 <= m
        <4>1. k \in Nat /\ k <= m /\ k + 1 \in 1..m /\ (k + 1) - 1 = k /\ k \in 0..m
          BY <1>1, <3>1
        <4>2. /\ N[k + 1] = N[k] + Occurrences(PartOf(ss, k + 1), x)
              /\ M[k + 1] = M[k] + Occurrences(PartOf(tt, k + 1), x)
          BY <2>b, <4>1
        <4>3. Paid(PartOf(ss, k + 1), PartOf(tt, k + 1), exact)
          BY <4>1
        <4>4. /\ Occurrences(PartOf(tt, k + 1), x) \in Nat /\ Occurrences(PartOf(ss, k + 1), x) \in Nat
              /\ Occurrences(PartOf(tt, k + 1), x) <= Occurrences(PartOf(ss, k + 1), x)
              /\ exact => Occurrences(PartOf(tt, k + 1), x) = Occurrences(PartOf(ss, k + 1), x)
          BY <4>3, OccNat DEF Paid
        <4>5. N[k] \in Nat /\ M[k] \in Nat /\ M[k] <= N[k] /\ (exact => M[k] = N[k])
          BY <2>a, <4>1
        <4>6. M[k + 1] <= N[k + 1] /\ (exact => M[k + 1] = N[k + 1])
          BY <4>2, <4>4, <4>5
        <4> QED
          BY <4>1, <4>6
      <3>2. CASE ~(k + 1 <= m)
        BY <3>2
      <3> QED
        BY <3>1, <3>2
    <2>5. T = Nat
      <3>1. T \in SUBSET Nat
        OBVIOUS
      <3> HIDE DEF T
      <3> QED
        BY <2>3, <2>4, <3>1, SetInduction
    <2>6. m \in T
      BY <1>1, <2>5
    <2> QED
      BY <2>a, <2>6
  <1> QED
    BY <1>2, <1>3 DEF Paid

(* A list of parts of which one is replaced.                               *)
LEMMA FlattenChange ==
  ASSUME NEW ss \in Seq(Seq(Tokens)), NEW tt \in Seq(Seq(Tokens)), DOMAIN tt = DOMAIN ss,
         NEW j \in DOMAIN ss, \A k \in DOMAIN ss : k # j => tt[k] = ss[k], NEW x
  PROVE  Occurrences(FlattenSeq(tt), x) + Occurrences(ss[j], x)
           = Occurrences(FlattenSeq(ss), x) + Occurrences(tt[j], x)
  <1> DEFINE m == Len(ss)
  <1>1. m \in Nat /\ Len(ss) = m /\ Len(tt) = m /\ DOMAIN ss = 1..m /\ DOMAIN tt = 1..m /\ j \in 1..m
        /\ Len(ss) <= m /\ Len(tt) <= m
    OBVIOUS
  <1> HIDE DEF m
  <1>2. PICK N : Sums(ss, x, m, N)
    BY <1>1, OccParts
  <1>3. PICK M : Sums(tt, x, m, M)
    BY <1>1, OccParts
  <1>a. /\ N \in [0..m -> Nat] /\ N[0] = 0 /\ Occurrences(FlattenSeq(ss), x) = N[m]
        /\ M \in [0..m -> Nat] /\ M[0] = 0 /\ Occurrences(FlattenSeq(tt), x) = M[m]
    BY <1>2, <1>3 DEF Sums
  <1>b. \A k \in 1..m : /\ N[k] = N[k - 1] + Occurrences(PartOf(ss, k), x)
                        /\ M[k] = M[k - 1] + Occurrences(PartOf(tt, k), x)
    BY <1>2, <1>3 DEF Sums
  <1>4. ss[j] \in Seq(Tokens) /\ tt[j] \in Seq(Tokens)
    BY <1>1
  <1> DEFINE a == Occurrences(ss[j], x)
             b == Occurrences(tt[j], x)
  <1>5. a \in Nat /\ b \in Nat
    BY <1>4, OccNat
  <1> HIDE DEF a, b
  <1> DEFINE T == {k \in Nat : k <= m => IF k < j THEN M[k] = N[k] ELSE M[k] + a = N[k] + b}
  <1>6. 0 \in T
    BY <1>1, <1>a
  <1>7. ASSUME NEW k \in T PROVE k + 1 \in T
    <2>1. CASE k + 1 <= m
      <3>1. k \in Nat /\ k <= m /\ k + 1 \in 1..m /\ (k + 1) - 1 = k /\ k \in 0..m
        BY <1>1, <2>1
      <3>2. /\ N[k + 1] = N[k] + Occurrences(PartOf(ss, k + 1), x)
            /\ M[k + 1] = M[k] + Occurrences(PartOf(tt, k + 1), x)
        BY <1>b, <3>1
      <3>3. /\ PartOf(ss, k + 1) = ss[k + 1] /\ PartOf(tt, k + 1) = tt[k + 1]
            /\ ss[k + 1] \in Seq(Tokens) /\ tt[k + 1] \in Seq(Tokens)
        BY <1>1, <3>1 DEF PartOf
      <3>4. Occurrences(ss[k + 1], x) \in Nat /\ Occurrences(tt[k + 1], x) \in Nat
        BY <3>3, OccNat
      <3>5. N[k] \in Nat /\ M[k] \in Nat /\ (IF k < j THEN M[k] = N[k] ELSE M[k] + a = N[k] + b)
        BY <1>a, <3>1
      <3>6. CASE k + 1 = j
        <4>1. Occurrences(ss[k + 1], x) = a /\ Occurrences(tt[k + 1], x) = b
          BY <3>6 DEF a, b
        <4>2. M[k + 1] + a = N[k + 1] + b /\ k < j
          BY <1>1, <1>5, <3>1, <3>2, <3>3, <3>5, <3>6, <4>1
        <4> QED
          BY <3>1, <3>6, <4>2
      <3>7. CASE k + 1 # j
        <4>1. tt[k + 1] = ss[k + 1]
          BY <1>1, <3>1, <3>7
        <4>2. CASE k + 1 < j
          BY <1>1, <3>1, <3>2, <3>3, <3>4, <3>5, <4>1, <4>2
        <4>3. CASE ~(k + 1 < j)
          <5>1. ~(k < j) /\ M[k] + a = N[k] + b
            BY <1>1, <3>1, <3>5, <3>7, <4>3
          <5>2. PICK o \in Nat : o = Occurrences(ss[k + 1], x)
            BY <3>4
          <5>3. M[k + 1] = M[k] + o /\ N[k + 1] = N[k] + o
            BY <3>2, <3>3, <4>1, <5>2
          <5>4. \A p, q \in Nat : p + a = q + b => (p + o) + a = (q + o) + b
            BY <1>5
          <5>5. M[k + 1] + a = N[k + 1] + b
            BY <3>5, <5>1, <5>3, <5>4
          <5> QED
            BY <4>3, <5>5
        <4> QED
          BY <4>2, <4>3
      <3> QED
        BY <3>6, <3>7
    <2>2. CASE ~(k + 1 <= m)
      BY <2>2
    <2> QED
      BY <2>1, <2>2
  <1>8. T = Nat
    <2>1. T \in SUBSET Nat
      OBVIOUS
    <2> HIDE DEF T
    <2> QED
      BY <1>6, <1>7, <2>1, SetInduction
  <1>9. m \in T
    BY <1>1, <1>8
  <1> QED
    BY <1>1, <1>a, <1>9 DEF a, b

(* A list of lists has the first part of it in front.                      *)
LEMMA UpToParts ==
  ASSUME NEW tt \in Seq(Seq(Tokens)), NEW ends \in SUBSET DOMAIN tt
  PROVE  /\ UpTo(tt, ends) \in Seq(Seq(Tokens))
         /\ \A k \in Nat \ {0} :
              PartOf(UpTo(tt, ends), k) = IF \A e \in ends : k < e THEN PartOf(tt, k) ELSE << >>
  <1>1. CASE ends = {}
    BY <1>1 DEF UpTo
  <1>2. CASE ends # {}
    <2>1. ends \in SUBSET Nat
      OBVIOUS
    <2>2. \E e \in ends : \A k \in ends : e <= k
      BY <1>2, <2>1, LeastElement
    <2>3. PICK e : e = CHOOSE i \in ends : \A k \in ends : i <= k
      OBVIOUS
    <2>4. e \in ends /\ \A k \in ends : e <= k
      BY <2>2, <2>3
    <2>5. UpTo(tt, ends) = SubSeq(tt, 1, e - 1)
      BY <1>2, <2>3 DEF UpTo
    <2>6. e \in 1..Len(tt) /\ Len(tt) \in Nat /\ DOMAIN tt = 1..Len(tt)
      BY <2>4
    <2>7. /\ SubSeq(tt, 1, e - 1) \in Seq(Seq(Tokens))
          /\ DOMAIN SubSeq(tt, 1, e - 1) = 1..e - 1
          /\ \A k \in 1..e - 1 : SubSeq(tt, 1, e - 1)[k] = tt[k]
      BY <2>6
    <2> QED
      BY <2>1, <2>4, <2>5, <2>6, <2>7 DEF PartOf
  <1> QED
    BY <1>1, <1>2

(* NULL is none of the structures.                                         *)
NullApart == \A f : f = [x \in DOMAIN f |-> f[x]] => NULL # f


(* A list is a sequence of its elements.                                   *)
LEMMA ListFacts ==
  ASSUME NEW s, IsList(s)
  PROVE  /\ DOMAIN s = 1..Len(s) /\ Len(s) \in Nat
         /\ s \in Seq({s[i] : i \in 1..Len(s)})
  BY DEF IsList

(* A function on the first n indexes is a list of length n.                *)
LEMMA ListOf ==
  ASSUME NEW n \in Nat, NEW s, s = [i \in 1..n |-> s[i]]
  PROVE  IsList(s) /\ Len(s) = n /\ DOMAIN s = 1..n
  BY DEF IsList

(* A list with elements in S is a sequence over S.                         *)
LEMMA ListIn ==
  ASSUME NEW S, NEW s, IsList(s), \A i \in 1..Len(s) : s[i] \in S
  PROVE  s \in Seq(S)
  BY DEF IsList

(* A sequence is a list.                                                   *)
LEMMA SeqList ==
  ASSUME NEW S, NEW s \in Seq(S)
  PROVE  IsList(s)
  BY DEF IsList

(* Neither a list nor a token is NULL.                                     *)
LEMMA NotNull ==
  ASSUME NullApart
  PROVE  /\ \A s : IsList(s) => s # NULL
         /\ \A t \in Tokens : t # NULL
  BY DEF NullApart, IsList, Tokens

(* The index of the last item that is read.                                *)
LastRead(reads) ==
  LET fails == {i \in DOMAIN reads : ~reads[i].ok}
  IN  IF fails = {} THEN Len(reads) ELSE CHOOSE i \in fails : \A k \in fails : i <= k

(* The reads up to the last one that is made: those before it succeed.     *)
LEMMA LastFacts ==
  ASSUME NEW reads, IsList(reads)
  PROVE  /\ LastRead(reads) \in 0..Len(reads)
         /\ \A i \in 1..Len(reads) : i < LastRead(reads) => reads[i].ok
         /\ \/ LastRead(reads) = Len(reads) /\ \A i \in 1..Len(reads) : reads[i].ok
            \/ LastRead(reads) >= 1 /\ ~reads[LastRead(reads)].ok
  <1> DEFINE fails == {i \in DOMAIN reads : ~reads[i].ok}
  <1>1. DOMAIN reads = 1..Len(reads) /\ Len(reads) \in Nat
    BY ListFacts
  <1>2. fails \in SUBSET Nat
    BY <1>1
  <1>3. CASE fails = {}
    BY <1>1, <1>3 DEF LastRead
  <1>4. CASE fails # {}
    <2>1. \E e \in fails : \A k \in fails : e <= k
      BY <1>2, <1>4, LeastElement
    <2>2. LastRead(reads) \in fails /\ \A k \in fails : LastRead(reads) <= k
      BY <1>4, <2>1 DEF LastRead
    <2> QED
      BY <1>1, <2>2
  <1> QED
    BY <1>3, <1>4

(* InOrder gives the values of the reads that were made, and zeros for the *)
(* rest.                                                                   *)
LEMMA InOrderFacts ==
  ASSUME NEW reads, IsList(reads), NEW Zero
  PROVE  /\ IsList(InOrder(reads, Zero).value)
         /\ Len(InOrder(reads, Zero).value) = Len(reads)
         /\ \A i \in 1..Len(reads) : i <= LastRead(reads) => InOrder(reads, Zero).value[i] = reads[i].value
         /\ \A i \in 1..Len(reads) : ~(i <= LastRead(reads)) => InOrder(reads, Zero).value[i] = Zero
         /\ InOrder(reads, Zero).took = FlattenSeq([i \in 1..LastRead(reads) |-> reads[i].took])
         /\ InOrder(reads, Zero).ok \in BOOLEAN
         /\ InOrder(reads, Zero).ok <=> \A i \in 1..Len(reads) : reads[i].ok
         /\ InOrder(reads, Zero) = Result(InOrder(reads, Zero).value, InOrder(reads, Zero).ok,
                                          InOrder(reads, Zero).took)
  <1>1. DOMAIN reads = 1..Len(reads)
    BY ListFacts
  <1> DEFINE fails == {i \in DOMAIN reads : ~reads[i].ok}
             v == [i \in 1..Len(reads) |-> IF i <= LastRead(reads) THEN reads[i].value ELSE Zero]
             t == FlattenSeq([i \in 1..LastRead(reads) |-> reads[i].took])
  <1>2. InOrder(reads, Zero) = Result(v, fails = {}, t)
    BY <1>1 DEF InOrder, LastRead
  <1>3. fails = {} <=> \A i \in 1..Len(reads) : reads[i].ok
    BY <1>1
  <1> HIDE DEF fails, v, t
  <1>4. /\ InOrder(reads, Zero).value = v
        /\ InOrder(reads, Zero).took = t
        /\ InOrder(reads, Zero).ok = (fails = {})
    BY <1>2 DEF Result
  <1>5. InOrder(reads, Zero).ok \in BOOLEAN
    BY <1>4
  <1>6. InOrder(reads, Zero) = Result(InOrder(reads, Zero).value, InOrder(reads, Zero).ok,
                                          InOrder(reads, Zero).took)
    BY <1>2, <1>4
  <1>7. /\ IsList(v) /\ Len(v) = Len(reads)
        /\ \A i \in 1..Len(reads) : i <= LastRead(reads) => v[i] = reads[i].value
        /\ \A i \in 1..Len(reads) : ~(i <= LastRead(reads)) => v[i] = Zero
    <2>1. Len(reads) \in Nat
      BY ListFacts
    <2>2. v = [i \in 1..Len(reads) |-> v[i]]
      BY DEF v
    <2> QED
      BY <2>1, <2>2, ListOf DEF v
  <1> QED
    BY <1>3, <1>4, <1>5, <1>6, <1>7 DEF t

(* Reads made in order, each paid for by its own structure, are paid for   *)
(* by the loop that frees the structures up to the first sentinel.         *)
LEMMA InOrderPaid ==
  ASSUME NEW exact, NEW reads, IsList(reads), NEW Zero, NEW tt, IsList(tt), Len(tt) = Len(reads),
         NEW ends \in SUBSET DOMAIN tt,
         \A i \in 1..Len(reads) : i <= LastRead(reads) => Paid(reads[i].took, tt[i], exact),
         \A i \in 1..Len(reads) : ~(i <= LastRead(reads)) => tt[i] = << >>,
         exact => \A e \in ends : e <= LastRead(reads) => ~reads[e].ok /\ tt[e] = << >>
  PROVE  Paid(InOrder(reads, Zero).took, FlattenSeq(UpTo(tt, ends)), exact)
  <1> DEFINE ss == [i \in 1..LastRead(reads) |-> reads[i].took]
  <1>1. LastRead(reads) \in 0..Len(reads) /\ Len(reads) \in Nat /\ DOMAIN tt = 1..Len(reads)
    BY LastFacts, ListFacts
  <1>2. ASSUME NEW i \in 1..LastRead(reads) PROVE reads[i].took \in Seq(Tokens)
    <2>1. i \in 1..Len(reads) /\ i <= LastRead(reads)
      BY <1>1
    <2>2. Paid(reads[i].took, tt[i], exact)
      BY <2>1
    <2> QED
      BY <2>2 DEF Paid
  <1>3. ss \in Seq(Seq(Tokens)) /\ DOMAIN ss = 1..LastRead(reads)
    BY <1>1, <1>2
  <1>4. ASSUME NEW i \in 1..Len(tt) PROVE tt[i] \in Seq(Tokens)
    <2>1. i \in 1..Len(reads)
      OBVIOUS
    <2>2. CASE i <= LastRead(reads)
      <3>1. Paid(reads[i].took, tt[i], exact)
        BY <2>1, <2>2
      <3> QED
        BY <3>1 DEF Paid
    <2>3. CASE ~(i <= LastRead(reads))
      <3>1. tt[i] = << >>
        BY <2>1, <2>3
      <3> QED
        BY <3>1
    <2> QED
      BY <2>2, <2>3
  <1>5. tt \in Seq(Seq(Tokens))
    BY <1>4, ListIn
  <1>6. UpTo(tt, ends) \in Seq(Seq(Tokens))
    BY <1>5, UpToParts
  <1>7. ASSUME NEW k \in Nat \ {0}
        PROVE  Paid(PartOf(ss, k), PartOf(UpTo(tt, ends), k), exact)
    <2>1. PartOf(UpTo(tt, ends), k) = IF \A e \in ends : k < e THEN PartOf(tt, k) ELSE << >>
      BY <1>5, UpToParts
    <2>2. Paid(<< >>, << >>, exact)
      <3>1. << >> \in Seq(Tokens)
        OBVIOUS
      <3> QED
        BY <3>1, PaidSame
    <2>3. CASE k > LastRead(reads)
      <3>1. PartOf(ss, k) = << >>
        BY <1>1, <1>3, <2>3 DEF PartOf
      <3>2. PartOf(tt, k) = << >>
        BY <1>1, <2>3 DEF PartOf
      <3> QED
        BY <2>1, <2>2, <3>1, <3>2
    <2>4. CASE k <= LastRead(reads)
      <3>1. PartOf(ss, k) = reads[k].took /\ PartOf(tt, k) = tt[k] /\ k \in 1..Len(reads)
        BY <1>1, <1>3, <2>4 DEF PartOf
      <3>2. Paid(reads[k].took, tt[k], exact)
        BY <2>4, <3>1
      <3>3. CASE \A e \in ends : k < e
        BY <2>1, <3>1, <3>2, <3>3
      <3>4. CASE ~\A e \in ends : k < e
        <4>1. PICK e \in ends : ~(k < e)
          BY <3>4
        <4>2. e \in 1..Len(reads) /\ e <= k /\ e <= LastRead(reads)
          BY <1>1, <2>4, <3>1, <4>1
        <4>3. exact => e = k
          <5>1. exact => ~reads[e].ok
            BY <4>2
          <5>2. e < LastRead(reads) => reads[e].ok
            BY <4>2, LastFacts
          <5> QED
            BY <1>1, <2>4, <4>2, <5>1, <5>2
        <4>4. exact => tt[k] = << >>
          BY <4>2, <4>3
        <4>5. PartOf(UpTo(tt, ends), k) = << >>
          BY <2>1, <3>4
        <4> QED
          <5>1. reads[k].took \in Seq(Tokens) /\ \A x : Occurrences(reads[k].took, x) \in Nat
            BY <3>2, OccNat DEF Paid
          <5>2. exact => \A x : Occurrences(reads[k].took, x) = 0
            BY <3>2, <4>4, OccEmpty DEF Paid
          <5>3. \A x : Occurrences(<< >>, x) = 0
            BY OccEmpty
          <5>4. << >> \in Seq(Tokens)
            OBVIOUS
          <5>5. \A x : /\ Occurrences(<< >>, x) <= Occurrences(reads[k].took, x)
                       /\ exact => Occurrences(<< >>, x) = Occurrences(reads[k].took, x)
            BY <5>1, <5>2, <5>3
          <5>6. Paid(reads[k].took, << >>, exact)
            BY <5>1, <5>4, <5>5 DEF Paid
          <5> QED
            BY <3>1, <4>5, <5>6
      <3> QED
        BY <3>3, <3>4
    <2> QED
      BY <1>1, <2>3, <2>4
  <1>8. Paid(FlattenSeq(ss), FlattenSeq(UpTo(tt, ends)), exact)
    BY <1>3, <1>6, <1>7, FlattenPaid
  <1> QED
    BY <1>8, InOrderFacts

(* A block is a token.                                                     *)
LEMMA BlockToken ==
  ASSUME NEW kind \in Kinds
  PROVE  Block(kind) \in Tokens
  BY DEF Block, Tokens

(* The same for an array, which has a block of its own.                    *)
LEMMA ReadArrayPaid ==
  ASSUME NEW exact, NEW reads, IsList(reads), NEW Zero, NEW tt, IsList(tt), Len(tt) = Len(reads),
         NEW ends \in SUBSET DOMAIN tt, NEW kind \in Kinds,
         \A i \in 1..Len(reads) : i <= LastRead(reads) => Paid(reads[i].took, tt[i], exact),
         \A i \in 1..Len(reads) : ~(i <= LastRead(reads)) => tt[i] = << >>,
         exact => \A e \in ends : e <= LastRead(reads) => ~reads[e].ok /\ tt[e] = << >>
  PROVE  Paid(ReadArray(reads, Zero, kind).took, FlattenSeq(UpTo(tt, ends)) \o <<Block(kind)>>,
              exact)
  <1>1. Paid(InOrder(reads, Zero).took, FlattenSeq(UpTo(tt, ends)), exact)
    BY InOrderPaid
  <1>2. <<Block(kind)>> \in Seq(Tokens)
    BY BlockToken
  <1>3. Paid(<<Block(kind)>>, <<Block(kind)>>, exact)
    BY <1>2, PaidSame
  <1>4. Paid(<<Block(kind)>> \o InOrder(reads, Zero).took,
             FlattenSeq(UpTo(tt, ends)) \o <<Block(kind)>>, exact)
    BY <1>1, <1>3, PaidTurn
  <1> QED
    BY <1>4, InOrderFacts DEF ReadArray, After, Result

(* The array that is read has the values that were read, and zeros behind  *)
(* them.                                                                   *)
LEMMA ReadArrayFacts ==
  ASSUME NEW reads, IsList(reads), NEW Zero, NEW kind
  PROVE  /\ ReadArray(reads, Zero, kind).ok \in BOOLEAN
         /\ ReadArray(reads, Zero, kind).ok <=> \A i \in 1..Len(reads) : reads[i].ok
         /\ IsList(ReadArray(reads, Zero, kind).value)
         /\ Len(ReadArray(reads, Zero, kind).value) = Len(reads)
         /\ \A i \in 1..Len(reads) : i <= LastRead(reads) => ReadArray(reads, Zero, kind).value[i] = reads[i].value
         /\ \A i \in 1..Len(reads) : ~(i <= LastRead(reads)) => ReadArray(reads, Zero, kind).value[i] = Zero
         /\ ReadArray(reads, Zero, kind) = Result(ReadArray(reads, Zero, kind).value,
               ReadArray(reads, Zero, kind).ok, ReadArray(reads, Zero, kind).took)
  <1> DEFINE io == InOrder(reads, Zero)
  <1>1. io = Result(io.value, io.ok, io.took)
    BY InOrderFacts
  <1>2. io.ok \in BOOLEAN /\ (io.ok <=> \A i \in 1..Len(reads) : reads[i].ok)
    BY InOrderFacts
  <1>a. IsList(io.value)
    BY InOrderFacts
  <1>b. Len(io.value) = Len(reads)
    BY InOrderFacts
  <1>3. /\ IsList(io.value) /\ Len(io.value) = Len(reads)
        /\ \A i \in 1..Len(reads) : i <= LastRead(reads) => io.value[i] = reads[i].value
        /\ \A i \in 1..Len(reads) : ~(i <= LastRead(reads)) => io.value[i] = Zero
    BY <1>a, <1>b, InOrderFacts
  <1> HIDE DEF io
  <1>4. ReadArray(reads, Zero, kind) = [io EXCEPT !.took = <<Block(kind)>> \o @]
    BY DEF ReadArray, After, io
  <1>5. PICK q : q = <<Block(kind)>> \o io.took
    OBVIOUS
  <1>6. ReadArray(reads, Zero, kind) = Result(io.value, io.ok, q)
    BY <1>1, <1>4, <1>5 DEF Result
  <1>7. /\ ReadArray(reads, Zero, kind).value = io.value
        /\ ReadArray(reads, Zero, kind).ok = io.ok
        /\ ReadArray(reads, Zero, kind).took = q
    BY <1>6 DEF Result
  <1> QED
    BY <1>2, <1>3, <1>6, <1>7

(* Two lists put together.                                                 *)
LEMMA FlattenTwo ==
  ASSUME NEW S, NEW a \in Seq(S), NEW b \in Seq(S)
  PROVE  FlattenSeq(<<a, b>>) = a \o b
  <1> DEFINE ss == <<a, b>>
  <1>1. ss \in Seq(Seq(S)) /\ Len(ss) = 2 /\ Len(ss) # 0 /\ ss[1] = a /\ ss[2] = b
    OBVIOUS
  <1> HIDE DEF ss
  <1>2. PICK c \in [1..Len(ss) -> Seq(S)] :
          /\ FlattenSeq(ss) = c[Len(ss)]
          /\ c[1] = ss[1]
          /\ \A k \in 2..Len(ss) : c[k] = c[k - 1] \o ss[k]
    BY <1>1, FlattenSteps
  <1>3. FlattenSeq(ss) = c[2] /\ c[2] = c[2 - 1] \o ss[2]
    BY <1>1, <1>2
  <1>4. FlattenSeq(ss) = a \o b
    BY <1>1, <1>2, <1>3
  <1> QED
    BY <1>4 DEF ss

(* Three lists put together.                                               *)
LEMMA FlattenThree ==
  ASSUME NEW S, NEW ss \in Seq(Seq(S)), Len(ss) = 3
  PROVE  FlattenSeq(ss) = (ss[1] \o ss[2]) \o ss[3]
  <1>1. Len(ss) # 0
    OBVIOUS
  <1>2. PICK c \in [1..Len(ss) -> Seq(S)] :
          /\ FlattenSeq(ss) = c[Len(ss)]
          /\ c[1] = ss[1]
          /\ \A k \in 2..Len(ss) : c[k] = c[k - 1] \o ss[k]
    BY <1>1, FlattenSteps
  <1>3. FlattenSeq(ss) = c[3] /\ c[3] = c[3 - 1] \o ss[3]
    BY <1>2
  <1>4. c[2] = c[2 - 1] \o ss[2] /\ c[1] = ss[1]
    BY <1>2
  <1>a. c[2] = ss[1] \o ss[2]
    BY <1>4
  <1>b. c[3] = c[2] \o ss[3]
    BY <1>3
  <1> QED
    BY <1>3, <1>a, <1>b

(* What a reader yields.                                                   *)
IsResult(r) ==
  /\ r.ok \in BOOLEAN /\ r.took \in Seq(Tokens)
  /\ r = Result(r.value, r.ok, r.took)

(* Two reads, the second made when the first succeeds.                     *)
LEMMA InOrderTwo ==
  ASSUME NEW p, IsResult(p), NEW q, IsResult(q), NEW Zero
  PROVE  /\ InOrder(<<p, q>>, Zero).value[1] = p.value
         /\ InOrder(<<p, q>>, Zero).value[2] = IF p.ok THEN q.value ELSE Zero
         /\ InOrder(<<p, q>>, Zero).took = IF p.ok THEN p.took \o q.took ELSE p.took
         /\ InOrder(<<p, q>>, Zero).ok = (p.ok /\ q.ok)
         /\ IsResult(InOrder(<<p, q>>, Zero))
  <1> DEFINE reads == <<p, q>>
             io == InOrder(reads, Zero)
  <1>1. IsList(reads) /\ Len(reads) = 2 /\ reads[1] = p /\ reads[2] = q
    BY DEF IsList
  <1> HIDE DEF reads
  <1>2. /\ LastRead(reads) \in 0..2
        /\ 1 < LastRead(reads) => p.ok
        /\ \/ LastRead(reads) = 2 /\ p.ok /\ q.ok
           \/ LastRead(reads) >= 1 /\ ~reads[LastRead(reads)].ok
    <2>1. /\ LastRead(reads) \in 0..Len(reads)
          /\ \A i \in 1..Len(reads) : i < LastRead(reads) => reads[i].ok
          /\ \/ LastRead(reads) = Len(reads) /\ \A i \in 1..Len(reads) : reads[i].ok
             \/ LastRead(reads) >= 1 /\ ~reads[LastRead(reads)].ok
      BY <1>1, LastFacts
    <2>2. 1 \in 1..Len(reads) /\ 2 \in 1..Len(reads)
      BY <1>1
    <2>3. 1 < LastRead(reads) => p.ok
      BY <1>1, <2>1, <2>2
    <2>4. (\A i \in 1..Len(reads) : reads[i].ok) => p.ok /\ q.ok
      BY <1>1, <2>2
    <2> QED
      BY <1>1, <2>1, <2>3, <2>4
  <1>3. LastRead(reads) = IF p.ok THEN 2 ELSE 1
    BY <1>1, <1>2
  <1>4. io.value[1] = p.value /\ io.value[2] = IF p.ok THEN q.value ELSE Zero
    <2>1. /\ \A i \in 1..Len(reads) : i <= LastRead(reads) => io.value[i] = reads[i].value
          /\ \A i \in 1..Len(reads) : ~(i <= LastRead(reads)) => io.value[i] = Zero
      BY <1>1, InOrderFacts
    <2> HIDE DEF io
    <2>2. io.value[1] = p.value
      BY <1>1, <1>3, <2>1
    <2>3. p.ok => io.value[2] = q.value
      BY <1>1, <1>3, <2>1
    <2>4. ~p.ok => io.value[2] = Zero
      BY <1>1, <1>3, <2>1
    <2> QED
      BY <2>2, <2>3, <2>4
  <1>5. io.ok \in BOOLEAN /\ io.ok = (p.ok /\ q.ok)
    <2>1. io.ok \in BOOLEAN /\ (io.ok <=> \A i \in 1..2 : reads[i].ok)
      BY <1>1, InOrderFacts
    <2> HIDE DEF io
    <2> QED
      BY <1>1, <2>1 DEF IsResult
  <1>6. io.took = FlattenSeq([i \in 1..LastRead(reads) |-> reads[i].took])
    BY <1>1, InOrderFacts
  <1>7. p.took \in Seq(Tokens) /\ q.took \in Seq(Tokens)
    BY DEF IsResult
  <1>8. ASSUME p.ok PROVE io.took = p.took \o q.took
    <2>1. [i \in 1..LastRead(reads) |-> reads[i].took] = <<p.took, q.took>>
      BY <1>1, <1>3, <1>8
    <2> QED
      BY <1>6, <1>7, <2>1, FlattenTwo
  <1>9. ASSUME ~p.ok PROVE io.took = p.took
    <2>1. [i \in 1..LastRead(reads) |-> reads[i].took] = <<p.took>>
      BY <1>1, <1>3, <1>9
    <2> QED
      BY <1>6, <1>7, <2>1, FlattenOne
  <1>10. io.took = IF p.ok THEN p.took \o q.took ELSE p.took
    BY <1>8, <1>9
  <1>11. io = Result(io.value, io.ok, io.took)
    BY <1>1, InOrderFacts
  <1>12. io.took \in Seq(Tokens)
    BY <1>7, <1>10
  <1>13. IsResult(io)
    BY <1>5, <1>11, <1>12 DEF IsResult
  <1> QED
    BY <1>4, <1>5, <1>10, <1>13 DEF reads

(* Three reads, each made when those before it succeed.                    *)
LEMMA InOrderThree ==
  ASSUME NEW p, IsResult(p), NEW q, IsResult(q), NEW s, IsResult(s), NEW Zero
  PROVE  /\ InOrder(<<p, q, s>>, Zero).value[1] = p.value
         /\ InOrder(<<p, q, s>>, Zero).value[2] = IF p.ok THEN q.value ELSE Zero
         /\ InOrder(<<p, q, s>>, Zero).value[3] = IF p.ok /\ q.ok THEN s.value ELSE Zero
         /\ InOrder(<<p, q, s>>, Zero).took
              = IF ~p.ok THEN p.took ELSE IF ~q.ok THEN p.took \o q.took
                                          ELSE (p.took \o q.took) \o s.took
         /\ InOrder(<<p, q, s>>, Zero).ok = (p.ok /\ q.ok /\ s.ok)
         /\ IsResult(InOrder(<<p, q, s>>, Zero))
  <1> DEFINE reads == <<p, q, s>>
             io == InOrder(reads, Zero)
  <1>1. IsList(reads) /\ Len(reads) = 3 /\ reads[1] = p /\ reads[2] = q /\ reads[3] = s
    BY DEF IsList
  <1> HIDE DEF reads
  <1>2. /\ LastRead(reads) \in 0..3
        /\ 1 < LastRead(reads) => p.ok
        /\ 2 < LastRead(reads) => q.ok
        /\ \/ LastRead(reads) = 3 /\ p.ok /\ q.ok /\ s.ok
           \/ LastRead(reads) >= 1 /\ ~reads[LastRead(reads)].ok
    <2>1. /\ LastRead(reads) \in 0..Len(reads)
          /\ \A i \in 1..Len(reads) : i < LastRead(reads) => reads[i].ok
          /\ \/ LastRead(reads) = Len(reads) /\ \A i \in 1..Len(reads) : reads[i].ok
             \/ LastRead(reads) >= 1 /\ ~reads[LastRead(reads)].ok
      BY <1>1, LastFacts
    <2>2. /\ LastRead(reads) \in 0..3
          /\ \A i \in 1..3 : i < LastRead(reads) => reads[i].ok
          /\ \/ LastRead(reads) = 3 /\ \A i \in 1..3 : reads[i].ok
             \/ LastRead(reads) >= 1 /\ ~reads[LastRead(reads)].ok
      BY <1>1, <2>1
    <2> QED
      BY <1>1, <2>2
  <1>3. LastRead(reads) = IF ~p.ok THEN 1 ELSE IF ~q.ok THEN 2 ELSE 3
    BY <1>1, <1>2
  <1>4. /\ io.value[1] = p.value /\ io.value[2] = IF p.ok THEN q.value ELSE Zero
        /\ io.value[3] = IF p.ok /\ q.ok THEN s.value ELSE Zero
    <2>1. /\ \A i \in 1..Len(reads) : i <= LastRead(reads) => io.value[i] = reads[i].value
          /\ \A i \in 1..Len(reads) : ~(i <= LastRead(reads)) => io.value[i] = Zero
      BY <1>1, InOrderFacts
    <2> HIDE DEF io
    <2>2. io.value[1] = p.value
      BY <1>1, <1>3, <2>1
    <2>3. p.ok => io.value[2] = q.value
      BY <1>1, <1>3, <2>1
    <2>4. ~p.ok => io.value[2] = Zero
      BY <1>1, <1>3, <2>1
    <2>5. p.ok /\ q.ok => io.value[3] = s.value
      BY <1>1, <1>3, <2>1
    <2>6. ~(p.ok /\ q.ok) => io.value[3] = Zero
      BY <1>1, <1>3, <2>1
    <2> QED
      BY <2>2, <2>3, <2>4, <2>5, <2>6
  <1>5. io.ok \in BOOLEAN /\ io.ok = (p.ok /\ q.ok /\ s.ok)
    <2>1. io.ok \in BOOLEAN /\ (io.ok <=> \A i \in 1..3 : reads[i].ok)
      BY <1>1, InOrderFacts
    <2> HIDE DEF io
    <2> QED
      BY <1>1, <2>1 DEF IsResult
  <1>6. io.took = FlattenSeq([i \in 1..LastRead(reads) |-> reads[i].took])
    BY <1>1, InOrderFacts
  <1>7. p.took \in Seq(Tokens) /\ q.took \in Seq(Tokens) /\ s.took \in Seq(Tokens)
    BY DEF IsResult
  <1>8. ASSUME p.ok, q.ok PROVE io.took = (p.took \o q.took) \o s.took
    <2>1. [i \in 1..LastRead(reads) |-> reads[i].took] = <<p.took, q.took, s.took>>
      BY <1>1, <1>3, <1>8
    <2> QED
      <3> DEFINE ss == [i \in 1..LastRead(reads) |-> reads[i].took]
      <3>1. /\ ss \in Seq(Seq(Tokens)) /\ Len(ss) = 3
            /\ ss[1] = p.took /\ ss[2] = q.took /\ ss[3] = s.took
        BY <1>1, <1>3, <1>7, <1>8
      <3>2. io.took = FlattenSeq(ss)
        BY <1>6
      <3> HIDE DEF ss, io
      <3>3. FlattenSeq(ss) = (ss[1] \o ss[2]) \o ss[3]
        BY <3>1, FlattenThree
      <3> QED
        BY <3>1, <3>2, <3>3
  <1>9. ASSUME ~p.ok PROVE io.took = p.took
    <2>1. [i \in 1..LastRead(reads) |-> reads[i].took] = <<p.took>>
      BY <1>1, <1>3, <1>9
    <2> QED
      BY <1>6, <1>7, <2>1, FlattenOne
  <1>a. ASSUME p.ok, ~q.ok PROVE io.took = p.took \o q.took
    <2>1. [i \in 1..LastRead(reads) |-> reads[i].took] = <<p.took, q.took>>
      BY <1>1, <1>3, <1>a
    <2> QED
      BY <1>6, <1>7, <2>1, FlattenTwo
  <1>10. io.took = IF ~p.ok THEN p.took ELSE IF ~q.ok THEN p.took \o q.took
                                             ELSE (p.took \o q.took) \o s.took
    BY <1>8, <1>9, <1>a
  <1>11. io = Result(io.value, io.ok, io.took)
    BY <1>1, InOrderFacts
  <1>12. io.took \in Seq(Tokens)
    <2>1. /\ p.took \o q.took \in Seq(Tokens)
          /\ (p.took \o q.took) \o s.took \in Seq(Tokens)
      BY <1>7
    <2> QED
      BY <1>7, <1>10, <2>1
  <1>13. IsResult(io)
    BY <1>5, <1>11, <1>12 DEF IsResult
  <1> QED
    BY <1>4, <1>5, <1>10, <1>13 DEF reads

(* The context when the classes are read.                                  *)
Strs == {Str(n) : n \in Nat}

(* The prototypes.                                                         *)
Protos == {Proto(p) : p \in Nat}

(* A context whose entries are there: strings, prototypes and the          *)
(* references of the members.                                              *)
Ctx(c) ==
  /\ IsList(c.strs) /\ \A i \in 1..Len(c.strs) : c.strs[i] \in Strs
  /\ IsList(c.types) /\ \A i \in 1..Len(c.types) : c.types[i] \in Strs
  /\ IsList(c.protos) /\ \A i \in 1..Len(c.protos) : c.protos[i] \in Protos
  /\ IsList(c.fields)
  /\ \A i \in 1..Len(c.fields) :
       /\ c.fields[i].defining_class \in Strs
       /\ c.fields[i].type \in Strs /\ c.fields[i].name \in Strs
  /\ IsList(c.methods)
  /\ \A i \in 1..Len(c.methods) :
       /\ c.methods[i].defining_class \in Strs
       /\ c.methods[i].prototype \in Protos /\ c.methods[i].name \in Strs

(* Strings and prototypes are tokens.                                      *)
LEMMA RefTokens == Strs \subseteq Tokens /\ Protos \subseteq Tokens
  <1>1. "str" \in Kinds /\ "proto" \in Kinds
    BY DEF Kinds
  <1>2. \A n \in Nat : Str(n) \in Tokens /\ Proto(n) \in Tokens
    BY <1>1 DEF Str, Proto, Tokens
  <1> QED
    BY <1>2 DEF Strs, Protos

(* A reference is released, NULL is not.                                   *)
LEMMA FreeRefFacts ==
  ASSUME NullApart
  PROVE  /\ FreeRef(NULL) = << >>
         /\ \A t \in Tokens : FreeRef(t) = <<t>> /\ FreeRef(t) \in Seq(Tokens)
  BY NotNull DEF FreeRef

(* A reference copied from a section is released with its structure; an    *)
(* index outside of the section copies nothing.                            *)
LEMMA ReadRefPaid ==
  ASSUME NullApart, NEW exact, NEW section, IsList(section),
         \A i \in 1..Len(section) : section[i] \in Tokens, NEW at
  PROVE  /\ IsResult(ReadRef(section, at))
         /\ Paid(ReadRef(section, at).took, FreeRef(ReadRef(section, at).value), exact)
         /\ ReadRef(section, at).ok <=> at \in 1..Len(section)
         /\ ReadRef(section, at).ok => ReadRef(section, at).value = section[at]
         /\ ~ReadRef(section, at).ok => ReadRef(section, at) = Failed(NULL)
  <1>1. DOMAIN section = 1..Len(section)
    BY ListFacts
  <1>2. CASE at \in 1..Len(section)
    <2>1. ReadRef(section, at) = Result(section[at], TRUE, <<section[at]>>)
      BY <1>1, <1>2 DEF ReadRef, Done
    <2>2. <<section[at]>> \in Seq(Tokens) /\ FreeRef(section[at]) = <<section[at]>>
      BY <1>2, FreeRefFacts
    <2>3. Paid(<<section[at]>>, <<section[at]>>, exact)
      BY <2>2, PaidSame
    <2> QED
      BY <1>2, <2>1, <2>2, <2>3 DEF Result, IsResult
  <1>3. CASE at \notin 1..Len(section)
    <2>1. ReadRef(section, at) = Result(NULL, FALSE, << >>) /\ ReadRef(section, at) = Failed(NULL)
      BY <1>1, <1>3 DEF ReadRef, Failed
    <2>2. << >> \in Seq(Tokens)
      OBVIOUS
    <2>3. Paid(<< >>, << >>, exact)
      BY <2>2, PaidSame
    <2> QED
      BY <1>3, <2>1, <2>2, <2>3, FreeRefFacts DEF Result, IsResult
  <1> QED
    BY <1>2, <1>3

(* r acquires what is freed of its value; exactly that, if exact.          *)
Pays(r, free, exact) == IsResult(r) /\ Paid(r.took, free, exact)

(* Nothing pays for nothing.                                               *)
LEMMA NoTokens == << >> \in Seq(Tokens) /\ \A exact : Paid(<< >>, << >>, exact)
  <1>1. << >> \in Seq(Tokens)
    OBVIOUS
  <1> QED
    BY <1>1, PaidSame

(* The parts of a result.                                                  *)
LEMMA ResultFields ==
  ASSUME NEW v, NEW k, NEW t
  PROVE  Result(v, k, t).value = v /\ Result(v, k, t).ok = k /\ Result(v, k, t).took = t
  BY DEF Result

(* A result pays when what it took does.                                   *)
LEMMA ResultPays ==
  ASSUME NEW v, NEW k \in BOOLEAN, NEW t, NEW free, NEW exact, Paid(t, free, exact)
  PROVE  Pays(Result(v, k, t), free, exact)
  <1>1. t \in Seq(Tokens)
    BY DEF Paid
  <1> QED
    BY <1>1, ResultFields DEF Pays, IsResult

(* A read that fails at once took nothing.                                 *)
LEMMA FailedPays ==
  ASSUME NEW v, NEW exact
  PROVE  /\ Pays(Failed(v), << >>, exact)
         /\ Failed(v).value = v /\ Failed(v).ok = FALSE /\ Failed(v).took = << >>
  <1>1. Failed(v) = Result(v, FALSE, << >>)
    BY DEF Failed
  <1>2. Pays(Result(v, FALSE, << >>), << >>, exact)
    BY NoTokens, ResultPays
  <1>3. /\ Failed(v).value = v /\ Failed(v).ok = FALSE /\ Failed(v).took = << >>
    BY DEF Failed, Result
  <1> QED
    BY <1>1, <1>2, <1>3

(* A read that succeeds is paid for by the release of all it took.         *)
LEMMA DonePays ==
  ASSUME NEW v, NEW t \in Seq(Tokens), NEW exact
  PROVE  /\ Pays(Done(v, t), t, exact)
         /\ Done(v, t).value = v /\ Done(v, t).ok = TRUE /\ Done(v, t).took = t
  <1>1. Done(v, t) = Result(v, TRUE, t)
    BY DEF Done
  <1>2. Paid(t, t, exact)
    BY PaidSame
  <1>3. Pays(Result(v, TRUE, t), t, exact)
    BY <1>2, ResultPays
  <1>4. /\ Done(v, t).value = v /\ Done(v, t).ok = TRUE /\ Done(v, t).took = t
    BY DEF Done, Result
  <1> QED
    BY <1>1, <1>3, <1>4

(* What was acquired before a read is released before or behind its        *)
(* structure.                                                              *)
LEMMA AfterPays ==
  ASSUME NEW exact, NEW r, NEW free, Pays(r, free, exact), NEW refs \in Seq(Tokens)
  PROVE  /\ Pays(After(refs, r), free \o refs, exact)
         /\ Pays(After(refs, r), refs \o free, exact)
         /\ After(refs, r).value = r.value /\ After(refs, r).ok = r.ok
         /\ After(refs, r).took = refs \o r.took
  <1>1. IsResult(r) /\ Paid(r.took, free, exact)
    BY DEF Pays
  <1>2. r = Result(r.value, r.ok, r.took) /\ r.ok \in BOOLEAN /\ r.took \in Seq(Tokens)
    BY <1>1 DEF IsResult
  <1>3. After(refs, r) = Result(r.value, r.ok, refs \o r.took)
    <2>1. PICK a, b, t : a = r.value /\ b = r.ok /\ t = r.took
      OBVIOUS
    <2>2. r = [value |-> a, ok |-> b, took |-> t]
      BY <1>2, <2>1 DEF Result
    <2>3. After(refs, r) = [value |-> a, ok |-> b, took |-> refs \o t]
      <3>1. r.took = t /\ After(refs, r) = [r EXCEPT !.took = refs \o @]
        BY <2>1 DEF After
      <3>2. [r EXCEPT !.took = refs \o @] = [r EXCEPT !.took = refs \o t]
        BY <3>1
      <3>3. PICK u : u = refs \o t
        OBVIOUS
      <3>4. [r EXCEPT !.took = u] = [value |-> a, ok |-> b, took |-> u]
        BY <2>2
      <3> QED
        BY <3>1, <3>2, <3>3, <3>4
    <2> QED
      BY <2>1, <2>3 DEF Result
  <1>4. Paid(refs, refs, exact)
    BY PaidSame
  <1>5. Paid(refs \o r.took, free \o refs, exact) /\ Paid(refs \o r.took, refs \o free, exact)
    BY <1>1, <1>4, PaidTurn, PaidCat
  <1> QED
    <2>1. /\ Pays(Result(r.value, r.ok, refs \o r.took), free \o refs, exact)
          /\ Pays(Result(r.value, r.ok, refs \o r.took), refs \o free, exact)
      BY <1>2, <1>5, ResultPays
    <2>2. PICK a, b, t : a = r.value /\ b = r.ok /\ t = refs \o r.took
      OBVIOUS
    <2>3. After(refs, r) = [value |-> a, ok |-> b, took |-> t]
      BY <1>3, <2>2 DEF Result
    <2>4. After(refs, r).value = a /\ After(refs, r).ok = b /\ After(refs, r).took = t
      BY <2>3
    <2> QED
      BY <1>3, <2>1, <2>2, <2>4

(* An array pays when each element that was read pays, when a zero frees   *)
(* nothing, and, to be exact, when the loop stops at elements that failed  *)
(* only.                                                                   *)
LEMMA ArrayPays ==
  ASSUME NEW exact, NEW reads, IsList(reads), NEW Zero, NEW kind \in Kinds,
         NEW v, v = ReadArray(reads, Zero, kind).value,
         NEW tt, IsList(tt), Len(tt) = Len(reads), NEW ends \in SUBSET DOMAIN tt,
         \A i \in 1..Len(reads) : v[i] = reads[i].value => Paid(reads[i].took, tt[i], exact),
         \A i \in 1..Len(reads) : v[i] = Zero => tt[i] = << >>,
         exact => \A e \in ends : v[e] = reads[e].value => ~reads[e].ok /\ tt[e] = << >>
  PROVE  Pays(ReadArray(reads, Zero, kind), FlattenSeq(UpTo(tt, ends)) \o <<Block(kind)>>, exact)
  <1>1. DOMAIN tt = 1..Len(reads)
    BY ListFacts
  <1>2. /\ \A i \in 1..Len(reads) : i <= LastRead(reads) => v[i] = reads[i].value
        /\ \A i \in 1..Len(reads) : ~(i <= LastRead(reads)) => v[i] = Zero
    BY ReadArrayFacts
  <1>3. \A i \in 1..Len(reads) : i <= LastRead(reads) => Paid(reads[i].took, tt[i], exact)
    BY <1>2
  <1>4. \A i \in 1..Len(reads) : ~(i <= LastRead(reads)) => tt[i] = << >>
    BY <1>2
  <1>5. exact => \A e \in ends : e <= LastRead(reads) => ~reads[e].ok /\ tt[e] = << >>
    BY <1>1, <1>2
  <1>6. Paid(ReadArray(reads, Zero, kind).took, FlattenSeq(UpTo(tt, ends)) \o <<Block(kind)>>, exact)
    BY <1>3, <1>4, <1>5, ReadArrayPaid
  <1>7. /\ ReadArray(reads, Zero, kind).ok \in BOOLEAN
        /\ ReadArray(reads, Zero, kind) = Result(ReadArray(reads, Zero, kind).value,
               ReadArray(reads, Zero, kind).ok, ReadArray(reads, Zero, kind).took)
    BY ReadArrayFacts
  <1> QED
    BY <1>6, <1>7 DEF Pays, IsResult, Paid

(* The references of an index are tokens.                                  *)
LEMMA RefsTokens ==
  ASSUME NEW c, Ctx(c), NEW section \in RefTypes, NEW at \in Indexes(c, section)
  PROVE  Refs(c, section, at) \in Seq(Tokens)
  <1>1. CASE section = "string"
    <2>1. at \in 1..Len(c.strs)
      BY <1>1, ListFacts DEF Indexes, Ctx
    <2>2. c.strs[at] \in Tokens
      BY <2>1, RefTokens DEF Ctx
    <2>3. Refs(c, section, at) = <<c.strs[at]>>
      BY <1>1 DEF Refs
    <2> QED
      BY <2>2, <2>3
  <1>2. CASE section = "type"
    <2>1. at \in 1..Len(c.types)
      BY <1>2, ListFacts DEF Indexes, Ctx
    <2>2. c.types[at] \in Tokens
      BY <2>1, RefTokens DEF Ctx
    <2>3. Refs(c, section, at) = <<c.types[at]>>
      BY <1>2 DEF Refs
    <2> QED
      BY <2>2, <2>3
  <1>3. CASE section \in {"field", "enum"}
    <2>1. at \in 1..Len(c.fields)
      BY <1>3, ListFacts DEF Indexes, Ctx
    <2>2. /\ c.fields[at].defining_class \in Tokens /\ c.fields[at].type \in Tokens
          /\ c.fields[at].name \in Tokens
      BY <2>1, RefTokens DEF Ctx
    <2>3. Refs(c, section, at) = RawFieldRefs(c.fields[at])
      BY <1>3 DEF Refs
    <2> QED
      BY <2>2, <2>3 DEF RawFieldRefs
  <1>4. CASE section = "method"
    <2>1. at \in 1..Len(c.methods)
      BY <1>4, ListFacts DEF Indexes, Ctx
    <2>2. /\ c.methods[at].defining_class \in Tokens /\ c.methods[at].prototype \in Tokens
          /\ c.methods[at].name \in Tokens
      BY <2>1, RefTokens DEF Ctx
    <2>3. Refs(c, section, at) = RawMethodRefs(c.methods[at])
      BY <1>4 DEF Refs
    <2> QED
      BY <2>2, <2>3 DEF RawMethodRefs
  <1> QED
    BY <1>1, <1>2, <1>3, <1>4 DEF RefTypes

(* A result whose value is replaced.                                       *)
LEMMA FillResult ==
  ASSUME NEW r, IsResult(r), NEW w
  PROVE  [r EXCEPT !.value = w] = Result(w, r.ok, r.took)
  <1>1. PICK a, b, t : a = r.value /\ b = r.ok /\ t = r.took
    OBVIOUS
  <1>2. r = [value |-> a, ok |-> b, took |-> t]
    BY <1>1 DEF IsResult, Result
  <1>3. [r EXCEPT !.value = w] = [value |-> w, ok |-> b, took |-> t]
    BY <1>2
  <1> QED
    BY <1>1, <1>3 DEF Result

(* ReadValue pays for the value val, which is not the sentinel of an array. *)
ValuePays(c, val, exact) ==
  /\ Pays(ReadValue(c, val), FreeValue(ReadValue(c, val).value), exact)
  /\ ReadValue(c, val).value.type # "sentinel"

(* An array of values that pay, pays.                                      *)
LEMMA ValueArrayPays ==
  ASSUME NullApart, FreeValue(ZeroValue) = << >>, NEW exact, NEW c, NEW values, IsList(values),
         \A i \in 1..Len(values) : ValuePays(c, values[i], exact)
  PROVE  /\ Pays(ReadValueArray(c, values), FreeValues(ReadValueArray(c, values).value), exact)
         /\ IsList(ReadValueArray(c, values).value)
         /\ ReadValueArray(c, values).ok <=> \A i \in 1..Len(values) : ReadValue(c, values[i]).ok
  <1> DEFINE reads == [i \in DOMAIN values |-> ReadValue(c, values[i])]
             v == ReadArray(reads, ZeroValue, "values").value
             tt == [i \in DOMAIN v |-> FreeValue(v[i])]
             ends == {i \in DOMAIN v : v[i].type = "sentinel"}
  <1>1. DOMAIN values = 1..Len(values) /\ Len(values) \in Nat
    BY ListFacts
  <1>2. IsList(reads) /\ Len(reads) = Len(values)
    BY <1>1, ListOf
  <1>3. "values" \in Kinds
    BY DEF Kinds
  <1>a. \A i \in 1..Len(reads) : reads[i] = ReadValue(c, values[i])
    BY <1>1, <1>2
  <1>b. ReadValueArray(c, values) = ReadArray(reads, ZeroValue, "values")
    BY DEF ReadValueArray, ReadValueArrayBy
  <1> HIDE DEF reads
  <1>4. IsList(v) /\ Len(v) = Len(reads)
    BY <1>2, ReadArrayFacts
  <1>5. DOMAIN v = 1..Len(reads)
    BY <1>4, ListFacts
  <1>6. IsList(tt) /\ Len(tt) = Len(reads) /\ DOMAIN tt = 1..Len(reads)
    BY <1>1, <1>2, <1>5, ListOf
  <1>7. ASSUME NEW i \in 1..Len(reads), v[i] = reads[i].value
        PROVE  Paid(reads[i].took, tt[i], exact) /\ i \notin ends
    <2>1. ValuePays(c, values[i], exact)
      BY <1>2
    <2> QED
      BY <1>5, <1>7, <1>a, <2>1 DEF ValuePays, Pays
  <1>8. ASSUME NEW i \in 1..Len(reads), v[i] = ZeroValue PROVE tt[i] = << >>
    BY <1>5, <1>8
  <1>9. FreeValues(v) = FlattenSeq(UpTo(tt, ends)) \o <<Block("values")>>
    BY <1>4, NotNull DEF FreeValues, FreeValuesBy, FreeArray
  <1>10. ends \in SUBSET DOMAIN tt
    BY <1>5, <1>6
  <1>11. exact => \A e \in ends : v[e] = reads[e].value => ~reads[e].ok /\ tt[e] = << >>
    BY <1>5, <1>7
  <1> HIDE DEF tt, ends
  <1>12. Pays(ReadArray(reads, ZeroValue, "values"),
              FlattenSeq(UpTo(tt, ends)) \o <<Block("values")>>, exact)
    <2> DEFINE z == v
    <2>1. z = ReadArray(reads, ZeroValue, "values").value
      OBVIOUS
    <2> HIDE DEF z
    <2>2. /\ \A i \in 1..Len(reads) : z[i] = reads[i].value => Paid(reads[i].took, tt[i], exact)
          /\ \A i \in 1..Len(reads) : z[i] = ZeroValue => tt[i] = << >>
          /\ exact => \A e \in ends : z[e] = reads[e].value => ~reads[e].ok /\ tt[e] = << >>
      BY <1>7, <1>8, <1>11 DEF z
    <2> QED
      BY <1>2, <1>3, <1>6, <1>10, <2>1, <2>2, ArrayPays
  <1>13. ReadArray(reads, ZeroValue, "values").ok <=> \A i \in 1..Len(reads) : reads[i].ok
    BY <1>2, ReadArrayFacts
  <1> QED
    BY <1>2, <1>4, <1>9, <1>12, <1>13, <1>a, <1>b

(* A parameter of an annotation pays; one without a name failed and holds  *)
(* nothing.                                                                *)
LEMMA ParameterPays ==
  ASSUME NullApart, FreeValue(ZeroValue) = << >>, NEW exact, NEW c, Ctx(c), NEW p,
         ValuePays(c, p.value, exact)
  PROVE  /\ Pays(ReadParameter(c, p, ReadValue),
                 FreeParameter(ReadParameter(c, p, ReadValue).value, FreeValue), exact)
         /\ ReadParameter(c, p, ReadValue).value.name = NULL
              => /\ ~ReadParameter(c, p, ReadValue).ok
                 /\ FreeParameter(ReadParameter(c, p, ReadValue).value, FreeValue) = << >>
         /\ ReadParameter(c, p, ReadValue).ok
              <=> p.name \in 1..Len(c.strs) /\ ReadValue(c, p.value).ok
  <1> DEFINE a == ReadRef(c.strs, p.name)
             b == ReadValue(c, p.value)
             io == InOrder(<<a, b>>, ZeroValue)
             w == [name |-> io.value[1], value |-> io.value[2]]
  <1>1. IsList(c.strs) /\ \A i \in 1..Len(c.strs) : c.strs[i] \in Tokens
    BY RefTokens DEF Ctx
  <1>2. /\ IsResult(a) /\ Paid(a.took, FreeRef(a.value), exact)
        /\ a.ok <=> p.name \in 1..Len(c.strs)
        /\ a.ok => a.value = c.strs[p.name]
        /\ ~a.ok => a = Failed(NULL)
    BY <1>1, ReadRefPaid
  <1>3. IsResult(b) /\ Paid(b.took, FreeValue(b.value), exact)
    BY DEF ValuePays, Pays
  <1>b. ReadParameter(c, p, ReadValue) = [io EXCEPT !.value = w]
    BY DEF ReadParameter, Fill
  <1> HIDE DEF a, b
  <1>4. /\ io.value[1] = a.value
        /\ io.value[2] = IF a.ok THEN b.value ELSE ZeroValue
        /\ io.took = IF a.ok THEN a.took \o b.took ELSE a.took
        /\ io.ok = (a.ok /\ b.ok)
        /\ IsResult(io)
    BY <1>2, <1>3, InOrderTwo
  <1> HIDE DEF io
  <1>5. ReadParameter(c, p, ReadValue) = Result(w, io.ok, io.took)
    BY <1>4, <1>b, FillResult
  <1>6. FreeParameter(w, FreeValue) = FreeRef(io.value[1]) \o FreeValue(io.value[2])
    BY DEF FreeParameter
  <1>7. w.name = io.value[1]
    OBVIOUS
  <1> HIDE DEF w
  <1>8. Paid(io.took, FreeParameter(w, FreeValue), exact)
        /\ (~a.ok => FreeParameter(w, FreeValue) = << >>)
    <2>1. CASE a.ok
      BY <1>2, <1>3, <1>4, <1>6, <2>1, PaidCat
    <2>2. CASE ~a.ok
      <3>1. a.value = NULL /\ a.took = << >>
        BY <1>2, <2>2, FailedPays
      <3>2. io.took = << >> /\ FreeParameter(w, FreeValue) = << >> \o << >>
        BY <1>4, <1>6, <2>2, <3>1, FreeRefFacts
      <3> QED
        BY <2>2, <3>2, NoTokens
    <2> QED
      BY <2>1, <2>2
  <1>9. w.name = NULL => ~a.ok
    <2>1. a.ok => a.value \in Tokens
      BY <1>1, <1>2
    <2> QED
      BY <1>4, <1>7, <2>1, NotNull
  <1>10. io.ok \in BOOLEAN
    BY <1>4 DEF IsResult
  <1>11. Pays(Result(w, io.ok, io.took), FreeParameter(w, FreeValue), exact)
    BY <1>8, <1>10, ResultPays
  <1>12. ReadParameter(c, p, ReadValue).value = w /\ ReadParameter(c, p, ReadValue).ok = io.ok
    BY <1>5 DEF Result
  <1> QED
    BY <1>2, <1>4, <1>5, <1>8, <1>9, <1>11, <1>12 DEF b

(* The types and the names of an annotation are in c, its values are read. *)
AnnotationReadable(c, an) ==
  /\ an # NULL /\ an.type \in 1..Len(c.types)
  /\ \A i \in 1..Len(an.parameters) :
       an.parameters[i].name \in 1..Len(c.strs) /\ ReadValue(c, an.parameters[i].value).ok

(* An annotation whose values pay, pays; one without parameters failed and *)
(* holds nothing; it is read whole if and only if it is readable.          *)
LEMMA AnnotationPays ==
  ASSUME NullApart, FreeValue(ZeroValue) = << >>, NEW exact, NEW c, Ctx(c), NEW an,
         an # NULL => IsList(an.parameters)
                      /\ \A i \in 1..Len(an.parameters) : ValuePays(c, an.parameters[i].value, exact)
  PROVE  /\ Pays(ReadEncodedAnnotation(c, an), FreeAnnotation(ReadEncodedAnnotation(c, an).value),
                 exact)
         /\ ReadEncodedAnnotation(c, an).value.parameters = NULL
              => /\ ~ReadEncodedAnnotation(c, an).ok
                 /\ FreeAnnotation(ReadEncodedAnnotation(c, an).value) = << >>
         /\ ReadEncodedAnnotation(c, an).ok <=> AnnotationReadable(c, an)
  <1>1. IsList(c.types) /\ \A i \in 1..Len(c.types) : c.types[i] \in Tokens
    BY RefTokens DEF Ctx
  <1>2. DOMAIN c.types = 1..Len(c.types)
    BY <1>1, ListFacts
  <1>3. CASE an = NULL \/ an.type \notin 1..Len(c.types)
    <2>1. ReadEncodedAnnotation(c, an) = Failed(ZeroAnnotation)
      BY <1>2, <1>3 DEF ReadEncodedAnnotation, ReadEncodedAnnotationBy
    <2>2. ZeroAnnotation.parameters = NULL /\ ZeroAnnotation.type = NULL
      BY DEF ZeroAnnotation
    <2>3. FreeAnnotation(ZeroAnnotation) = << >>
      <3>1. FreeAnnotation(ZeroAnnotation) = << >> \o FreeRef(NULL)
        BY <2>2 DEF FreeAnnotation, FreeAnnotationBy, FreeArray
      <3> QED
        BY <3>1, FreeRefFacts
    <2>4. ~AnnotationReadable(c, an)
      BY <1>3 DEF AnnotationReadable
    <2>5. Pays(Failed(ZeroAnnotation), << >>, exact) /\ Failed(ZeroAnnotation).ok = FALSE
          /\ Failed(ZeroAnnotation).value = ZeroAnnotation
      BY FailedPays
    <2> QED
      BY <2>1, <2>3, <2>4, <2>5
  <1>4. CASE ~(an = NULL \/ an.type \notin 1..Len(c.types))
    <2> DEFINE reads == [i \in DOMAIN an.parameters |-> ReadParameter(c, an.parameters[i], ReadValue)]
               ra == ReadArray(reads, ZeroParameter, "parameters")
               v == ReadArray(reads, ZeroParameter, "parameters").value
               tt == [i \in DOMAIN v |-> FreeParameter(v[i], FreeValue)]
               ends == {i \in DOMAIN v : v[i].name = NULL}
               t == c.types[an.type]
               w == [type |-> t, parameters |-> v]
    <2>1. IsList(an.parameters) /\ DOMAIN an.parameters = 1..Len(an.parameters) /\ Len(an.parameters) \in Nat
      BY <1>4, ListFacts
    <2>2. IsList(reads) /\ Len(reads) = Len(an.parameters)
      BY <2>1, ListOf
    <2>3. "parameters" \in Kinds
      BY DEF Kinds
    <2>4. \A i \in 1..Len(reads) : reads[i] = ReadParameter(c, an.parameters[i], ReadValue)
      BY <2>1, <2>2
    <2>5. ReadEncodedAnnotation(c, an) = After(<<t>>, [ra EXCEPT !.value = w])
      BY <1>2, <1>4 DEF ReadEncodedAnnotation, ReadEncodedAnnotationBy, Fill
    <2>6. t \in Tokens /\ <<t>> \in Seq(Tokens) /\ FreeRef(t) = <<t>>
      BY <1>1, <1>4, FreeRefFacts
    <2> HIDE DEF reads, t
    <2>7. IsList(v) /\ Len(v) = Len(reads) /\ DOMAIN v = 1..Len(reads) /\ v # NULL
      BY <2>2, ReadArrayFacts, ListFacts, NotNull
    <2>8. IsList(tt) /\ Len(tt) = Len(reads) /\ DOMAIN tt = 1..Len(reads)
      BY <2>1, <2>2, <2>7, ListOf
    <2>9. FreeParameter(ZeroParameter, FreeValue) = << >>
      <3>1. FreeParameter(ZeroParameter, FreeValue) = FreeRef(NULL) \o FreeValue(ZeroValue)
        BY DEF FreeParameter, ZeroParameter
      <3>2. FreeRef(NULL) = << >> /\ << >> \o << >> = << >>
        BY FreeRefFacts
      <3> QED
        BY <3>1, <3>2
    <2>10. ASSUME NEW i \in 1..Len(reads), v[i] = reads[i].value
           PROVE  /\ Paid(reads[i].took, tt[i], exact)
                  /\ i \in ends => ~reads[i].ok /\ tt[i] = << >>
      <3>1. ValuePays(c, an.parameters[i].value, exact)
        BY <1>4, <2>2
      <3> DEFINE p == an.parameters[i]
                 rp == ReadParameter(c, an.parameters[i], ReadValue)
      <3>2. /\ Pays(rp, FreeParameter(rp.value, FreeValue), exact)
            /\ rp.value.name = NULL => ~rp.ok /\ FreeParameter(rp.value, FreeValue) = << >>
        BY <3>1, ParameterPays
      <3>3. reads[i] = rp
        BY <2>4
      <3> HIDE DEF rp
      <3> QED
        BY <2>7, <2>10, <3>2, <3>3 DEF Pays
    <2>11. ASSUME NEW i \in 1..Len(reads), v[i] = ZeroParameter PROVE tt[i] = << >>
      BY <2>7, <2>9, <2>11
    <2>12. FreeAnnotation(w) = (FlattenSeq(UpTo(tt, ends)) \o <<Block("parameters")>>) \o FreeRef(t)
      BY <2>7 DEF FreeAnnotation, FreeAnnotationBy, FreeArray
    <2>13. ends \in SUBSET DOMAIN tt
      BY <2>7, <2>8
    <2>14. exact => \A e \in ends : v[e] = reads[e].value => ~reads[e].ok /\ tt[e] = << >>
      BY <2>7, <2>10
    <2>15. w.parameters # NULL
      BY <2>7
    <2> HIDE DEF tt, ends, w
    <2> DEFINE z == v
    <2>a. z = ReadArray(reads, ZeroParameter, "parameters").value
      OBVIOUS
    <2>b. /\ \A i \in 1..Len(reads) : z[i] = reads[i].value => Paid(reads[i].took, tt[i], exact)
          /\ \A i \in 1..Len(reads) : z[i] = ZeroParameter => tt[i] = << >>
          /\ exact => \A e \in ends : z[e] = reads[e].value => ~reads[e].ok /\ tt[e] = << >>
      BY <2>10, <2>11, <2>14
    <2> HIDE DEF z
    <2>16. Pays(ra, FlattenSeq(UpTo(tt, ends)) \o <<Block("parameters")>>, exact)
      BY <2>2, <2>3, <2>8, <2>13, <2>a, <2>b, ArrayPays
    <2>17. ra.ok <=> \A i \in 1..Len(reads) : reads[i].ok
      BY <2>2, ReadArrayFacts
    <2> HIDE DEF ra
    <2> DEFINE free == FlattenSeq(UpTo(tt, ends)) \o <<Block("parameters")>>
               rr == Result(w, ra.ok, ra.took)
    <2>18. [ra EXCEPT !.value = w] = rr
      BY <2>16, FillResult DEF Pays
    <2>19. Pays(rr, free, exact) /\ rr.value = w /\ rr.ok = ra.ok
      <3>1. ra.ok \in BOOLEAN /\ Paid(ra.took, free, exact)
        BY <2>16 DEF Pays, IsResult
      <3> HIDE DEF free
      <3> QED
        BY <3>1, ResultPays DEF Result
    <2> HIDE DEF free, rr
    <2>20. /\ Pays(After(<<t>>, rr), free \o <<t>>, exact)
           /\ After(<<t>>, rr).value = w /\ After(<<t>>, rr).ok = ra.ok
      BY <2>6, <2>19, AfterPays
    <2>21. FreeAnnotation(w) = free \o <<t>>
      BY <2>6, <2>12 DEF free
    <2>22. ra.ok <=> AnnotationReadable(c, an)
      <3>1. ASSUME NEW i \in 1..Len(reads)
            PROVE  reads[i].ok <=> /\ an.parameters[i].name \in 1..Len(c.strs)
                                   /\ ReadValue(c, an.parameters[i].value).ok
        <4>1. ValuePays(c, an.parameters[i].value, exact)
          BY <1>4, <2>2
        <4> QED
          BY <2>4, <4>1, ParameterPays
      <3> QED
        BY <1>4, <2>2, <2>17, <3>1 DEF AnnotationReadable
    <2> QED
      BY <2>5, <2>15, <2>18, <2>20, <2>21, <2>22
  <1> QED
    BY <1>3, <1>4

(* The value that memory filled with zeros is holds nothing.               *)
LEMMA ZeroValueFree ==
  ASSUME FreeValue(ZeroValue) = FreeValueBody(ZeroValue)
  PROVE  FreeValue(ZeroValue) = << >> /\ ZeroValue.type # "sentinel"
  BY DEF FreeValueBody, FreeValueOf, ZeroValue, RefTypes

(* A value pays when the values in it do.                                  *)
LEMMA OneValuePays ==
  ASSUME NullApart, NEW exact, NEW c, Ctx(c), NEW V, NEW Depth, ValuesShape(V, Depth), ValueCode(V),
         NEW R, R \subseteq V, Readable(c, R),
         exact => \A v \in V : v.type \in {"array", "annotation"} => v \in R,
         NEW val \in V,
         \A u \in V : Depth[u] < Depth[val] =>
                        ValuePays(c, u, exact) /\ (u \in R => ReadValue(c, u).ok)
  PROVE  ValuePays(c, val, exact) /\ (val \in R => ReadValue(c, val).ok)
  <1> DEFINE rv == ReadValue(c, val)
  <1>0. FreeValue(ZeroValue) = << >> /\ ZeroValue.type # "sentinel"
    BY ZeroValueFree DEF ValueCode
  <1>1. /\ rv = ReadValueBody(c, val)
        /\ FreeValue(rv.value) = FreeValueBody(rv.value)
    BY DEF ValueCode
  <1>2. /\ val.type \in RefTypes \cup {"array", "annotation", "scalar", "unreadable"}
        /\ val.type = "array" =>
             IsList(val.array) /\ \A i \in 1..Len(val.array) :
                                    val.array[i] \in V /\ Depth[val.array[i]] < Depth[val]
        /\ val.type = "annotation" => AnnotationShape(val.annotation, {u \in V : Depth[u] < Depth[val]})
    BY DEF ValuesShape
  <1>3. \A v, k, t : Result(v, k, t).value = v /\ Result(v, k, t).took = t
    BY ResultFields
  <1>4. ASSUME rv = Failed(ZeroValue) PROVE ValuePays(c, val, exact)
    <2>1. Pays(Failed(ZeroValue), << >>, exact) /\ Failed(ZeroValue).value = ZeroValue
      BY FailedPays
    <2> QED
      BY <1>0, <1>4, <2>1 DEF ValuePays
  <1>5. CASE val.type \in RefTypes
    <2>1. "array" \notin RefTypes /\ "annotation" \notin RefTypes /\ "scalar" \notin RefTypes
          /\ "unreadable" \notin RefTypes /\ "sentinel" \notin RefTypes
      BY DEF RefTypes
    <2>2. CASE val.idx \in Indexes(c, val.type)
      <3> DEFINE t == Refs(c, val.type, val.idx)
                 w == [type |-> val.type, refs |-> t]
      <3>1. rv = Done(w, t)
        BY <1>1, <1>5, <2>1, <2>2 DEF ReadValueBody, ReadValueOf
      <3>2. t \in Seq(Tokens)
        BY <1>5, <2>2, RefsTokens
      <3>3. FreeValueBody(w) = t /\ w.type # "sentinel"
        BY <1>5, <2>1 DEF FreeValueBody, FreeValueOf
      <3> HIDE DEF t, w, rv
      <3>4. Pays(Done(w, t), t, exact) /\ Done(w, t).value = w /\ Done(w, t).ok = TRUE
        BY <3>2, DonePays
      <3>5. ValuePays(c, val, exact)
        BY <1>1, <3>1, <3>3, <3>4 DEF ValuePays, rv
      <3> QED
        BY <3>1, <3>4, <3>5 DEF rv
    <2>3. CASE val.idx \notin Indexes(c, val.type)
      <3>1. rv = Failed(ZeroValue)
        BY <1>1, <1>5, <2>1, <2>3 DEF ReadValueBody, ReadValueOf
      <3>2. val \notin R
        BY <1>5, <2>3 DEF Readable
      <3> QED
        BY <1>4, <3>1, <3>2
    <2> QED
      BY <2>2, <2>3
  <1>6. CASE val.type = "scalar"
    <2> DEFINE w == [type |-> "scalar"]
    <2>1. rv = Done(w, << >>)
      BY <1>1, <1>6 DEF ReadValueBody, ReadValueOf, RefTypes
    <2>2. FreeValueBody(w) = << >> /\ w.type # "sentinel"
      BY DEF FreeValueBody, FreeValueOf, RefTypes
    <2> HIDE DEF w, rv
    <2>3. Pays(Done(w, << >>), << >>, exact) /\ Done(w, << >>).value = w /\ Done(w, << >>).ok = TRUE
      BY NoTokens, DonePays
    <2>4. ValuePays(c, val, exact)
      BY <1>1, <2>1, <2>2, <2>3 DEF ValuePays, rv
    <2> QED
      BY <2>1, <2>3, <2>4 DEF rv
  <1>7. CASE val.type = "unreadable"
    <2>1. rv = Failed(ZeroValue)
      BY <1>1, <1>7 DEF ReadValueBody, ReadValueOf, RefTypes
    <2>2. val \notin R
      BY <1>7 DEF Readable
    <2> QED
      BY <1>4, <2>1, <2>2
  <1>8. CASE val.type = "array"
    <2> DEFINE ra == ReadValueArray(c, val.array)
               w == IF ra.ok THEN [type |-> "array", array |-> ra.value] ELSE ZeroValue
    <2>1. rv = [ra EXCEPT !.value = w]
      BY <1>1, <1>8 DEF ReadValueBody, ReadValueOf, ReadValueArray, FillIfRead, RefTypes
    <2>2. \A i \in 1..Len(val.array) : ValuePays(c, val.array[i], exact)
      BY <1>2, <1>8
    <2>3. /\ Pays(ra, FreeValues(ra.value), exact)
          /\ ra.ok <=> \A i \in 1..Len(val.array) : ReadValue(c, val.array[i]).ok
      BY <1>0, <1>2, <1>8, <2>2, ValueArrayPays
    <2>4. val \in R => ra.ok
      BY <1>2, <1>8, <2>3 DEF Readable
    <2>5. exact => ra.ok
      BY <1>8, <2>4
    <2>6. ra.ok => FreeValueBody(w) = FreeValues(ra.value) /\ w.type # "sentinel"
      BY DEF FreeValueBody, FreeValueOf, FreeValues, RefTypes
    <2>7. ~ra.ok => w = ZeroValue
      OBVIOUS
    <2> HIDE DEF rv, w, ra
    <2>8. rv = Result(w, ra.ok, ra.took)
      BY <2>1, <2>3, FillResult DEF Pays
    <2>9. rv.value = w /\ rv.ok = ra.ok /\ ra.ok \in BOOLEAN
      BY <2>3, <2>8 DEF Result, Pays, IsResult
    <2>10. Paid(ra.took, FreeValue(w), exact) /\ w.type # "sentinel"
      <3>1. Paid(ra.took, FreeValues(ra.value), exact) /\ ra.took \in Seq(Tokens)
        BY <2>3 DEF Pays, Paid
      <3>2. CASE ra.ok
        BY <1>1, <2>6, <2>9, <3>1, <3>2
      <3>3. CASE ~ra.ok
        <4>1. FreeValue(w) = << >> /\ ~exact
          BY <1>0, <2>5, <2>7, <3>3
        <4>2. \A x : Occurrences(<< >>, x) <= Occurrences(ra.took, x)
          BY <3>1, OccEmpty, OccNat
        <4>3. Paid(ra.took, << >>, exact)
          BY <3>1, <4>1, <4>2, NoTokens DEF Paid
        <4> QED
          BY <1>0, <2>7, <3>3, <4>1, <4>3
      <3> QED
        BY <3>2, <3>3
    <2>11. Pays(rv, FreeValue(rv.value), exact)
      BY <2>8, <2>9, <2>10, ResultPays
    <2> QED
      BY <2>4, <2>9, <2>10, <2>11 DEF ValuePays, rv
  <1>9. CASE val.type = "annotation"
    <2> DEFINE ra == ReadEncodedAnnotation(c, val.annotation)
               w == IF ra.ok THEN [type |-> "annotation", annotation |-> ra.value] ELSE ZeroValue
               rw == [ra EXCEPT !.value = w]
               b == <<Block("annotation")>>
    <2>1. rv = After(b, rw)
      BY <1>1, <1>9 DEF ReadValueBody, ReadValueOf, ReadEncodedAnnotation, FillIfRead, RefTypes
    <2>2. val.annotation # NULL =>
            /\ IsList(val.annotation.parameters)
            /\ \A i \in 1..Len(val.annotation.parameters) :
                 /\ ValuePays(c, val.annotation.parameters[i].value, exact)
                 /\ val.annotation.parameters[i].value \in R
                      => ReadValue(c, val.annotation.parameters[i].value).ok
      BY <1>2, <1>9 DEF AnnotationShape
    <2>3. /\ Pays(ra, FreeAnnotation(ra.value), exact)
          /\ ra.ok <=> AnnotationReadable(c, val.annotation)
      BY <1>0, <2>2, AnnotationPays
    <2>4. val \in R => ra.ok
      BY <1>9, <2>2, <2>3 DEF Readable, AnnotationReadable
    <2>5. exact => ra.ok
      BY <1>9, <2>4
    <2>6. ra.ok => FreeValueBody(w) = FreeAnnotation(ra.value) \o b /\ w.type # "sentinel"
      BY DEF FreeValueBody, FreeValueOf, FreeAnnotation, RefTypes
    <2>7. ~ra.ok => w = ZeroValue
      OBVIOUS
    <2>8. b \in Seq(Tokens)
      <3>1. "annotation" \in Kinds
        BY DEF Kinds
      <3> QED
        BY <3>1, BlockToken
    <2> HIDE DEF rv, w, ra, b
    <2>9. rw = Result(w, ra.ok, ra.took)
      BY <2>3, FillResult DEF Pays
    <2>10. rw.value = w /\ rw.ok = ra.ok /\ rw.took = ra.took /\ ra.ok \in BOOLEAN
      BY <2>3, <2>9 DEF Result, Pays, IsResult
    <2>11. CASE ra.ok
      <3>1. Pays(rw, FreeAnnotation(ra.value), exact)
        BY <2>3, <2>9, <2>10, ResultPays DEF Pays
      <3>2. /\ Pays(rv, FreeAnnotation(ra.value) \o b, exact)
            /\ rv.value = rw.value /\ rv.ok = rw.ok
        BY <2>1, <2>8, <3>1, AfterPays
      <3>3. FreeValue(rv.value) = FreeAnnotation(ra.value) \o b
        BY <1>1, <2>6, <2>10, <2>11, <3>2
      <3>4. rv.value.type # "sentinel"
        BY <2>6, <2>10, <2>11, <3>2
      <3> QED
        BY <2>10, <2>11, <3>2, <3>3, <3>4 DEF ValuePays, rv
    <2>12. CASE ~ra.ok
      <3>1. FreeValue(w) = << >> /\ ~exact /\ val \notin R
        BY <1>0, <2>4, <2>5, <2>7, <2>12
      <3>2. ra.took \in Seq(Tokens)
        BY <2>3 DEF Pays, Paid
      <3>3. \A x : Occurrences(<< >>, x) <= Occurrences(ra.took, x)
        BY <3>2, OccEmpty, OccNat
      <3>4. Paid(ra.took, << >>, exact)
        BY <3>1, <3>2, <3>3, NoTokens DEF Paid
      <3>5. Pays(rw, << >>, exact)
        BY <2>9, <2>10, <3>4, ResultPays
      <3>6. Pays(rv, << >> \o b, exact) /\ rv.value = rw.value
        BY <2>1, <2>8, <3>5, AfterPays
      <3>7. rv.took \in Seq(Tokens) /\ IsResult(rv)
        BY <3>6 DEF Pays, Paid
      <3>8. \A x : Occurrences(<< >>, x) <= Occurrences(rv.took, x)
        BY <3>7, OccEmpty, OccNat
      <3>9. Paid(rv.took, << >>, exact)
        BY <3>1, <3>7, <3>8, NoTokens DEF Paid
      <3>10. rv.value = ZeroValue /\ FreeValue(rv.value) = << >>
        BY <2>7, <2>10, <2>12, <3>1, <3>6
      <3> QED
        BY <1>0, <3>1, <3>7, <3>9, <3>10 DEF ValuePays, Pays, rv
    <2> QED
      BY <2>11, <2>12
  <1> QED
    BY <1>2, <1>5, <1>6, <1>7, <1>8, <1>9

(* dxc_read_value acquires at least what dxc_free_value releases of what   *)
(* it read, for values of every depth; exactly that when arrays and        *)
(* annotations can be read whole.                                          *)
LEMMA ValuesPay ==
  ASSUME NullApart, NEW exact, NEW c, Ctx(c), NEW V, NEW Depth, ValuesShape(V, Depth), ValueCode(V),
         NEW R, R \subseteq V, Readable(c, R),
         exact => \A v \in V : v.type \in {"array", "annotation"} => v \in R
  PROVE  \A v \in V : ValuePays(c, v, exact) /\ (v \in R => ReadValue(c, v).ok)
  <1> DEFINE Good(v) == ValuePays(c, v, exact) /\ (v \in R => ReadValue(c, v).ok)
             T == {n \in Nat : \A v \in V : Depth[v] < n => Good(v)}
  <1>1. \A v \in V : Depth[v] \in Nat
    BY DEF ValuesShape
  <1>2. 0 \in T
    BY <1>1
  <1>3. ASSUME NEW n \in T PROVE n + 1 \in T
    <2>1. ASSUME NEW v \in V, Depth[v] < n + 1 PROVE Good(v)
      <3>1. \A u \in V : Depth[u] < Depth[v] => Good(u)
        BY <1>1, <2>1
      <3> QED
        BY <3>1, OneValuePays
    <2> QED
      BY <2>1
  <1>4. T = Nat
    <2>1. T \in SUBSET Nat
      OBVIOUS
    <2> HIDE DEF T
    <2> QED
      BY <1>2, <1>3, <2>1, SetInduction
  <1>5. ASSUME NEW v \in V PROVE Good(v)
    <2>1. Depth[v] + 1 \in T /\ Depth[v] < Depth[v] + 1
      BY <1>1, <1>4
    <2> QED
      BY <2>1
  <1> QED
    BY <1>5

(* ReadValue pays for all values that the annotation an can have.          *)
LEMMA ShapedAnnotationPays ==
  ASSUME NullApart, FreeValue(ZeroValue) = << >>, NEW exact, NEW c, Ctx(c), NEW V,
         \A v \in V : ValuePays(c, v, exact), NEW an, AnnotationShape(an, V)
  PROVE  /\ Pays(ReadEncodedAnnotation(c, an), FreeAnnotation(ReadEncodedAnnotation(c, an).value),
                 exact)
         /\ ReadEncodedAnnotation(c, an).value.parameters = NULL
              => /\ ~ReadEncodedAnnotation(c, an).ok
                 /\ FreeAnnotation(ReadEncodedAnnotation(c, an).value) = << >>
  <1>1. an # NULL => IsList(an.parameters)
                     /\ \A i \in 1..Len(an.parameters) : ValuePays(c, an.parameters[i].value, exact)
    BY DEF AnnotationShape
  <1> QED
    BY <1>1, AnnotationPays

(* An annotation of zeros holds nothing.                                   *)
LEMMA ZeroAnnotationFree ==
  ASSUME NullApart
  PROVE  FreeAnnotation(ZeroAnnotation) = << >>
  <1>1. FreeAnnotation(ZeroAnnotation) = << >> \o FreeRef(NULL)
    BY DEF FreeAnnotation, FreeAnnotationBy, FreeArray, ZeroAnnotation
  <1> QED
    BY <1>1, FreeRefFacts

(* A list of annotations pays; one that is missing failed and holds        *)
(* nothing.                                                                *)
LEMMA AnnotationListPays ==
  ASSUME NullApart, FreeValue(ZeroValue) = << >>, NEW exact, NEW c, Ctx(c), NEW V,
         \A v \in V : ValuePays(c, v, exact), NEW anns, AnnotationsShape(anns, V)
  PROVE  /\ Pays(ReadAnnotationList(c, anns), FreeAnnotations(ReadAnnotationList(c, anns).value), exact)
         /\ ReadAnnotationList(c, anns).value = NULL
              => /\ ~ReadAnnotationList(c, anns).ok
                 /\ FreeAnnotations(ReadAnnotationList(c, anns).value) = << >>
  <1>1. CASE anns = NULL
    <2>1. ReadAnnotationList(c, anns) = Failed(NULL)
      BY <1>1 DEF ReadAnnotationList
    <2>2. FreeAnnotations(NULL) = << >>
      BY DEF FreeAnnotations, FreeArray
    <2>3. Pays(Failed(NULL), << >>, exact) /\ Failed(NULL).ok = FALSE /\ Failed(NULL).value = NULL
      BY FailedPays
    <2> QED
      BY <2>1, <2>2, <2>3
  <1>2. CASE anns # NULL
    <2> DEFINE reads == [i \in DOMAIN anns |-> ReadEncodedAnnotation(c, anns[i])]
               ra == ReadArray(reads, ZeroAnnotation, "annotations")
               v == ReadArray(reads, ZeroAnnotation, "annotations").value
               tt == [i \in DOMAIN v |-> FreeAnnotation(v[i])]
               ends == {i \in DOMAIN v : v[i].parameters = NULL}
    <2>a1. IsList(anns) /\ DOMAIN anns = 1..Len(anns) /\ Len(anns) \in Nat
      BY <1>2, ListFacts DEF AnnotationsShape
    <2>a2. IsList(reads) /\ Len(reads) = Len(anns)
      BY <2>a1, ListOf
    <2>a3. "annotations" \in Kinds
      BY DEF Kinds
    <2>a4. \A i \in 1..Len(reads) : reads[i] = ReadEncodedAnnotation(c, anns[i])
      BY <2>a1, <2>a2
    <2>a5. ReadAnnotationList(c, anns) = ra
      BY <1>2 DEF ReadAnnotationList
    <2> HIDE DEF reads
    <2>a6. IsList(v) /\ Len(v) = Len(reads) /\ DOMAIN v = 1..Len(reads) /\ v # NULL
      BY <2>a2, ReadArrayFacts, ListFacts, NotNull
    <2>a7. IsList(tt) /\ Len(tt) = Len(reads) /\ DOMAIN tt = 1..Len(reads)
      BY <2>a1, <2>a2, <2>a6, ListOf
    <2>a8. FreeAnnotation(ZeroAnnotation) = << >>
      BY ZeroAnnotationFree
    <2>a9. ASSUME NEW i \in 1..Len(reads), v[i] = reads[i].value
          PROVE  /\ Paid(reads[i].took, tt[i], exact)
                 /\ exact /\ i \in ends => ~reads[i].ok /\ tt[i] = << >>
      <3>1. AnnotationShape(anns[i], V)
        BY <1>2, <2>a2 DEF AnnotationsShape
      <3> DEFINE re == ReadEncodedAnnotation(c, anns[i])
      <3>2. /\ Pays(re, FreeAnnotation(re.value), exact)
            /\ re.value.parameters = NULL => ~re.ok /\ FreeAnnotation(re.value) = << >>
        BY <3>1, ShapedAnnotationPays
      <3>3. reads[i] = re
        BY <2>a4
      <3> HIDE DEF re
      <3> QED
        BY <2>a6, <2>a9, <3>2, <3>3 DEF Pays
    <2>b1. ASSUME NEW i \in 1..Len(reads), v[i] = ZeroAnnotation PROVE tt[i] = << >>
      BY <2>a6, <2>a8, <2>b1
    <2>b2. FreeAnnotations(v) = FlattenSeq(UpTo(tt, ends)) \o <<Block("annotations")>>
      BY <2>a6 DEF FreeAnnotations, FreeArray
    <2>b3. ends \in SUBSET DOMAIN tt
      BY <2>a6, <2>a7
    <2>b4. exact => \A e \in ends : v[e] = reads[e].value => ~reads[e].ok /\ tt[e] = << >>
      BY <2>a6, <2>a9
    <2> HIDE DEF tt, ends
    <2> DEFINE z == v
    <2>b5. z = ReadArray(reads, ZeroAnnotation, "annotations").value
      OBVIOUS
    <2>b6. /\ \A i \in 1..Len(reads) : z[i] = reads[i].value => Paid(reads[i].took, tt[i], exact)
           /\ \A i \in 1..Len(reads) : z[i] = ZeroAnnotation => tt[i] = << >>
           /\ exact => \A e \in ends : z[e] = reads[e].value => ~reads[e].ok /\ tt[e] = << >>
      BY <2>a9, <2>b1, <2>b4
    <2> HIDE DEF z
    <2>b7. Pays(ra, FlattenSeq(UpTo(tt, ends)) \o <<Block("annotations")>>, exact)
      BY <2>a2, <2>a3, <2>a7, <2>b3, <2>b5, <2>b6, ArrayPays
    <2>b8. ra.ok <=> \A i \in 1..Len(reads) : reads[i].ok
      BY <2>a2, ReadArrayFacts
    <2> QED
      BY <2>a5, <2>a6, <2>b2, <2>b5, <2>b7 DEF z
  <1> QED
    BY <1>1, <1>2

(* The lists of annotations of the parameters pay.                         *)
LEMMA ParameterAnnotationsPay ==
  ASSUME NullApart, FreeValue(ZeroValue) = << >>, NEW exact, NEW c, Ctx(c), NEW V,
         \A v \in V : ValuePays(c, v, exact), NEW panns, ParameterAnnotationsShape(panns, V)
  PROVE  /\ Pays(ReadParameterAnnotations(c, panns),
                 FreeParameterAnnotations(ReadParameterAnnotations(c, panns).value), exact)
         /\ ReadParameterAnnotations(c, panns).value = NULL
              => /\ ~ReadParameterAnnotations(c, panns).ok
                 /\ FreeParameterAnnotations(ReadParameterAnnotations(c, panns).value) = << >>
  <1>1. CASE panns = NULL
    <2>1. ReadParameterAnnotations(c, panns) = Failed(NULL)
      BY <1>1 DEF ReadParameterAnnotations
    <2>2. FreeParameterAnnotations(NULL) = << >>
      BY DEF FreeParameterAnnotations, FreeArray
    <2>3. Pays(Failed(NULL), << >>, exact) /\ Failed(NULL).ok = FALSE /\ Failed(NULL).value = NULL
      BY FailedPays
    <2> QED
      BY <2>1, <2>2, <2>3
  <1>2. CASE panns # NULL
    <2> DEFINE reads == [i \in DOMAIN panns |-> ReadAnnotationList(c, panns[i])]
               ra == ReadArray(reads, NULL, "parameter_annotations")
               v == ReadArray(reads, NULL, "parameter_annotations").value
               tt == [i \in DOMAIN v |-> FreeAnnotations(v[i])]
               ends == {i \in DOMAIN v : v[i] = NULL}
    <2>a1. IsList(panns) /\ DOMAIN panns = 1..Len(panns) /\ Len(panns) \in Nat
      BY <1>2, ListFacts DEF ParameterAnnotationsShape
    <2>a2. IsList(reads) /\ Len(reads) = Len(panns)
      BY <2>a1, ListOf
    <2>a3. "parameter_annotations" \in Kinds
      BY DEF Kinds
    <2>a4. \A i \in 1..Len(reads) : reads[i] = ReadAnnotationList(c, panns[i])
      BY <2>a1, <2>a2
    <2>a5. ReadParameterAnnotations(c, panns) = ra
      BY <1>2 DEF ReadParameterAnnotations
    <2> HIDE DEF reads
    <2>a6. IsList(v) /\ Len(v) = Len(reads) /\ DOMAIN v = 1..Len(reads) /\ v # NULL
      BY <2>a2, ReadArrayFacts, ListFacts, NotNull
    <2>a7. IsList(tt) /\ Len(tt) = Len(reads) /\ DOMAIN tt = 1..Len(reads)
      BY <2>a1, <2>a2, <2>a6, ListOf
    <2>a8. FreeAnnotations(NULL) = << >>
      BY DEF FreeAnnotations, FreeArray
    <2>a9. ASSUME NEW i \in 1..Len(reads), v[i] = reads[i].value
          PROVE  /\ Paid(reads[i].took, tt[i], exact)
                 /\ exact /\ i \in ends => ~reads[i].ok /\ tt[i] = << >>
      <3>1. AnnotationsShape(panns[i], V)
        BY <1>2, <2>a2 DEF ParameterAnnotationsShape
      <3> DEFINE re == ReadAnnotationList(c, panns[i])
      <3>2. /\ Pays(re, FreeAnnotations(re.value), exact)
            /\ re.value = NULL => ~re.ok /\ FreeAnnotations(re.value) = << >>
        BY <3>1, AnnotationListPays
      <3>3. reads[i] = re
        BY <2>a4
      <3> HIDE DEF re
      <3> QED
        BY <2>a6, <2>a9, <3>2, <3>3 DEF Pays
    <2>b1. ASSUME NEW i \in 1..Len(reads), v[i] = NULL PROVE tt[i] = << >>
      BY <2>a6, <2>a8, <2>b1
    <2>b2. FreeParameterAnnotations(v) = FlattenSeq(UpTo(tt, ends)) \o <<Block("parameter_annotations")>>
      BY <2>a6 DEF FreeParameterAnnotations, FreeArray
    <2>b3. ends \in SUBSET DOMAIN tt
      BY <2>a6, <2>a7
    <2>b4. exact => \A e \in ends : v[e] = reads[e].value => ~reads[e].ok /\ tt[e] = << >>
      BY <2>a6, <2>a9
    <2> HIDE DEF tt, ends
    <2> DEFINE z == v
    <2>b5. z = ReadArray(reads, NULL, "parameter_annotations").value
      OBVIOUS
    <2>b6. /\ \A i \in 1..Len(reads) : z[i] = reads[i].value => Paid(reads[i].took, tt[i], exact)
           /\ \A i \in 1..Len(reads) : z[i] = NULL => tt[i] = << >>
           /\ exact => \A e \in ends : z[e] = reads[e].value => ~reads[e].ok /\ tt[e] = << >>
      BY <2>a9, <2>b1, <2>b4
    <2> HIDE DEF z
    <2>b7. Pays(ra, FlattenSeq(UpTo(tt, ends)) \o <<Block("parameter_annotations")>>, exact)
      BY <2>a2, <2>a3, <2>a7, <2>b3, <2>b5, <2>b6, ArrayPays
    <2>b8. ra.ok <=> \A i \in 1..Len(reads) : reads[i].ok
      BY <2>a2, ReadArrayFacts
    <2> QED
      BY <2>a5, <2>a6, <2>b2, <2>b5, <2>b7 DEF z
  <1> QED
    BY <1>1, <1>2

(* A list of references.                                                   *)
LEMMA RefsPay ==
  ASSUME NullApart, NEW exact, NEW kind \in Kinds, NEW reads, IsList(reads),
         \A i \in 1..Len(reads) : Pays(reads[i], FreeRef(reads[i].value), exact),
         \A i \in 1..Len(reads) : reads[i].value = NULL => ~reads[i].ok,
         NEW v, v = ReadArray(reads, NULL, kind).value, NEW ends \in SUBSET DOMAIN v,
         \A e \in ends : v[e] = NULL, NEW tt, IsList(tt), Len(tt) = Len(reads),
         \A i \in 1..Len(reads) : tt[i] = FreeRef(v[i])
  PROVE  Pays(ReadArray(reads, NULL, kind),
              FlattenSeq(UpTo(tt, ends)) \o <<Block(kind)>>, exact)
  <1>1. IsList(v) /\ Len(v) = Len(reads) /\ DOMAIN v = 1..Len(reads) /\ v # NULL
    BY ReadArrayFacts, ListFacts, NotNull
  <1>2. IsList(tt) /\ Len(tt) = Len(reads) /\ DOMAIN tt = 1..Len(reads)
    BY ListFacts
  <1>3. \A i \in 1..Len(reads) : v[i] = reads[i].value => Paid(reads[i].took, tt[i], exact)
    BY <1>1 DEF Pays
  <1>4. \A i \in 1..Len(reads) : v[i] = NULL => tt[i] = << >>
    BY <1>1, FreeRefFacts
  <1>5. \A e \in ends : v[e] = reads[e].value => ~reads[e].ok /\ tt[e] = << >>
    BY <1>1, <1>4
  <1>6. ends \in SUBSET DOMAIN tt
    BY <1>1, <1>2
  <1> QED
    BY <1>2, <1>3, <1>4, <1>5, <1>6, ArrayPays

(* An array that is read whole has the values of all its reads.            *)
LEMMA ReadArrayDone ==
  ASSUME NEW reads, IsList(reads), NEW Zero, NEW kind, ReadArray(reads, Zero, kind).ok,
         NEW i \in 1..Len(reads)
  PROVE  ReadArray(reads, Zero, kind).value[i] = reads[i].value
  <1>1. \A k \in 1..Len(reads) : reads[k].ok
    BY ReadArrayFacts
  <1>2. LastRead(reads) >= 1 /\ ~reads[LastRead(reads)].ok => LastRead(reads) \in 1..Len(reads)
    BY LastFacts, ListFacts
  <1>3. LastRead(reads) = Len(reads)
    BY <1>1, <1>2, LastFacts
  <1>4. i <= LastRead(reads)
    BY <1>3, ListFacts
  <1> QED
    BY <1>4, ReadArrayFacts

(* A list of strings, the last of which is followed by NULL, pays.         *)
LEMMA StrstrPays ==
  ASSUME NullApart, NEW exact, NEW reads, IsList(reads),
         \A i \in 1..Len(reads) : Pays(reads[i], FreeRef(reads[i].value), exact),
         \A i \in 1..Len(reads) : reads[i].value = NULL => ~reads[i].ok
  PROVE  /\ Pays(ReadStrstr(reads), FreeStrstr(ReadStrstr(reads).value), exact)
         /\ ReadStrstr(reads).value # NULL /\ IsList(ReadStrstr(reads).value)
         /\ ReadStrstr(reads).ok <=> \A i \in 1..Len(reads) : reads[i].ok
  <1> DEFINE v == ReadArray(reads, NULL, "strstr").value
             ends == {i \in DOMAIN v : v[i] = NULL}
  <1>1. "strstr" \in Kinds
    BY DEF Kinds
  <1>2. ends \in SUBSET DOMAIN v /\ \A e \in ends : v[e] = NULL
    OBVIOUS
  <1>3. v # NULL => FreeStrstr(v)
          = FlattenSeq(UpTo([i \in DOMAIN v |-> FreeRef(v[i])], ends)) \o <<Block("strstr")>>
    BY DEF FreeStrstr, FreeArray
  <1> HIDE DEF ends
  <1>4. /\ Pays(ReadArray(reads, NULL, "strstr"),
                FlattenSeq(UpTo([i \in DOMAIN v |-> FreeRef(v[i])], ends)) \o <<Block("strstr")>>, exact)
        /\ IsList(v) /\ v # NULL
        /\ ReadArray(reads, NULL, "strstr").ok <=> \A i \in 1..Len(reads) : reads[i].ok
    <2> DEFINE z == v
    <2>1. z = ReadArray(reads, NULL, "strstr").value
      OBVIOUS
    <2>2. ends \in SUBSET DOMAIN z /\ \A e \in ends : z[e] = NULL
      BY <1>2
    <2> HIDE DEF z
    <2> DEFINE tt == [i \in DOMAIN z |-> FreeRef(z[i])]
    <2>b. IsList(z) /\ Len(z) = Len(reads) /\ DOMAIN z = 1..Len(reads)
      BY <2>1, ReadArrayFacts, ListFacts
    <2>a. IsList(tt) /\ Len(tt) = Len(reads) /\ \A i \in 1..Len(reads) : tt[i] = FreeRef(z[i])
      BY <2>b, ListOf, ListFacts
    <2> HIDE DEF tt
    <2>3. Pays(ReadArray(reads, NULL, "strstr"),
               FlattenSeq(UpTo(tt, ends)) \o <<Block("strstr")>>, exact)
      BY <1>1, <2>1, <2>2, <2>a, RefsPay
    <2>c. z # NULL
      BY <2>b, NotNull
    <2>d. ReadArray(reads, NULL, "strstr").ok <=> \A i \in 1..Len(reads) : reads[i].ok
      BY ReadArrayFacts
    <2> QED
      BY <2>3, <2>b, <2>c, <2>d DEF z, tt
  <1> QED
    BY <1>3, <1>4 DEF ReadStrstr

(* A reference that may be missing pays.                                   *)
LEMMA ReadRefP1Pays ==
  ASSUME NullApart, NEW exact, NEW section, IsList(section),
         \A i \in 1..Len(section) : section[i] \in Tokens, NEW at
  PROVE  /\ Pays(ReadRefP1(section, at), FreeRef(ReadRefP1(section, at).value), exact)
         /\ ReadRefP1(section, at).ok <=> Index(Len(section), at)
         /\ ReadRefP1(section, at).value = NULL \/ ReadRefP1(section, at).value \in Tokens
  <1>1. CASE at = NULL
    <2>1. ReadRefP1(section, at) = Done(NULL, << >>)
      BY <1>1 DEF ReadRefP1
    <2>2. Pays(Done(NULL, << >>), << >>, exact) /\ Done(NULL, << >>).value = NULL
          /\ Done(NULL, << >>).ok = TRUE
      BY NoTokens, DonePays
    <2> QED
      BY <1>1, <2>1, <2>2, FreeRefFacts DEF Index
  <1>2. CASE at # NULL
    <2>1. ReadRefP1(section, at) = ReadRef(section, at)
      BY <1>2 DEF ReadRefP1
    <2> DEFINE r == ReadRef(section, at)
    <2>2. /\ IsResult(r)
          /\ Paid(r.took, FreeRef(r.value), exact)
          /\ r.ok <=> at \in 1..Len(section)
          /\ r.ok => r.value = section[at]
          /\ ~r.ok => r = Failed(NULL)
      BY ReadRefPaid
    <2>3. Failed(NULL).value = NULL
      BY FailedPays
    <2> HIDE DEF r
    <2>4. r.value = NULL \/ r.value \in Tokens
      BY <2>2, <2>3
    <2> QED
      BY <1>2, <2>1, <2>2, <2>4 DEF r, Pays, Index
  <1> QED
    BY <1>1, <1>2

(* The references of a local.                                              *)
LEMMA FreeRefsPay ==
  ASSUME NullApart, NEW exact, NEW reads, IsList(reads), NEW Zero, Zero = NULL,
         \A i \in 1..Len(reads) : Pays(reads[i], FreeRef(reads[i].value), exact)
  PROVE  Paid(InOrder(reads, Zero).took, FreeRefs(InOrder(reads, Zero).value), exact)
  <1> DEFINE v == InOrder(reads, Zero).value
             tt == [i \in DOMAIN v |-> FreeRef(v[i])]
             ends == {}
  <1>a. IsList(v)
    BY InOrderFacts
  <1>b. Len(v) = Len(reads)
    BY InOrderFacts
  <1>1. IsList(v) /\ Len(v) = Len(reads) /\ DOMAIN v = 1..Len(reads)
    BY <1>a, <1>b, ListFacts
  <1>2. IsList(tt) /\ Len(tt) = Len(reads)
    BY <1>1, ListOf, ListFacts
  <1>3. \A i \in 1..Len(reads) : i <= LastRead(reads) => Paid(reads[i].took, tt[i], exact)
    BY <1>1, InOrderFacts DEF Pays
  <1>4. \A i \in 1..Len(reads) : ~(i <= LastRead(reads)) => tt[i] = << >>
    BY <1>1, InOrderFacts, FreeRefFacts
  <1>5. FreeRefs(v) = FlattenSeq(tt)
    BY DEF FreeRefs
  <1>6. UpTo(tt, ends) = tt
    BY DEF UpTo
  <1>7. ends \in SUBSET DOMAIN tt /\ (exact => \A e \in ends : e <= LastRead(reads) => ~reads[e].ok /\ tt[e] = << >>)
    OBVIOUS
  <1> HIDE DEF tt, ends
  <1>8. Paid(InOrder(reads, Zero).took, FlattenSeq(UpTo(tt, ends)), exact)
    BY <1>2, <1>3, <1>4, <1>7, InOrderPaid
  <1> QED
    BY <1>5, <1>6, <1>8

(* A debug instruction pays; one of a local must be readable for this,     *)
(* since dxc_free_debug_info does not look for a local that is missing.    *)
LEMMA DbgInsnPays ==
  ASSUME NullApart, NEW exact, NEW c, Ctx(c), NEW in,
         in.opcode \in Locals => DbgInsnReadable(Len(c.strs), Len(c.types), in)
  PROVE  /\ Pays(ReadDbgInsn(c, in), FreeDbgInsn(ReadDbgInsn(c, in).value), exact)
         /\ ReadDbgInsn(c, in).ok <=> DbgInsnReadable(Len(c.strs), Len(c.types), in)
         /\ in.opcode # "unreadable" => ReadDbgInsn(c, in).value.opcode = in.opcode
         /\ in.opcode = "unreadable" => ReadDbgInsn(c, in).took = << >>
         /\ in.opcode = "end_sequence" => ReadDbgInsn(c, in).took = << >>
  <1>0. /\ IsList(c.strs) /\ \A i \in 1..Len(c.strs) : c.strs[i] \in Tokens
        /\ IsList(c.types) /\ \A i \in 1..Len(c.types) : c.types[i] \in Tokens
    BY RefTokens DEF Ctx
  <1>1. CASE in.opcode \in Locals
    <2> DEFINE a == ReadRefP1(c.strs, in.name)
               b == ReadRefP1(c.types, in.type)
               d == ReadRefP1(c.strs, in.sig)
               reads == <<a, b, d>>
               io == InOrder(reads, NULL)
               t == <<Block("start_local")>> \o io.took
               w == [opcode |-> in.opcode, p |-> io.value]
    <2>0. "set_file" \notin Locals /\ "unreadable" \notin Locals /\ "end_sequence" \notin Locals
      BY DEF Locals
    <2>1. ReadDbgInsn(c, in) = ReadLocal(in.opcode, io)
      BY <1>1, <2>0 DEF ReadDbgInsn
    <2>2. DbgInsnReadable(Len(c.strs), Len(c.types), in)
      BY <1>1
    <2>3. Index(Len(c.strs), in.name) /\ Index(Len(c.types), in.type) /\ Index(Len(c.strs), in.sig)
      BY <1>1, <2>2 DEF DbgInsnReadable
    <2>4. /\ Pays(a, FreeRef(a.value), exact) /\ a.ok
          /\ Pays(b, FreeRef(b.value), exact) /\ b.ok
          /\ Pays(d, FreeRef(d.value), exact) /\ d.ok
      BY <1>0, <2>3, ReadRefP1Pays
    <2> HIDE DEF a, b, d
    <2>5. IsList(reads) /\ Len(reads) = 3 /\ reads[1] = a /\ reads[2] = b /\ reads[3] = d
      BY DEF IsList
    <2>6. IsResult(io) /\ io.ok = (a.ok /\ b.ok /\ d.ok)
      <3>1. IsResult(a) /\ IsResult(b) /\ IsResult(d)
        BY <2>4 DEF Pays
      <3> QED
        BY <3>1, InOrderThree
    <2> HIDE DEF reads
    <2>7. \A i \in 1..Len(reads) : Pays(reads[i], FreeRef(reads[i].value), exact)
      BY <2>4, <2>5
    <2>8. Paid(io.took, FreeRefs(io.value), exact)
      <3> DEFINE Zero == NULL
      <3>1. Zero = NULL
        OBVIOUS
      <3> HIDE DEF Zero
      <3>2. Paid(InOrder(reads, Zero).took, FreeRefs(InOrder(reads, Zero).value), exact)
        BY <2>5, <2>7, <3>1, FreeRefsPay
      <3> QED
        BY <3>1, <3>2
    <2>9. IsList(io.value) /\ io.value # NULL
      BY <2>5, InOrderFacts, NotNull
    <2> HIDE DEF io
    <2>10. ReadLocal(in.opcode, io) = Done(w, t)
      BY <2>4, <2>6 DEF ReadLocal
    <2>11. FreeDbgInsn(w) = FreeRefs(io.value) \o <<Block("start_local")>>
      BY <1>1, <2>0, <2>9 DEF FreeDbgInsn
    <2>12. <<Block("start_local")>> \in Seq(Tokens)
      <3>1. "start_local" \in Kinds
        BY DEF Kinds
      <3> QED
        BY <3>1, BlockToken
    <2>13. Paid(t, FreeDbgInsn(w), exact)
      BY <2>8, <2>11, <2>12, PaidSame, PaidTurn
    <2>14. w.opcode = in.opcode
      OBVIOUS
    <2> HIDE DEF t, w
    <2>15. Done(w, t) = Result(w, TRUE, t) /\ Done(w, t).value = w /\ Done(w, t).ok = TRUE
      BY DEF Done, Result
    <2>16. Pays(Done(w, t), FreeDbgInsn(w), exact)
      BY <2>13, <2>15, ResultPays
    <2> QED
      BY <1>1, <2>0, <2>1, <2>2, <2>10, <2>14, <2>15, <2>16
  <1>2. CASE in.opcode = "set_file"
    <2> DEFINE a == ReadRefP1(c.strs, in.name)
               w == [opcode |-> "set_file", p |-> a.value]
    <2>0. "set_file" \notin Locals
      BY DEF Locals
    <2>1. ReadDbgInsn(c, in) = [a EXCEPT !.value = w]
      BY <1>2, <2>0 DEF ReadDbgInsn, Fill
    <2>2. Pays(a, FreeRef(a.value), exact) /\ (a.ok <=> Index(Len(c.strs), in.name))
      BY <1>0, ReadRefP1Pays
    <2> HIDE DEF a
    <2>3. [a EXCEPT !.value = w] = Result(w, a.ok, a.took)
      BY <2>2, FillResult DEF Pays
    <2>4. FreeDbgInsn(w) = FreeRef(a.value) /\ w.opcode = "set_file"
      BY <2>0 DEF FreeDbgInsn
    <2> HIDE DEF w
    <2>5. a.ok \in BOOLEAN /\ Paid(a.took, FreeDbgInsn(w), exact)
      BY <2>2, <2>4 DEF Pays, IsResult
    <2>6. Pays(Result(w, a.ok, a.took), FreeDbgInsn(w), exact)
      BY <2>5, ResultPays
    <2>7. Result(w, a.ok, a.took).value = w /\ Result(w, a.ok, a.took).ok = a.ok
      BY DEF Result
    <2>8. a.ok <=> DbgInsnReadable(Len(c.strs), Len(c.types), in)
      BY <1>2, <2>0, <2>2 DEF DbgInsnReadable
    <2> QED
      BY <1>2, <2>1, <2>3, <2>4, <2>6, <2>7, <2>8
  <1>3. CASE in.opcode = "unreadable"
    <2>1. ReadDbgInsn(c, in) = Failed(ZeroDbgInsn)
      BY <1>3 DEF ReadDbgInsn, Locals
    <2>2. FreeDbgInsn(ZeroDbgInsn) = << >>
      BY DEF FreeDbgInsn, ZeroDbgInsn, Locals
    <2>3. /\ Pays(Failed(ZeroDbgInsn), << >>, exact) /\ Failed(ZeroDbgInsn).value = ZeroDbgInsn
          /\ Failed(ZeroDbgInsn).ok = FALSE /\ Failed(ZeroDbgInsn).took = << >>
      BY FailedPays
    <2>4. ~DbgInsnReadable(Len(c.strs), Len(c.types), in)
      BY <1>3 DEF DbgInsnReadable
    <2> QED
      BY <1>3, <2>1, <2>2, <2>3, <2>4
  <1>4. CASE in.opcode \notin Locals \cup {"set_file", "unreadable"}
    <2> DEFINE w == [opcode |-> in.opcode, p |-> NULL]
    <2>1. ReadDbgInsn(c, in) = Done(w, << >>)
      BY <1>4 DEF ReadDbgInsn
    <2>2. FreeDbgInsn(w) = << >> /\ w.opcode = in.opcode
      BY <1>4 DEF FreeDbgInsn
    <2> HIDE DEF w
    <2>3. /\ Pays(Done(w, << >>), << >>, exact) /\ Done(w, << >>).value = w
          /\ Done(w, << >>).ok = TRUE /\ Done(w, << >>).took = << >>
      BY NoTokens, DonePays
    <2>4. DbgInsnReadable(Len(c.strs), Len(c.types), in)
      BY <1>4 DEF DbgInsnReadable
    <2> QED
      BY <1>4, <2>1, <2>2, <2>3, <2>4
  <1> QED
    BY <1>1, <1>2, <1>3, <1>4

(* The instructions that are freed are the first m of v.                   *)
LEMMA DebugRun ==
  ASSUME NEW exact, NEW reads, IsList(reads), NEW v, IsList(v), NEW m \in Nat,
         m < Len(v), m <= LastRead(reads), v[m + 1].opcode = "end_sequence",
         \A i \in 1..m : v[i].opcode # "end_sequence",
         \A i \in 1..m : Paid(reads[i].took, FreeDbgInsn(v[i]), exact),
         \A i \in 1..Len(reads) : m < i /\ i <= LastRead(reads) => reads[i].took = << >>
  PROVE  LET run == Before(v, LAMBDA in : in.opcode = "end_sequence")
         IN  /\ Len(run) = m
             /\ Paid(FlattenSeq([i \in 1..LastRead(reads) |-> reads[i].took]),
                     FlattenSeq([i \in DOMAIN run |-> FreeDbgInsn(run[i])]), exact)
  <1> DEFINE ends == {i \in DOMAIN v : v[i].opcode = "end_sequence"}
             run == UpTo(v, ends)
             ss == [i \in 1..LastRead(reads) |-> reads[i].took]
             tt == [i \in DOMAIN run |-> FreeDbgInsn(run[i])]
  <1>1. DOMAIN v = 1..Len(v) /\ Len(v) \in Nat /\ LastRead(reads) \in 0..Len(reads) /\ Len(reads) \in Nat
    BY ListFacts, LastFacts
  <1>2. m + 1 \in ends /\ \A i \in ends : m + 1 <= i
    BY <1>1
  <1>3. PICK e : e = CHOOSE i \in ends : \A k \in ends : i <= k
    OBVIOUS
  <1>4. e = m + 1
    <2>1. e \in ends /\ \A k \in ends : e <= k
      BY <1>2, <1>3
    <2>2. e \in Nat /\ e <= m + 1 /\ m + 1 <= e
      BY <1>1, <1>2, <2>1
    <2> QED
      BY <2>2
  <1>5. run = SubSeq(v, 1, e - 1)
    BY <1>2, <1>3 DEF UpTo
  <1>a. run = SubSeq(v, 1, m)
    BY <1>4, <1>5
  <1>6. Len(run) = m /\ DOMAIN run = 1..m /\ \A i \in 1..m : run[i] = v[i]
    BY <1>1, <1>a DEF IsList
  <1>7. Before(v, LAMBDA in : in.opcode = "end_sequence") = run
    BY DEF Before
  <1> HIDE DEF ends, run
  <1>8. \A i \in 1..LastRead(reads) : reads[i].took \in Seq(Tokens)
    <2> SUFFICES ASSUME NEW i \in 1..LastRead(reads) PROVE reads[i].took \in Seq(Tokens)
      OBVIOUS
    <2>1. CASE i <= m
      <3>1. Paid(reads[i].took, FreeDbgInsn(v[i]), exact)
        BY <1>1, <2>1
      <3> QED
        BY <3>1 DEF Paid
    <2>2. CASE m < i
      <3>1. i \in 1..Len(reads) /\ i <= LastRead(reads)
        BY <1>1
      <3>2. reads[i].took = << >>
        BY <2>2, <3>1
      <3> QED
        BY <3>2, NoTokens
    <2> QED
      BY <1>1, <2>1, <2>2
  <1>9. ss \in Seq(Seq(Tokens)) /\ DOMAIN ss = 1..LastRead(reads)
    BY <1>1, <1>8
  <1>10. \A i \in 1..m : FreeDbgInsn(run[i]) \in Seq(Tokens)
    BY <1>6 DEF Paid
  <1>11. tt \in Seq(Seq(Tokens)) /\ DOMAIN tt = 1..m
    BY <1>6, <1>10
  <1>12. ASSUME NEW k \in Nat \ {0} PROVE Paid(PartOf(ss, k), PartOf(tt, k), exact)
    <2>1. CASE k <= m
      <3>1. PartOf(ss, k) = reads[k].took /\ PartOf(tt, k) = FreeDbgInsn(v[k]) /\ k \in 1..m
        BY <1>1, <1>6, <1>9, <1>11, <2>1 DEF PartOf
      <3> QED
        BY <3>1
    <2>2. CASE m < k
      <3>1. PartOf(tt, k) = << >>
        BY <1>11, <2>2 DEF PartOf
      <3>2. PartOf(ss, k) = << >>
        BY <1>1, <1>9, <2>2 DEF PartOf
      <3> QED
        BY <3>1, <3>2, NoTokens
    <2> QED
      BY <2>1, <2>2
  <1>13. Paid(FlattenSeq(ss), FlattenSeq(tt), exact)
    BY <1>9, <1>11, <1>12, FlattenPaid
  <1> QED
    BY <1>6, <1>7, <1>13

(* The instructions of which one stands, at least in part, in the array.   *)
Begun(ns, nt, insns) ==
  {i \in 1..Len(insns) : insns[i].opcode # "unreadable"
                         /\ \A k \in 1..(i - 1) : DbgInsnReadable(ns, nt, insns[k])}

(* Debug instructions that dxc_free_debug_info survives (DebugSurvives     *)
(* without the names of the parameters).                                   *)
InsnsSurvive(ns, nt, insns) ==
  /\ \A i \in 1..Len(insns) : insns[i].opcode = "end_sequence" => i = Len(insns)
  /\ \A i \in 1..Len(insns) : insns[i].opcode \in Locals => DbgInsnReadable(ns, nt, insns[i])
  /\ (\A i \in 1..Len(insns) : DbgInsnReadable(ns, nt, insns[i])) =>
       Len(insns) > 0 /\ insns[Len(insns)].opcode = "end_sequence"
  /\ (\E i \in 1..Len(insns) : ~DbgInsnReadable(ns, nt, insns[i])) =>
       /\ Room(Cardinality(Begun(ns, nt, insns))) \in Nat
       /\ Cardinality(Begun(ns, nt, insns)) < Room(Cardinality(Begun(ns, nt, insns)))

(* Debug instructions that survive pay, and the loop that frees them ends  *)
(* inside of its array.                                                    *)
LEMMA DebugInsnsPay ==
  ASSUME NullApart, NEW exact, NEW c, Ctx(c), NEW insns, IsList(insns),
         InsnsSurvive(Len(c.strs), Len(c.types), insns)
  PROVE  LET r == ReadDbgInsns(c, insns)
             run == Before(r.value, LAMBDA in : in.opcode = "end_sequence")
         IN  /\ IsResult(r) /\ IsList(r.value) /\ Len(run) # Len(r.value)
             /\ FlattenSeq([i \in DOMAIN run |-> FreeDbgInsn(run[i])]) \in Seq(Tokens)
             /\ Paid(r.took, FlattenSeq([i \in DOMAIN run |-> FreeDbgInsn(run[i])])
                               \o <<Block("debug_insns")>>, exact)
  <1> DEFINE begun == Begun(Len(c.strs), Len(c.types), insns)
             reads == [i \in DOMAIN insns |-> ReadDbgInsn(c, insns[i])]
             ra == ReadArray(reads, ZeroDbgInsn, "debug_insns")
             v == ReadArray(reads, ZeroDbgInsn, "debug_insns").value
             begun2 == {i \in DOMAIN insns : insns[i].opcode # "unreadable"
                          /\ \A k \in 1..(i - 1) : ReadDbgInsn(c, insns[k]).ok}
             w == IF \A i \in DOMAIN insns : ReadDbgInsn(c, insns[i]).ok THEN v
                  ELSE [i \in 1..Room(Cardinality(begun2)) |->
                          IF i \in begun2 THEN v[i] ELSE ZeroDbgInsn]
             r == ReadDbgInsns(c, insns)
  <1>0. r = [ra EXCEPT !.value = w]
    BY DEF ReadDbgInsns, Fill
  <1>1. DOMAIN insns = 1..Len(insns) /\ Len(insns) \in Nat
    BY ListFacts
  <1>2. IsList(reads) /\ Len(reads) = Len(insns)
    BY <1>1, ListOf
  <1>b. \A i \in 1..Len(insns) :
          insns[i].opcode \in Locals => DbgInsnReadable(Len(c.strs), Len(c.types), insns[i])
    BY DEF InsnsSurvive
  <1>3. ASSUME NEW i \in 1..Len(insns)
        PROVE  /\ reads[i] = ReadDbgInsn(c, insns[i])
               /\ Pays(reads[i], FreeDbgInsn(reads[i].value), exact)
               /\ reads[i].ok <=> DbgInsnReadable(Len(c.strs), Len(c.types), insns[i])
               /\ insns[i].opcode # "unreadable" => reads[i].value.opcode = insns[i].opcode
               /\ insns[i].opcode = "unreadable" => reads[i].took = << >>
               /\ insns[i].opcode = "end_sequence" => reads[i].took = << >>
    <2>1. reads[i] = ReadDbgInsn(c, insns[i])
      BY <1>1
    <2> HIDE DEF reads
    <2> DEFINE in == insns[i]
    <2>2. in.opcode \in Locals => DbgInsnReadable(Len(c.strs), Len(c.types), in)
      BY <1>b
    <2> HIDE DEF in
    <2>3. /\ Pays(ReadDbgInsn(c, in), FreeDbgInsn(ReadDbgInsn(c, in).value), exact)
          /\ ReadDbgInsn(c, in).ok <=> DbgInsnReadable(Len(c.strs), Len(c.types), in)
          /\ in.opcode # "unreadable" => ReadDbgInsn(c, in).value.opcode = in.opcode
          /\ in.opcode = "unreadable" => ReadDbgInsn(c, in).took = << >>
          /\ in.opcode = "end_sequence" => ReadDbgInsn(c, in).took = << >>
      BY <2>2, DbgInsnPays
    <2>4. in = insns[i]
      BY DEF in
    <2> QED
      BY <2>1, <2>3, <2>4
  <1>4. begun2 = begun
    <2>1. ASSUME NEW i \in 1..Len(insns), NEW k \in 1..(i - 1)
          PROVE  ReadDbgInsn(c, insns[k]).ok <=> DbgInsnReadable(Len(c.strs), Len(c.types), insns[k])
      <3>1. k \in 1..Len(insns)
        BY <1>1
      <3> QED
        BY <1>3, <3>1
    <2> QED
      BY <1>1, <2>1 DEF Begun
  <1> DEFINE all == \A i \in 1..Len(insns) : reads[i].ok
  <1>5. w = IF all THEN v
            ELSE [i \in 1..Room(Cardinality(begun)) |-> IF i \in begun THEN v[i] ELSE ZeroDbgInsn]
    <2>1. (\A i \in DOMAIN insns : ReadDbgInsn(c, insns[i]).ok) <=> all
      BY <1>1, <1>3
    <2> HIDE DEF all, begun2, v
    <2> QED
      BY <1>4, <2>1
  <1> HIDE DEF reads, w, begun2, begun
  <1>6. /\ IsList(v) /\ Len(v) = Len(insns) /\ DOMAIN v = 1..Len(insns)
        /\ \A i \in 1..Len(insns) : i <= LastRead(reads) => v[i] = reads[i].value
    BY <1>2, ReadArrayFacts, ListFacts
  <1>7. /\ LastRead(reads) \in 0..Len(insns)
        /\ \A i \in 1..Len(insns) : i < LastRead(reads) => reads[i].ok
        /\ all => LastRead(reads) = Len(insns)
        /\ ~all => LastRead(reads) >= 1 /\ ~reads[LastRead(reads)].ok
    <2>1. /\ LastRead(reads) \in 0..Len(reads)
          /\ \A i \in 1..Len(reads) : i < LastRead(reads) => reads[i].ok
          /\ \/ LastRead(reads) = Len(reads) /\ \A i \in 1..Len(reads) : reads[i].ok
             \/ LastRead(reads) >= 1 /\ ~reads[LastRead(reads)].ok
      BY <1>2, LastFacts
    <2> QED
      BY <1>1, <1>2, <2>1
  <1>8. IsResult(ra) /\ ra.took = <<Block("debug_insns")>> \o FlattenSeq([i \in 1..LastRead(reads) |-> reads[i].took])
    <2> DEFINE io == InOrder(reads, ZeroDbgInsn)
    <2>1. io.took = FlattenSeq([i \in 1..LastRead(reads) |-> reads[i].took])
      BY <1>2, InOrderFacts
    <2>2. \A i \in 1..LastRead(reads) : reads[i].took \in Seq(Tokens)
      BY <1>1, <1>3, <1>7 DEF Pays, Paid
    <2>3. [i \in 1..LastRead(reads) |-> reads[i].took] \in Seq(Seq(Tokens))
      BY <1>7, <2>2
    <2>4. io.took \in Seq(Tokens)
      BY <2>1, <2>3, OccFlatten
    <2>5. io = Result(io.value, io.ok, io.took) /\ io.ok \in BOOLEAN
      BY <1>2, InOrderFacts
    <2>6. ra = After(<<Block("debug_insns")>>, io)
      BY DEF ReadArray
    <2>7. <<Block("debug_insns")>> \in Seq(Tokens)
      <3>1. "debug_insns" \in Kinds
        BY DEF Kinds
      <3> QED
        BY <3>1, BlockToken
    <2> HIDE DEF io, ra
    <2>8. Pays(io, io.took, exact)
      BY <2>4, <2>5, PaidSame DEF Pays, IsResult
    <2>9. IsResult(ra) /\ ra.took = <<Block("debug_insns")>> \o io.took
      BY <2>6, <2>7, <2>8, AfterPays DEF Pays
    <2> QED
      BY <2>1, <2>9
  <1>9. \E m \in Nat : /\ m < Len(w) /\ m <= LastRead(reads) /\ w[m + 1].opcode = "end_sequence"
                       /\ \A i \in 1..m : w[i].opcode # "end_sequence"
                       /\ \A i \in 1..m : Paid(reads[i].took, FreeDbgInsn(w[i]), exact)
                       /\ \A i \in 1..Len(insns) : m < i /\ i <= LastRead(reads) => reads[i].took = << >>
                       /\ IsList(w)
    <2>1. CASE all
      <3> DEFINE m == Len(insns) - 1
      <3>1. \A i \in 1..Len(insns) : DbgInsnReadable(Len(c.strs), Len(c.types), insns[i])
        BY <1>3, <2>1
      <3>2. Len(insns) > 0 /\ insns[Len(insns)].opcode = "end_sequence"
        BY <3>1 DEF InsnsSurvive
      <3>3. w = v /\ m \in Nat /\ m + 1 = Len(insns) /\ LastRead(reads) = Len(insns)
        BY <1>1, <1>5, <1>7, <2>1, <3>2
      <3> HIDE DEF m
      <3>4. \A i \in 1..Len(insns) : w[i] = reads[i].value /\ insns[i].opcode # "unreadable"
        BY <1>6, <3>1, <3>3 DEF DbgInsnReadable
      <3>5. \A i \in 1..Len(insns) : w[i].opcode = insns[i].opcode
        BY <1>3, <3>4
      <3>6. Len(insns) \in 1..Len(insns)
        BY <1>1, <3>2
      <3>7. w[m + 1].opcode = "end_sequence"
        BY <3>2, <3>3, <3>5, <3>6
      <3>8. \A i \in 1..m : i \in 1..Len(insns) /\ i # Len(insns)
        <4>1. \A n \in Nat, k \in Nat : k + 1 = n => \A i \in 1..k : i \in 1..n /\ i # n
          OBVIOUS
        <4>2. m \in Nat /\ m + 1 = Len(insns) /\ Len(insns) \in Nat
          BY <1>1, <3>3
        <4> QED
          BY <4>1, <4>2
      <3>9. ASSUME NEW i \in 1..m PROVE w[i].opcode # "end_sequence"
        <4>1. i \in 1..Len(insns) /\ i # Len(insns)
          BY <3>8
        <4>2. insns[i].opcode # "end_sequence"
          BY <4>1 DEF InsnsSurvive
        <4> QED
          BY <3>5, <4>1, <4>2
      <3>10. \A i \in 1..m : Paid(reads[i].took, FreeDbgInsn(w[i]), exact)
        BY <1>3, <3>4, <3>8 DEF Pays
      <3>11. \A i \in 1..Len(insns) : m < i => i = Len(insns)
        <4>1. \A n \in Nat, k \in Nat : k + 1 = n => \A i \in 1..n : k < i => i = n
          OBVIOUS
        <4>2. m \in Nat /\ m + 1 = Len(insns) /\ Len(insns) \in Nat
          BY <1>1, <3>3
        <4> QED
          BY <4>1, <4>2
      <3>12. \A i \in 1..Len(insns) : m < i /\ i <= LastRead(reads) => reads[i].took = << >>
        BY <1>3, <3>2, <3>11
      <3>13. m < Len(w) /\ m <= LastRead(reads) /\ IsList(w)
        BY <1>1, <1>6, <3>3
      <3> QED
        BY <3>3, <3>7, <3>9, <3>10, <3>12, <3>13
    <2>2. CASE ~all
      <3> DEFINE j == LastRead(reads)
                 m == IF insns[j].opcode = "unreadable" THEN j - 1 ELSE j
      <3>1. j \in 1..Len(insns) /\ ~reads[j].ok /\ \A i \in 1..Len(insns) : i < j => reads[i].ok
        BY <1>1, <1>7, <2>2
      <3> HIDE DEF j
      <3>2. m \in Nat /\ m <= j /\ j - 1 <= m
        BY <1>1, <3>1
      <3>3. begun = 1..m
        <4>1. ASSUME NEW i \in 1..Len(insns) PROVE i \in begun <=> i <= m
          <5>1. i \in begun <=> /\ insns[i].opcode # "unreadable"
                                /\ \A k \in 1..(i - 1) : DbgInsnReadable(Len(c.strs), Len(c.types), insns[k])
            BY DEF Begun, begun
          <5>2. \A k \in 1..(i - 1) : k \in 1..Len(insns) /\ k < i
            BY <1>1
          <5>3. CASE i < j
            <6>1. \A k \in 1..(i - 1) : reads[k].ok
              BY <1>1, <3>1, <5>2, <5>3
            <6>2. reads[i].ok
              BY <3>1, <5>3
            <6>3. insns[i].opcode # "unreadable"
              BY <1>3, <6>2 DEF DbgInsnReadable
            <6>4. \A k \in 1..(i - 1) : DbgInsnReadable(Len(c.strs), Len(c.types), insns[k])
              BY <1>3, <5>2, <6>1
            <6> QED
              BY <1>1, <3>1, <3>2, <5>1, <5>3, <6>3, <6>4
          <5>4. CASE i = j
            <6>1. \A k \in 1..(i - 1) : reads[k].ok
              BY <3>1, <5>2, <5>4
            <6>2. \A k \in 1..(i - 1) : DbgInsnReadable(Len(c.strs), Len(c.types), insns[k])
              BY <1>3, <5>2, <6>1
            <6> QED
              BY <3>1, <5>1, <5>4, <6>2
          <5>5. CASE i > j
            <6>1. j \in 1..(i - 1)
              BY <1>1, <3>1, <5>5
            <6>2. ~DbgInsnReadable(Len(c.strs), Len(c.types), insns[j])
              BY <1>3, <3>1
            <6> QED
              BY <1>1, <3>1, <3>2, <5>1, <5>5, <6>1, <6>2
          <5> QED
            BY <1>1, <3>1, <5>3, <5>4, <5>5
        <4>2. begun \subseteq 1..Len(insns) /\ 1..m \subseteq 1..Len(insns)
          BY <1>1, <3>1, <3>2 DEF Begun, begun
        <4>3. \A i \in 1..Len(insns) : i \in 1..m <=> i <= m
          BY <3>2
        <4> HIDE DEF m
        <4> QED
          BY <4>1, <4>2, <4>3
      <3> DEFINE room == Room(Cardinality(begun))
      <3>4. Cardinality(begun) = m
        <4> HIDE DEF m
        <4>1. Cardinality(1..m) = m
          BY <3>2, FS_Interval
        <4> QED
          BY <3>3, <4>1
      <3>5. \E i \in 1..Len(insns) : ~DbgInsnReadable(Len(c.strs), Len(c.types), insns[i])
        BY <1>3, <3>1
      <3>6. room \in Nat /\ m < room
        BY <3>4, <3>5 DEF InsnsSurvive, begun
      <3>7. w = [i \in 1..room |-> IF i \in begun THEN v[i] ELSE ZeroDbgInsn]
        BY <1>5, <2>2
      <3> HIDE DEF room, all
      <3>8. IsList(w) /\ Len(w) = room /\ DOMAIN w = 1..room
        BY <3>6, <3>7, ListOf
      <3>9. w[m + 1] = ZeroDbgInsn
        <4> HIDE DEF m
        <4>1. m + 1 \in 1..room /\ m + 1 \notin begun
          BY <3>2, <3>3, <3>6
        <4> QED
          BY <3>7, <4>1
      <3>10. ASSUME NEW i \in 1..m
             PROVE  /\ i \in 1..Len(insns) /\ w[i] = reads[i].value
                    /\ insns[i].opcode # "unreadable"
        <4>1. i \in 1..Len(insns) /\ i <= j /\ i \in 1..room /\ i \in begun
          <5> HIDE DEF m
          <5> QED
            BY <1>1, <3>1, <3>2, <3>3, <3>6
        <4>2. w[i] = v[i]
          BY <3>7, <4>1
        <4>3. v[i] = reads[i].value
          BY <1>6, <4>1 DEF j
        <4>4. insns[i].opcode # "unreadable"
          BY <4>1 DEF Begun, begun
        <4> QED
          BY <4>1, <4>2, <4>3, <4>4
      <3>11. ASSUME NEW i \in 1..m PROVE w[i].opcode # "end_sequence"
        <4>1. w[i].opcode = insns[i].opcode /\ i \in 1..Len(insns)
          BY <1>3, <3>10
        <4>2. ASSUME insns[i].opcode = "end_sequence" PROVE FALSE
          <5>1. i = Len(insns)
            BY <4>1, <4>2 DEF InsnsSurvive
          <5>2. i = j
            <6> HIDE DEF m
            <6>1. i \in Nat /\ j \in Nat /\ i <= m /\ m <= j /\ j <= Len(insns) /\ m \in Nat
              BY <1>1, <3>1, <3>2
            <6> QED
              BY <5>1, <6>1
          <5>3. DbgInsnReadable(Len(c.strs), Len(c.types), insns[i])
            BY <4>2 DEF DbgInsnReadable, Locals
          <5> QED
            BY <1>3, <3>1, <5>2, <5>3
        <4> QED
          BY <4>1, <4>2
      <3>12. \A i \in 1..m : Paid(reads[i].took, FreeDbgInsn(w[i]), exact)
        BY <1>3, <3>10 DEF Pays
      <3>13. ASSUME NEW i \in 1..Len(insns), m < i, i <= j PROVE reads[i].took = << >>
        <4>1. i = j /\ insns[j].opcode = "unreadable"
          BY <1>1, <3>1, <3>13
        <4> QED
          BY <1>3, <4>1
      <3>14. ZeroDbgInsn.opcode = "end_sequence"
        BY DEF ZeroDbgInsn
      <3> HIDE DEF m
      <3> QED
        BY <3>2, <3>6, <3>8, <3>9, <3>11, <3>12, <3>13, <3>14 DEF j
    <2> QED
      BY <2>1, <2>2
  <1>10. PICK m \in Nat :
            /\ m < Len(w) /\ m <= LastRead(reads) /\ w[m + 1].opcode = "end_sequence"
            /\ \A i \in 1..m : w[i].opcode # "end_sequence"
            /\ \A i \in 1..m : Paid(reads[i].took, FreeDbgInsn(w[i]), exact)
            /\ \A i \in 1..Len(insns) : m < i /\ i <= LastRead(reads) => reads[i].took = << >>
            /\ IsList(w)
    BY <1>9
  <1> DEFINE run == Before(w, LAMBDA in : in.opcode = "end_sequence")
             tt == FlattenSeq([i \in DOMAIN run |-> FreeDbgInsn(run[i])])
  <1>11. /\ Len(run) = m
         /\ Paid(FlattenSeq([i \in 1..LastRead(reads) |-> reads[i].took]), tt, exact)
    BY <1>2, <1>10, DebugRun
  <1>12. r = Result(w, ra.ok, ra.took)
    <2> HIDE DEF r, ra
    <2> QED
      BY <1>0, <1>8, FillResult
  <1> HIDE DEF r, ra
  <1>13. r.value = w /\ r.took = ra.took /\ r.ok = ra.ok
    BY <1>12 DEF Result
  <1>14. IsResult(r)
    BY <1>8, <1>12, <1>13 DEF IsResult
  <1>15. Paid(<<Block("debug_insns")>>, <<Block("debug_insns")>>, exact)
    <2>1. "debug_insns" \in Kinds
      BY DEF Kinds
    <2>2. <<Block("debug_insns")>> \in Seq(Tokens)
      BY <2>1, BlockToken
    <2> QED
      BY <2>2, PaidSame
  <1> HIDE DEF tt
  <1>16. Paid(r.took, tt \o <<Block("debug_insns")>>, exact)
    BY <1>8, <1>11, <1>13, <1>15, PaidTurn
  <1>17. Len(run) # Len(w)
    BY <1>10, <1>11
  <1>18. tt \in Seq(Tokens)
    BY <1>11 DEF Paid
  <1> QED
    BY <1>10, <1>13, <1>14, <1>16, <1>17, <1>18 DEF tt, r

(* The name of a parameter pays; one that is missing is the empty string.  *)
LEMMA ParameterNamePays ==
  ASSUME NullApart, NEW exact, NEW c, Ctx(c), NEW name, Index(Len(c.strs), name)
  PROVE  LET r == ReadParameterName(c, name)
         IN  Pays(r, FreeRef(r.value), exact) /\ r.ok /\ r.value # NULL
  <1>0. IsList(c.strs) /\ \A i \in 1..Len(c.strs) : c.strs[i] \in Tokens
    BY RefTokens DEF Ctx
  <1>1. CASE name = NULL
    <2>1. ReadParameterName(c, name) = Done(EmptyStr, <<EmptyStr>>)
      BY <1>1 DEF ReadParameterName
    <2>2. EmptyStr \in Tokens
      <3>1. EmptyStr = Str(0) /\ 0 \in Nat
        BY DEF EmptyStr, Str
      <3> QED
        BY <3>1, RefTokens DEF Strs
    <2>3. FreeRef(EmptyStr) = <<EmptyStr>> /\ EmptyStr # NULL /\ <<EmptyStr>> \in Seq(Tokens)
      BY <2>2, FreeRefFacts, NotNull
    <2>4. LET d == Done(EmptyStr, <<EmptyStr>>)
          IN  Pays(d, <<EmptyStr>>, exact) /\ d.value = EmptyStr /\ d.ok = TRUE
      BY <2>3, DonePays
    <2> QED
      BY <2>1, <2>3, <2>4
  <1>2. CASE name # NULL
    <2>1. ReadParameterName(c, name) = ReadRef(c.strs, name)
      BY <1>2 DEF ReadParameterName
    <2>2. name \in 1..Len(c.strs)
      BY <1>2 DEF Index
    <2> DEFINE r == ReadRef(c.strs, name)
    <2>3. /\ IsResult(r)
          /\ Paid(r.took, FreeRef(r.value), exact)
          /\ r.ok <=> name \in 1..Len(c.strs)
          /\ r.ok => r.value = c.strs[name]
      BY <1>0, ReadRefPaid
    <2> HIDE DEF r
    <2>4. r.value # NULL
      BY <1>0, <2>2, <2>3, NotNull
    <2> QED
      BY <2>1, <2>2, <2>3, <2>4 DEF Pays, r
  <1> QED
    BY <1>1, <1>2

(* What is freed in another order than it was taken in.                    *)
LEMMA PaidMiddle ==
  ASSUME NEW exact, NEW s, NEW free, Paid(s, free, exact), NEW t, NEW f \in Seq(Tokens),
         NEW b \in Seq(Tokens), Paid(t, f \o b, exact)
  PROVE  Paid(s \o t, f \o << >> \o free \o b, exact)
  <1>1. s \in Seq(Tokens) /\ t \in Seq(Tokens) /\ free \in Seq(Tokens)
    BY DEF Paid
  <1>2. f \o << >> = f
    OBVIOUS
  <1>3. s \o t \in Seq(Tokens) /\ f \o free \in Seq(Tokens) /\ (f \o free) \o b \in Seq(Tokens)
    BY <1>1, OccSum
  <1>4. ASSUME NEW x
        PROVE  /\ Occurrences((f \o free) \o b, x) <= Occurrences(s \o t, x)
               /\ exact => Occurrences((f \o free) \o b, x) = Occurrences(s \o t, x)
    <2>1. /\ Occurrences((f \o free) \o b, x) = Occurrences(f \o free, x) + Occurrences(b, x)
          /\ Occurrences(f \o free, x) = Occurrences(f, x) + Occurrences(free, x)
          /\ Occurrences(f \o b, x) = Occurrences(f, x) + Occurrences(b, x)
          /\ Occurrences(s \o t, x) = Occurrences(s, x) + Occurrences(t, x)
      <3> DEFINE g == f \o free
      <3>1. g \in Seq(Tokens)
        BY <1>3
      <3>2. Occurrences(f \o free, x) = Occurrences(f, x) + Occurrences(free, x)
        BY <1>1, OccSum
      <3>3. Occurrences(f \o b, x) = Occurrences(f, x) + Occurrences(b, x)
        BY OccSum
      <3>4. Occurrences(s \o t, x) = Occurrences(s, x) + Occurrences(t, x)
        BY <1>1, OccSum
      <3> HIDE DEF g
      <3>5. Occurrences(g \o b, x) = Occurrences(g, x) + Occurrences(b, x)
        BY <3>1, OccSum
      <3> QED
        BY <3>2, <3>3, <3>4, <3>5 DEF g
    <2>2. /\ Occurrences(f, x) \in Nat /\ Occurrences(b, x) \in Nat
          /\ Occurrences(free, x) \in Nat /\ Occurrences(s, x) \in Nat /\ Occurrences(t, x) \in Nat
      BY <1>1, OccNat
    <2>3. /\ Occurrences(free, x) <= Occurrences(s, x)
          /\ Occurrences(f \o b, x) <= Occurrences(t, x)
          /\ exact => Occurrences(free, x) = Occurrences(s, x)
          /\ exact => Occurrences(f \o b, x) = Occurrences(t, x)
      BY DEF Paid
    <2> QED
      BY <2>1, <2>2, <2>3
  <1> QED
    BY <1>2, <1>3, <1>4 DEF Paid

(* Debug information that survives pays.                                   *)
LEMMA DebugSectionPays ==
  ASSUME NullApart, NEW exact, NEW c, Ctx(c), NEW di, DebugShape(di),
         DebugSurvives(Len(c.strs), Len(c.types), di)
  PROVE  LET r == ReadDebugSection(c, di)
         IN  Pays(r, FreeDebugInfo(r.value), exact) /\ r.value # NULL
  <1> DEFINE reads == [i \in DOMAIN di.parameter_names |-> ReadParameterName(c, di.parameter_names[i])]
             a == ReadStrstr(reads)
             b == ReadDbgInsns(c, di.insns)
             io == InOrder(<<a, b>>, NULL)
             w == [parameter_names |-> io.value[1], insns |-> io.value[2]]
  <1>1. di # NULL /\ IsList(di.parameter_names) /\ IsList(di.insns)
    BY DEF DebugShape, DebugSurvives
  <1>2. \A i \in 1..Len(di.parameter_names) : Index(Len(c.strs), di.parameter_names[i])
    BY DEF DebugSurvives
  <1>3. InsnsSurvive(Len(c.strs), Len(c.types), di.insns)
    <2>1. \A i \in 1..Len(di.insns) : di.insns[i].opcode = "end_sequence" => i = Len(di.insns)
      BY <1>1 DEF DebugShape
    <2> QED
      BY <2>1 DEF DebugSurvives, InsnsSurvive, Begun
  <1>4. IsList(reads) /\ Len(reads) = Len(di.parameter_names)
        /\ DOMAIN di.parameter_names = 1..Len(di.parameter_names)
    BY <1>1, ListFacts, ListOf
  <1>5. \A i \in 1..Len(reads) : reads[i] = ReadParameterName(c, di.parameter_names[i])
    BY <1>4
  <1>6. ReadDebugSection(c, di) = [io EXCEPT !.value = w]
    BY <1>1 DEF ReadDebugSection, Fill
  <1> HIDE DEF reads
  <1>7. \A i \in 1..Len(reads) : /\ Pays(reads[i], FreeRef(reads[i].value), exact)
                                 /\ reads[i].ok /\ reads[i].value # NULL
    BY <1>2, <1>4, <1>5, ParameterNamePays
  <1>8. /\ Pays(a, FreeStrstr(a.value), exact)
        /\ a.value # NULL
        /\ a.ok
    BY <1>4, <1>7, StrstrPays
  <1> DEFINE run == Before(b.value, LAMBDA in : in.opcode = "end_sequence")
             f == FlattenSeq([i \in DOMAIN run |-> FreeDbgInsn(run[i])])
             blk == <<Block("debug_insns")>>
  <1>9. /\ IsResult(b) /\ IsList(b.value) /\ Len(run) # Len(b.value)
        /\ f \in Seq(Tokens)
        /\ Paid(b.took, f \o blk, exact)
    BY <1>1, <1>3, DebugInsnsPay
  <1>10. b.value # NULL
    BY <1>9, NotNull
  <1>11. FreeDebugInfo(w) = f \o << >> \o FreeStrstr(a.value) \o blk
         /\ io.ok = (a.ok /\ b.ok) /\ io.took = a.took \o b.took /\ IsResult(io)
    <2>1. IsResult(a) /\ IsResult(b)
      BY <1>8, <1>9 DEF Pays
    <2> HIDE DEF a, b
    <2>a. a.ok = TRUE
      BY <1>8, <2>1 DEF IsResult
    <2>b. /\ io.value[1] = a.value
          /\ io.value[2] = IF a.ok THEN b.value ELSE NULL
          /\ io.took = IF a.ok THEN a.took \o b.took ELSE a.took
          /\ io.ok = (a.ok /\ b.ok)
          /\ IsResult(io)
      BY <2>1, InOrderTwo
    <2> HIDE DEF io
    <2>2. /\ io.value[1] = a.value
          /\ io.value[2] = b.value
          /\ io.took = a.took \o b.took
          /\ io.ok = (a.ok /\ b.ok)
          /\ IsResult(io)
      BY <2>a, <2>b
    <2>3. w.insns = b.value /\ w.parameter_names = a.value
      BY <2>2
    <2> HIDE DEF w
    <2>4. FreeDebugInfo(w) = f \o (IF Len(run) = Len(b.value) THEN <<Fault>> ELSE << >>)
                               \o FreeStrstr(a.value) \o blk
      BY <1>10, <2>3 DEF FreeDebugInfo
    <2> QED
      BY <1>9, <2>2, <2>4
  <1>12. f \in Seq(Tokens)
    BY <1>9
  <1>13. blk \in Seq(Tokens)
    <2>1. "debug_insns" \in Kinds
      BY DEF Kinds
    <2> QED
      BY <2>1, BlockToken
  <1> HIDE DEF f, blk, run
  <1>14. Paid(a.took \o b.took, f \o << >> \o FreeStrstr(a.value) \o blk, exact)
    <2> HIDE DEF a, b
    <2>1. Paid(a.took, FreeStrstr(a.value), exact)
      BY <1>8 DEF Pays
    <2> QED
      BY <1>9, <1>12, <1>13, <2>1, PaidMiddle
  <1>15. w # NULL
    BY DEF NullApart
  <1> HIDE DEF io, w, a, b
  <1>16. ReadDebugSection(c, di) = Result(w, io.ok, io.took)
    BY <1>6, <1>11, FillResult
  <1>17. io.ok \in BOOLEAN
    BY <1>11 DEF IsResult
  <1>18. Pays(Result(w, io.ok, io.took), FreeDebugInfo(w), exact)
    BY <1>11, <1>14, <1>17, ResultPays
  <1>19. Result(w, io.ok, io.took).value = w
    BY DEF Result
  <1> QED
    BY <1>15, <1>16, <1>18, <1>19

(* The kinds of instructions, by what they refer to.                       *)
InsnKinds ==
  {"string", "type", "field", "method", "packed_switch", "sparse_switch", "fill_data_array", "none",
   "unreadable"}

(* The tables of a switch or of an array are released with their           *)
(* instruction.                                                            *)
LEMMA TablesTokens ==
  ASSUME NEW special \in {"packed_switch", "sparse_switch", "fill_data_array", "none"}
  PROVE  SwitchTables(special) \in Seq(Tokens)
         /\ FreeInstruction([special |-> special, refs |-> SwitchTables(special)]) = SwitchTables(special)
  <1>1. "targets" \in Kinds /\ "keys" \in Kinds /\ "data" \in Kinds
    BY DEF Kinds
  <1>2. Block("targets") \in Tokens /\ Block("keys") \in Tokens /\ Block("data") \in Tokens
    BY <1>1, BlockToken
  <1>3. CASE special = "packed_switch"
    BY <1>2, <1>3 DEF SwitchTables, FreeInstruction, Pointing
  <1>4. CASE special = "sparse_switch"
    BY <1>2, <1>4 DEF SwitchTables, FreeInstruction, Pointing
  <1>5. CASE special = "fill_data_array"
    BY <1>2, <1>5 DEF SwitchTables, FreeInstruction, Pointing
  <1>6. CASE special = "none"
    BY <1>2, <1>6 DEF SwitchTables, FreeInstruction, Pointing
  <1> QED
    BY <1>3, <1>4, <1>5, <1>6

(* An instruction pays.                                                    *)
LEMMA InsnPays ==
  ASSUME NEW exact, NEW c, Ctx(c), NEW in, in.special \in InsnKinds
  PROVE  Pays(ReadInsn(c, in), FreeInstruction(ReadInsn(c, in).value), exact)
  <1>1. CASE in.special \in {"string", "type", "field", "method"}
    <2>0. in.special \in RefTypes /\ in.special \in Pointing
      BY <1>1 DEF RefTypes, Pointing
    <2>1. CASE in.idx \in Indexes(c, in.special)
      <3> DEFINE refs == Refs(c, in.special, in.idx)
                 v == [special |-> in.special, refs |-> refs]
      <3>1. refs \in Seq(Tokens)
        BY <2>0, <2>1, RefsTokens
      <3>2. ReadInsn(c, in) = Done(v, refs)
        BY <1>1, <2>1 DEF ReadInsn
      <3>3. FreeInstruction(v) = refs
        BY <2>0 DEF FreeInstruction
      <3> HIDE DEF v, refs
      <3>4. Pays(Done(v, refs), refs, exact) /\ Done(v, refs).value = v
        BY <3>1, DonePays
      <3> QED
        BY <3>2, <3>3, <3>4
    <2>2. CASE in.idx \notin Indexes(c, in.special)
      <3> DEFINE v == [special |-> in.special, refs |-> << >>]
      <3>1. ReadInsn(c, in) = Failed(v)
        BY <1>1, <2>2 DEF ReadInsn
      <3>2. FreeInstruction(v) = << >>
        BY DEF FreeInstruction
      <3> HIDE DEF v
      <3>3. Pays(Failed(v), << >>, exact) /\ Failed(v).value = v
        BY FailedPays
      <3> QED
        BY <3>1, <3>2, <3>3
    <2> QED
      BY <2>1, <2>2
  <1>2. CASE in.special \in {"packed_switch", "sparse_switch", "fill_data_array", "none"}
    <2> DEFINE refs == SwitchTables(in.special)
               v == [special |-> in.special, refs |-> refs]
    <2>1. refs \in Seq(Tokens) /\ FreeInstruction(v) = refs
      BY <1>2, TablesTokens
    <2>2. ReadInsn(c, in) = Done(v, refs)
      BY <1>2 DEF ReadInsn
    <2> HIDE DEF v, refs
    <2>3. Pays(Done(v, refs), refs, exact) /\ Done(v, refs).value = v
      BY <2>1, DonePays
    <2> QED
      BY <2>1, <2>2, <2>3
  <1>3. CASE in.special = "unreadable"
    <2>1. ReadInsn(c, in) = Failed(ZeroInsn)
      BY <1>3 DEF ReadInsn
    <2>2. FreeInstruction(ZeroInsn) = << >>
      BY DEF FreeInstruction, ZeroInsn
    <2>3. Pays(Failed(ZeroInsn), << >>, exact) /\ Failed(ZeroInsn).value = ZeroInsn
      BY FailedPays
    <2> QED
      BY <2>1, <2>2, <2>3
  <1> QED
    BY <1>1, <1>2, <1>3 DEF InsnKinds

(* The lists of a code item, as one release function each.                 *)
FreeInsns(insns) == FreeWhole(insns, FreeInstruction, "insns")
(* The instructions of a code item pay.                                    *)
LEMMA DalvikPays ==
  ASSUME NullApart, NEW exact, NEW c, Ctx(c), NEW insns, insns # NULL => IsList(insns),
         insns # NULL => \A i \in 1..Len(insns) : insns[i].special \in InsnKinds
  PROVE  Pays(ReadDalvik(c, insns), FreeInsns(ReadDalvik(c, insns).value), exact)
  <1>1. CASE insns = NULL
    <2>1. ReadDalvik(c, insns) = Failed(NULL)
      BY <1>1 DEF ReadDalvik
    <2>2. FreeInsns(NULL) = << >>
      BY DEF FreeInsns, FreeWhole, FreeArray
    <2>3. Pays(Failed(NULL), << >>, exact) /\ Failed(NULL).value = NULL
      BY FailedPays
    <2> QED
      BY <2>1, <2>2, <2>3
  <1>2. CASE insns # NULL
    <2> DEFINE reads == [i \in DOMAIN insns |-> ReadInsn(c, insns[i])]
               ra == ReadArray(reads, ZeroInsn, "insns")
               v == ReadArray(reads, ZeroInsn, "insns").value
               tt == [i \in DOMAIN v |-> FreeInstruction(v[i])]
               ends == {i \in DOMAIN v : FALSE}
    <2>a1. IsList(insns) /\ DOMAIN insns = 1..Len(insns) /\ Len(insns) \in Nat
      BY <1>2, ListFacts
    <2>a2. IsList(reads) /\ Len(reads) = Len(insns)
      BY <2>a1, ListOf
    <2>a3. "insns" \in Kinds
      BY DEF Kinds
    <2>a4. \A i \in 1..Len(reads) : reads[i] = ReadInsn(c, insns[i])
      BY <2>a1, <2>a2
    <2>a5. ReadDalvik(c, insns) = ra
      BY <1>2 DEF ReadDalvik
    <2> HIDE DEF reads
    <2>a6. IsList(v) /\ Len(v) = Len(reads) /\ DOMAIN v = 1..Len(reads) /\ v # NULL
      BY <2>a2, ReadArrayFacts, ListFacts, NotNull
    <2>a7. IsList(tt) /\ Len(tt) = Len(reads) /\ DOMAIN tt = 1..Len(reads)
      BY <2>a1, <2>a2, <2>a6, ListOf
    <2>a8. FreeInstruction(ZeroInsn) = << >>
      BY DEF FreeInstruction, ZeroInsn
    <2>a9. ASSUME NEW i \in 1..Len(reads), v[i] = reads[i].value
          PROVE  /\ Paid(reads[i].took, tt[i], exact)
                 /\ exact /\ i \in ends => ~reads[i].ok /\ tt[i] = << >>
      <3>1. insns[i].special \in InsnKinds
        BY <1>2, <2>a2
      <3> DEFINE in == insns[i]
                 re == ReadInsn(c, in)
      <3>2. Pays(re, FreeInstruction(re.value), exact)
        BY <3>1, InsnPays
      <3>3. reads[i] = re /\ i \notin ends
        BY <2>a4
      <3> HIDE DEF re
      <3> QED
        BY <2>a6, <2>a9, <3>2, <3>3 DEF Pays
    <2>b1. ASSUME NEW i \in 1..Len(reads), v[i] = ZeroInsn PROVE tt[i] = << >>
      BY <2>a6, <2>a8, <2>b1
    <2>b2. FreeInsns(v) = FlattenSeq(UpTo(tt, ends)) \o <<Block("insns")>>
      BY <2>a6 DEF FreeInsns, FreeWhole, FreeArray
    <2>b3. ends \in SUBSET DOMAIN tt
      BY <2>a6, <2>a7
    <2>b4. exact => \A e \in ends : v[e] = reads[e].value => ~reads[e].ok /\ tt[e] = << >>
      BY <2>a6, <2>a9
    <2> HIDE DEF tt, ends
    <2> DEFINE z == v
    <2>b5. z = ReadArray(reads, ZeroInsn, "insns").value
      OBVIOUS
    <2>b6. /\ \A i \in 1..Len(reads) : z[i] = reads[i].value => Paid(reads[i].took, tt[i], exact)
           /\ \A i \in 1..Len(reads) : z[i] = ZeroInsn => tt[i] = << >>
           /\ exact => \A e \in ends : z[e] = reads[e].value => ~reads[e].ok /\ tt[e] = << >>
      BY <2>a9, <2>b1, <2>b4
    <2> HIDE DEF z
    <2>b7. Pays(ra, FlattenSeq(UpTo(tt, ends)) \o <<Block("insns")>>, exact)
      BY <2>a2, <2>a3, <2>a7, <2>b3, <2>b5, <2>b6, ArrayPays
    <2>b8. ra.ok <=> \A i \in 1..Len(reads) : reads[i].ok
      BY <2>a2, ReadArrayFacts
    <2> QED
      BY <2>a5, <2>b2, <2>b7 DEF z
  <1> QED
    BY <1>1, <1>2

(* A handler pays, and keeps its address.                                  *)
LEMMA HandlerPays ==
  ASSUME NullApart, NEW exact, NEW c, Ctx(c), NEW h, exact => h.addr # LastAddr
  PROVE  LET r == ReadHandler(c, h)
         IN  Pays(r, FreeHandler(r.value), exact) /\ (exact => r.value.addr # LastAddr)
  <1>0. IsList(c.types) /\ \A i \in 1..Len(c.types) : c.types[i] \in Tokens
    BY RefTokens DEF Ctx
  <1> DEFINE r == ReadRef(c.types, h.type)
             v == [type |-> r.value, addr |-> h.addr]
             w == IF r.ok THEN v ELSE ZeroHandler
  <1>1. IsResult(r) /\ Paid(r.took, FreeRef(r.value), exact) /\ (~r.ok => r = Failed(NULL))
    BY <1>0, ReadRefPaid
  <1>2. ReadHandler(c, h) = [r EXCEPT !.value = w]
    BY DEF ReadHandler, FillIfRead
  <1>3. FreeHandler(v) = FreeRef(r.value) /\ v.addr = h.addr
    BY DEF FreeHandler
  <1>4. FreeHandler(ZeroHandler) = << >> /\ ZeroHandler.addr # LastAddr
    BY FreeRefFacts DEF FreeHandler, ZeroHandler, LastAddr
  <1> HIDE DEF r, v
  <1>5. Failed(NULL).took = << >>
    BY FailedPays
  <1>6. Paid(r.took, FreeHandler(w), exact) /\ (exact => w.addr # LastAddr)
    BY <1>1, <1>3, <1>4, <1>5, NoTokens
  <1>7. r.ok \in BOOLEAN
    BY <1>1 DEF IsResult
  <1> HIDE DEF w
  <1>8. [r EXCEPT !.value = w] = Result(w, r.ok, r.took)
    BY <1>1, FillResult
  <1>9. Pays(Result(w, r.ok, r.took), FreeHandler(w), exact) /\ Result(w, r.ok, r.took).value = w
    BY <1>6, <1>7, ResultPays, ResultFields
  <1> QED
    BY <1>2, <1>6, <1>8, <1>9

(* The handlers of a try, read and freed.                                  *)
FreeHandlers(hs) == FreeArray(hs, LAMBDA h : h.addr = LastAddr, FreeHandler, "handlers")
ReadHandlers(c, hs) == ReadArray([i \in DOMAIN hs |-> ReadHandler(c, hs[i])], ZeroHandler, "handlers")
(* A list of handlers pays; exactly when none has the address of the       *)
(* sentinel.                                                               *)
LEMMA HandlersPay ==
  ASSUME NullApart, NEW exact, NEW c, Ctx(c), NEW hs, IsList(hs),
         exact => \A i \in 1..Len(hs) : hs[i].addr # LastAddr
  PROVE  Pays(ReadHandlers(c, hs), FreeHandlers(ReadHandlers(c, hs).value), exact)
         /\ ReadHandlers(c, hs).value # NULL
  <1> DEFINE reads == [i \in DOMAIN hs |-> ReadHandler(c, hs[i])]
             ra == ReadArray(reads, ZeroHandler, "handlers")
             v == ReadArray(reads, ZeroHandler, "handlers").value
             tt == [i \in DOMAIN v |-> FreeHandler(v[i])]
             ends == {i \in DOMAIN v : v[i].addr = LastAddr}
  <1>a1. IsList(hs) /\ DOMAIN hs = 1..Len(hs) /\ Len(hs) \in Nat
    BY ListFacts
  <1>a2. IsList(reads) /\ Len(reads) = Len(hs)
    BY <1>a1, ListOf
  <1>a3. "handlers" \in Kinds
    BY DEF Kinds
  <1>a4. \A i \in 1..Len(reads) : reads[i] = ReadHandler(c, hs[i])
    BY <1>a1, <1>a2
  <1>a5. ReadHandlers(c, hs) = ra
    BY DEF ReadHandlers
  <1> HIDE DEF reads
  <1>a6. IsList(v) /\ Len(v) = Len(reads) /\ DOMAIN v = 1..Len(reads) /\ v # NULL
    BY <1>a2, ReadArrayFacts, ListFacts, NotNull
  <1>a7. IsList(tt) /\ Len(tt) = Len(reads) /\ DOMAIN tt = 1..Len(reads)
    BY <1>a1, <1>a2, <1>a6, ListOf
  <1>a8. FreeHandler(ZeroHandler) = << >>
    BY FreeRefFacts DEF FreeHandler, ZeroHandler
  <1>a9. ASSUME NEW i \in 1..Len(reads), v[i] = reads[i].value
        PROVE  /\ Paid(reads[i].took, tt[i], exact)
               /\ exact /\ i \in ends => ~reads[i].ok /\ tt[i] = << >>
    <2> DEFINE h == hs[i]
    <2>1. exact => h.addr # LastAddr
      BY <1>a2
    <2> HIDE DEF h
    <2> DEFINE re == ReadHandler(c, h)
    <2>2. Pays(re, FreeHandler(re.value), exact) /\ (exact => re.value.addr # LastAddr)
      BY <2>1, HandlerPays
    <2>3. reads[i] = re
      BY <1>a4 DEF h
    <2> HIDE DEF re
    <2> QED
      BY <1>a6, <1>a9, <2>2, <2>3 DEF Pays
  <1>b1. ASSUME NEW i \in 1..Len(reads), v[i] = ZeroHandler PROVE tt[i] = << >>
    BY <1>a6, <1>a8, <1>b1
  <1>b2. FreeHandlers(v) = FlattenSeq(UpTo(tt, ends)) \o <<Block("handlers")>>
    BY <1>a6 DEF FreeHandlers, FreeArray
  <1>b3. ends \in SUBSET DOMAIN tt
    BY <1>a6, <1>a7
  <1>b4. exact => \A e \in ends : v[e] = reads[e].value => ~reads[e].ok /\ tt[e] = << >>
    BY <1>a6, <1>a9
  <1> HIDE DEF tt, ends
  <1> DEFINE z == v
  <1>b5. z = ReadArray(reads, ZeroHandler, "handlers").value
    OBVIOUS
  <1>b6. /\ \A i \in 1..Len(reads) : z[i] = reads[i].value => Paid(reads[i].took, tt[i], exact)
         /\ \A i \in 1..Len(reads) : z[i] = ZeroHandler => tt[i] = << >>
         /\ exact => \A e \in ends : z[e] = reads[e].value => ~reads[e].ok /\ tt[e] = << >>
    BY <1>a9, <1>b1, <1>b4
  <1> HIDE DEF z
  <1>b7. Pays(ra, FlattenSeq(UpTo(tt, ends)) \o <<Block("handlers")>>, exact)
    BY <1>a2, <1>a3, <1>a7, <1>b3, <1>b5, <1>b6, ArrayPays
  <1>b8. ra.ok <=> \A i \in 1..Len(reads) : reads[i].ok
    BY <1>a2, ReadArrayFacts
  <1> QED
    BY <1>a5, <1>a6, <1>b2, <1>b7 DEF z

(* What is freed for the handler that catches all.                         *)
FreeCatchAll(h) ==
  IF h = NULL THEN << >> ELSE FreeHandler(h) \o <<Block("catch_all")>>
(* The handler for all exceptions pays.                                    *)
LEMMA CatchAllPays ==
  ASSUME NullApart, NEW exact, NEW catch_all
  PROVE  Pays(ReadCatchAll(catch_all), FreeCatchAll(ReadCatchAll(catch_all).value), exact)
  <1>1. CASE catch_all = << >>
    <2>1. ReadCatchAll(catch_all) = Done(NULL, << >>) /\ FreeCatchAll(NULL) = << >>
      BY <1>1 DEF ReadCatchAll, FreeCatchAll
    <2>2. Pays(Done(NULL, << >>), << >>, exact) /\ Done(NULL, << >>).value = NULL
      BY NoTokens, DonePays
    <2> QED
      BY <2>1, <2>2
  <1>2. CASE catch_all # << >>
    <2> DEFINE t == <<Block("catch_all")>>
               k == (catch_all[1] # NULL)
    <2>1. ReadCatchAll(catch_all) = Result(ZeroHandler, k, t)
      BY <1>2 DEF ReadCatchAll
    <2>2. t \in Seq(Tokens)
      <3>1. "catch_all" \in Kinds
        BY DEF Kinds
      <3> QED
        BY <3>1, BlockToken
    <2>3. ZeroHandler # NULL
      BY DEF ZeroHandler, NullApart
    <2>4. FreeHandler(ZeroHandler) = << >>
      BY FreeRefFacts DEF FreeHandler, ZeroHandler
    <2>5. FreeCatchAll(ZeroHandler) = t
      <3>1. FreeCatchAll(ZeroHandler) = << >> \o t
        BY <2>3, <2>4 DEF FreeCatchAll
      <3> HIDE DEF t
      <3> QED
        BY <2>2, <3>1
    <2>6. k \in BOOLEAN
      OBVIOUS
    <2> HIDE DEF t, k
    <2>7. Paid(t, t, exact)
      BY <2>2, PaidSame
    <2>8. Pays(Result(ZeroHandler, k, t), t, exact) /\ Result(ZeroHandler, k, t).value = ZeroHandler
      BY <2>6, <2>7, ResultPays, ResultFields
    <2> QED
      BY <2>1, <2>5, <2>8
  <1> QED
    BY <1>1, <1>2

(* Two reads, the structures of which are freed in their order.            *)
LEMMA TwoPay ==
  ASSUME NEW exact, NEW p, NEW fp, Pays(p, fp, exact), NEW q, NEW fq, Pays(q, fq, exact), NEW Zero
  PROVE  Pays(InOrder(<<p, q>>, Zero), fp \o (IF p.ok THEN fq ELSE << >>), exact)
  <1>1. IsResult(p) /\ IsResult(q) /\ Paid(p.took, fp, exact) /\ Paid(q.took, fq, exact)
    BY DEF Pays
  <1> DEFINE io == InOrder(<<p, q>>, Zero)
  <1>2. io.took = (IF p.ok THEN p.took \o q.took ELSE p.took) /\ IsResult(io)
    BY <1>1, InOrderTwo
  <1> HIDE DEF io
  <1>3. Paid(p.took \o q.took, fp \o fq, exact)
    BY <1>1, PaidCat
  <1>4. fp \o << >> = fp
    BY <1>1 DEF Paid
  <1>5. Paid(io.took, fp \o (IF p.ok THEN fq ELSE << >>), exact)
    BY <1>1, <1>2, <1>3, <1>4
  <1> QED
    BY <1>2, <1>5 DEF Pays, io

(* A try block pays; one without handlers failed and holds nothing.        *)
LEMMA TryBlockPays ==
  ASSUME NullApart, NEW exact, NEW c, Ctx(c), NEW t, t # NULL => IsList(t.handlers),
         exact /\ t # NULL => \A i \in 1..Len(t.handlers) : t.handlers[i].addr # LastAddr
  PROVE  LET r == ReadTryBlock(c, t)
         IN  /\ Pays(r, FreeTryBlock(r.value), exact)
             /\ r.value.handlers = NULL => ~r.ok /\ FreeTryBlock(r.value) = << >>
  <1>0. FreeTryBlock(ZeroTryBlock) = << >>
    BY DEF FreeTryBlock, ZeroTryBlock, FreeArray
  <1>1. CASE t = NULL
    <2>1. ReadTryBlock(c, t) = Failed(ZeroTryBlock)
      BY <1>1 DEF ReadTryBlock
    <2>2. /\ Pays(Failed(ZeroTryBlock), << >>, exact) /\ Failed(ZeroTryBlock).value = ZeroTryBlock
          /\ Failed(ZeroTryBlock).ok = FALSE
      BY FailedPays
    <2> QED
      BY <1>0, <2>1, <2>2
  <1>2. CASE t # NULL
    <2> DEFINE p == ReadHandlers(c, t.handlers)
               q == ReadCatchAll(t.catch_all)
               io == InOrder(<<p, q>>, NULL)
               w == [handlers |-> io.value[1], catch_all_handler |-> io.value[2]]
    <2>1. ReadTryBlock(c, t) = [io EXCEPT !.value = w]
      BY <1>2 DEF ReadTryBlock, Fill, ReadHandlers
    <2>2. Pays(p, FreeHandlers(p.value), exact) /\ p.value # NULL
      <3> DEFINE hs == t.handlers
      <3>1. IsList(hs) /\ (exact => \A i \in 1..Len(hs) : hs[i].addr # LastAddr)
        BY <1>2
      <3> HIDE DEF hs
      <3>2. Pays(ReadHandlers(c, hs), FreeHandlers(ReadHandlers(c, hs).value), exact)
            /\ ReadHandlers(c, hs).value # NULL
        BY <3>1, HandlersPay
      <3> QED
        BY <3>2 DEF hs
    <2>3. Pays(q, FreeCatchAll(q.value), exact)
      BY CatchAllPays
    <2> HIDE DEF p, q
    <2>4. Pays(io, FreeHandlers(p.value) \o (IF p.ok THEN FreeCatchAll(q.value) ELSE << >>), exact)
      BY <2>2, <2>3, TwoPay
    <2>5. /\ io.value[1] = p.value
          /\ io.value[2] = IF p.ok THEN q.value ELSE NULL
      BY <2>2, <2>3, InOrderTwo DEF Pays
    <2> HIDE DEF io
    <2>6. w.handlers = p.value /\ w.catch_all_handler = IF p.ok THEN q.value ELSE NULL
      BY <2>5
    <2> HIDE DEF w
    <2>7. FreeTryBlock(w) = FreeHandlers(w.handlers) \o FreeCatchAll(w.catch_all_handler)
      BY DEF FreeTryBlock, FreeHandlers, FreeCatchAll
    <2>8. FreeCatchAll(NULL) = << >>
      BY DEF FreeCatchAll
    <2>9. FreeTryBlock(w) = FreeHandlers(p.value) \o (IF p.ok THEN FreeCatchAll(q.value) ELSE << >>)
      BY <2>6, <2>7, <2>8
    <2> DEFINE f == FreeTryBlock(w)
    <2>10. Pays(io, f, exact)
      BY <2>4, <2>9
    <2> HIDE DEF f
    <2>11. [io EXCEPT !.value = w] = Result(w, io.ok, io.took)
      BY <2>10, FillResult DEF Pays
    <2>12. Pays(Result(w, io.ok, io.took), f, exact) /\ Result(w, io.ok, io.took).value = w
      BY <2>10, ResultPays, ResultFields DEF Pays, IsResult
    <2> QED
      BY <2>1, <2>2, <2>6, <2>11, <2>12 DEF f
  <1> QED
    BY <1>1, <1>2

(* The tries of a code item, read and freed.                               *)
FreeTries(tries) == FreeArray(tries, LAMBDA t : t.handlers = NULL, FreeTryBlock, "tries")
ReadTries(c, tries) == ReadArray([i \in DOMAIN tries |-> ReadTryBlock(c, tries[i])], ZeroTryBlock, "tries")
(* The try blocks of a code item pay.                                      *)
LEMMA TriesPay ==
  ASSUME NullApart, NEW exact, NEW c, Ctx(c), NEW tries, IsList(tries),
         \A i \in 1..Len(tries) : tries[i] # NULL => IsList(tries[i].handlers),
         exact => \A i \in 1..Len(tries) : tries[i] # NULL =>
                    \A k \in 1..Len(tries[i].handlers) : tries[i].handlers[k].addr # LastAddr
  PROVE  Pays(ReadTries(c, tries), FreeTries(ReadTries(c, tries).value), exact)
  <1> DEFINE reads == [i \in DOMAIN tries |-> ReadTryBlock(c, tries[i])]
             ra == ReadArray(reads, ZeroTryBlock, "tries")
             v == ReadArray(reads, ZeroTryBlock, "tries").value
             tt == [i \in DOMAIN v |-> FreeTryBlock(v[i])]
             ends == {i \in DOMAIN v : v[i].handlers = NULL}
  <1>a1. IsList(tries) /\ DOMAIN tries = 1..Len(tries) /\ Len(tries) \in Nat
    BY ListFacts
  <1>a2. IsList(reads) /\ Len(reads) = Len(tries)
    BY <1>a1, ListOf
  <1>a3. "tries" \in Kinds
    BY DEF Kinds
  <1>a4. \A i \in 1..Len(reads) : reads[i] = ReadTryBlock(c, tries[i])
    BY <1>a1, <1>a2
  <1>a5. ReadTries(c, tries) = ra
    BY DEF ReadTries
  <1> HIDE DEF reads
  <1>a6. IsList(v) /\ Len(v) = Len(reads) /\ DOMAIN v = 1..Len(reads) /\ v # NULL
    BY <1>a2, ReadArrayFacts, ListFacts, NotNull
  <1>a7. IsList(tt) /\ Len(tt) = Len(reads) /\ DOMAIN tt = 1..Len(reads)
    BY <1>a1, <1>a2, <1>a6, ListOf
  <1>a8. FreeTryBlock(ZeroTryBlock) = << >>
    BY DEF FreeTryBlock, ZeroTryBlock, FreeArray
  <1>a9. ASSUME NEW i \in 1..Len(reads), v[i] = reads[i].value
        PROVE  /\ Paid(reads[i].took, tt[i], exact)
               /\ exact /\ i \in ends => ~reads[i].ok /\ tt[i] = << >>
    <2> DEFINE t == tries[i]
    <2>1. t # NULL => IsList(t.handlers)
      BY <1>a2
    <2>2. exact /\ t # NULL => \A k \in 1..Len(t.handlers) : t.handlers[k].addr # LastAddr
      BY <1>a2
    <2> HIDE DEF t
    <2> DEFINE re == ReadTryBlock(c, t)
    <2>3. /\ Pays(re, FreeTryBlock(re.value), exact)
          /\ re.value.handlers = NULL => ~re.ok /\ FreeTryBlock(re.value) = << >>
      BY <2>1, <2>2, TryBlockPays
    <2>4. reads[i] = re
      BY <1>a4 DEF t
    <2> HIDE DEF re
    <2> QED
      BY <1>a6, <1>a9, <2>3, <2>4 DEF Pays
  <1>b1. ASSUME NEW i \in 1..Len(reads), v[i] = ZeroTryBlock PROVE tt[i] = << >>
    BY <1>a6, <1>a8, <1>b1
  <1>b2. FreeTries(v) = FlattenSeq(UpTo(tt, ends)) \o <<Block("tries")>>
    BY <1>a6 DEF FreeTries, FreeArray
  <1>b3. ends \in SUBSET DOMAIN tt
    BY <1>a6, <1>a7
  <1>b4. exact => \A e \in ends : v[e] = reads[e].value => ~reads[e].ok /\ tt[e] = << >>
    BY <1>a6, <1>a9
  <1> HIDE DEF tt, ends
  <1> DEFINE z == v
  <1>b5. z = ReadArray(reads, ZeroTryBlock, "tries").value
    OBVIOUS
  <1>b6. /\ \A i \in 1..Len(reads) : z[i] = reads[i].value => Paid(reads[i].took, tt[i], exact)
         /\ \A i \in 1..Len(reads) : z[i] = ZeroTryBlock => tt[i] = << >>
         /\ exact => \A e \in ends : z[e] = reads[e].value => ~reads[e].ok /\ tt[e] = << >>
    BY <1>a9, <1>b1, <1>b4
  <1> HIDE DEF z
  <1>b7. Pays(ra, FlattenSeq(UpTo(tt, ends)) \o <<Block("tries")>>, exact)
    BY <1>a2, <1>a3, <1>a7, <1>b3, <1>b5, <1>b6, ArrayPays
  <1>b8. ra.ok <=> \A i \in 1..Len(reads) : reads[i].ok
    BY <1>a2, ReadArrayFacts
  <1> QED
    BY <1>a5, <1>a6, <1>b2, <1>b7 DEF z

(* Debug information with the structure that holds it.                     *)
FreeDebug(di) == IF di = NULL THEN << >> ELSE FreeDebugInfo(di) \o <<Block("debug_info")>>
(* The debug information of a code item, which may be missing, pays.       *)
LEMMA DebugPays ==
  ASSUME NullApart, NEW exact, NEW c, Ctx(c), NEW dbg,
         dbg # << >> => DebugShape(dbg[1]) /\ DebugSurvives(Len(c.strs), Len(c.types), dbg[1])
  PROVE  Pays(ReadDebug(c, dbg), FreeDebug(ReadDebug(c, dbg).value), exact)
  <1>1. CASE dbg = << >>
    <2>1. ReadDebug(c, dbg) = Done(NULL, << >>) /\ FreeDebug(NULL) = << >>
      BY <1>1 DEF ReadDebug, FreeDebug
    <2>2. Pays(Done(NULL, << >>), << >>, exact) /\ Done(NULL, << >>).value = NULL
      BY NoTokens, DonePays
    <2> QED
      BY <2>1, <2>2
  <1>2. CASE dbg # << >>
    <2> DEFINE di == dbg[1]
               r == ReadDebugSection(c, di)
               b == <<Block("debug_info")>>
    <2>1. Pays(r, FreeDebugInfo(r.value), exact) /\ r.value # NULL
      <3>1. DebugShape(di) /\ DebugSurvives(Len(c.strs), Len(c.types), di)
        BY <1>2
      <3> HIDE DEF di
      <3> QED
        BY <3>1, DebugSectionPays
    <2>2. ReadDebug(c, dbg) = After(b, r)
      BY <1>2 DEF ReadDebug
    <2>3. b \in Seq(Tokens)
      <3>1. "debug_info" \in Kinds
        BY DEF Kinds
      <3> QED
        BY <3>1, BlockToken
    <2>4. FreeDebug(r.value) = FreeDebugInfo(r.value) \o b
      BY <2>1 DEF FreeDebug
    <2> HIDE DEF r, b
    <2>5. Pays(After(b, r), FreeDebugInfo(r.value) \o b, exact) /\ After(b, r).value = r.value
      BY <2>1, <2>3, AfterPays
    <2> QED
      BY <2>2, <2>4, <2>5
  <1> QED
    BY <1>1, <1>2

(* Three reads; the structure of the third is freed before the second.     *)
LEMMA ThreePay ==
  ASSUME NEW exact, NEW p, NEW fp, Pays(p, fp, exact), NEW q, NEW fq, Pays(q, fq, exact),
         NEW s, NEW fs, Pays(s, fs, exact), NEW Zero
  PROVE  Pays(InOrder(<<p, q, s>>, Zero),
              (fp \o (IF p.ok /\ q.ok THEN fs ELSE << >>)) \o (IF p.ok THEN fq ELSE << >>), exact)
  <1>1. /\ IsResult(p) /\ Paid(p.took, fp, exact)
        /\ IsResult(q) /\ Paid(q.took, fq, exact)
        /\ IsResult(s) /\ Paid(s.took, fs, exact)
    BY DEF Pays
  <1> DEFINE io == InOrder(<<p, q, s>>, Zero)
  <1>2. io.took = (IF ~p.ok THEN p.took ELSE IF ~q.ok THEN p.took \o q.took
                                          ELSE (p.took \o q.took) \o s.took) /\ IsResult(io)
    BY <1>1, InOrderThree
  <1> HIDE DEF io
  <1>3. /\ fp \in Seq(Tokens) /\ fq \in Seq(Tokens) /\ fs \in Seq(Tokens)
        /\ p.took \in Seq(Tokens) /\ q.took \in Seq(Tokens) /\ s.took \in Seq(Tokens)
    BY <1>1 DEF Paid
  <1>4. CASE ~p.ok
    <2>1. (fp \o << >>) \o << >> = fp
      BY <1>3
    <2> QED
      BY <1>1, <1>2, <1>4, <2>1 DEF Pays, io
  <1>5. CASE p.ok /\ ~q.ok
    <2>1. (fp \o << >>) \o fq = fp \o fq
      BY <1>3
    <2>2. Paid(p.took \o q.took, fp \o fq, exact)
      BY <1>1, PaidCat
    <2> QED
      BY <1>1, <1>2, <1>5, <2>1, <2>2 DEF Pays, io
  <1>6. CASE p.ok /\ q.ok
    <2>1. Paid(q.took \o s.took, fs \o fq, exact)
      BY <1>1, PaidTurn
    <2> DEFINE ta == q.took \o s.took
               fa == fs \o fq
    <2>2. Paid(p.took \o ta, fp \o fa, exact)
      <3>1. Paid(ta, fa, exact)
        BY <2>1
      <3> HIDE DEF ta, fa
      <3> QED
        BY <1>1, <3>1, PaidCat
    <2>3. p.took \o ta = (p.took \o q.took) \o s.took /\ fp \o fa = (fp \o fs) \o fq
      <3>1. \A a, b, d \in Seq(Tokens) : a \o (b \o d) = (a \o b) \o d
        OBVIOUS
      <3>2. p.took \o ta = (p.took \o q.took) \o s.took
        BY <1>3, <3>1, ZenonT(30)
      <3>3. fp \o fa = (fp \o fs) \o fq
        BY <1>3, <3>1, SMTT(20)
      <3> QED
        BY <3>2, <3>3
    <2> QED
      BY <1>2, <1>6, <2>2, <2>3 DEF Pays, io
  <1> QED
    BY <1>4, <1>5, <1>6

(* What is read of a code item is freed with it.                           *)
LEMMA CodePays ==
  ASSUME NullApart, NEW exact, NEW c, Ctx(c), NEW code, CodeShape(code),
         CodeSurvives(Len(c.strs), Len(c.types), code), exact => CodeClean(code)
  PROVE  Pays(ReadCode(c, code), FreeCode(ReadCode(c, code).value), exact)
         /\ ReadCode(c, code).value # NULL
  <1>0. ZeroCode # NULL
    BY DEF ZeroCode, NullApart
  <1>1. CASE code = NULL
    <2>1. ReadCode(c, code) = Failed(ZeroCode)
      BY <1>1 DEF ReadCode
    <2>2. FreeCode(ZeroCode) = << >>
      BY DEF FreeCode, ZeroCode, FreeWhole, FreeArray
    <2>3. /\ Pays(Failed(ZeroCode), << >>, exact) /\ Failed(ZeroCode).value = ZeroCode
      BY FailedPays
    <2> QED
      BY <1>0, <2>1, <2>2, <2>3
  <1>2. CASE code # NULL
    <2> DEFINE p == ReadDebug(c, code.debug_information)
               q == ReadDalvik(c, code.insns)
               s == ReadTries(c, code.tries)
               io == InOrder(<<p, q, s>>, NULL)
               w == [debug_information |-> io.value[1], insns |-> io.value[2],
                     tries |-> io.value[3]]
    <2>1. ReadCode(c, code) = [io EXCEPT !.value = w]
      BY <1>2 DEF ReadCode, Fill, ReadTries
    <2>2. Pays(p, FreeDebug(p.value), exact)
      <3> DEFINE dbg == code.debug_information
      <3>1. dbg # << >> => DebugShape(dbg[1]) /\ DebugSurvives(Len(c.strs), Len(c.types), dbg[1])
        BY <1>2 DEF CodeShape, CodeSurvives
      <3> HIDE DEF dbg
      <3>2. Pays(ReadDebug(c, dbg), FreeDebug(ReadDebug(c, dbg).value), exact)
        BY <3>1, DebugPays
      <3> QED
        BY <3>2 DEF dbg
    <2>3. Pays(q, FreeInsns(q.value), exact)
      <3> DEFINE insns == code.insns
      <3>1. insns # NULL => IsList(insns)
        BY <1>2 DEF CodeShape
      <3>a. insns # NULL => \A i \in 1..Len(insns) : insns[i].special \in InsnKinds
        BY <1>2 DEF CodeShape, InsnKinds
      <3> HIDE DEF insns
      <3>2. Pays(ReadDalvik(c, insns), FreeInsns(ReadDalvik(c, insns).value), exact)
        BY <3>1, <3>a, DalvikPays
      <3> QED
        BY <3>2 DEF insns
    <2>4. Pays(s, FreeTries(s.value), exact)
      <3> DEFINE tries == code.tries
      <3>1. IsList(tries)
        BY <1>2 DEF CodeShape
      <3>2. \A i \in 1..Len(tries) : tries[i] # NULL => IsList(tries[i].handlers)
        BY <1>2 DEF CodeShape
      <3>3. exact => \A i \in 1..Len(tries) : tries[i] # NULL =>
                       \A k \in 1..Len(tries[i].handlers) : tries[i].handlers[k].addr # LastAddr
        BY <1>2 DEF CodeClean
      <3> HIDE DEF tries
      <3>4. Pays(ReadTries(c, tries), FreeTries(ReadTries(c, tries).value), exact)
        BY <3>1, <3>2, <3>3, TriesPay
      <3> QED
        BY <3>4 DEF tries
    <2> HIDE DEF p, q, s
    <2>5. Pays(io, (FreeDebug(p.value) \o (IF p.ok /\ q.ok THEN FreeTries(s.value) ELSE << >>))
                     \o (IF p.ok THEN FreeInsns(q.value) ELSE << >>), exact)
      BY <2>2, <2>3, <2>4, ThreePay
    <2>6. /\ io.value[1] = p.value
          /\ io.value[2] = IF p.ok THEN q.value ELSE NULL
          /\ io.value[3] = IF p.ok /\ q.ok THEN s.value ELSE NULL
      BY <2>2, <2>3, <2>4, InOrderThree DEF Pays
    <2> HIDE DEF io
    <2>7. /\ w.debug_information = p.value
          /\ w.insns = IF p.ok THEN q.value ELSE NULL
          /\ w.tries = IF p.ok /\ q.ok THEN s.value ELSE NULL
          /\ w # NULL
      BY <2>6 DEF NullApart
    <2> HIDE DEF w
    <2>8. FreeCode(w) = FreeDebug(w.debug_information) \o FreeTries(w.tries) \o FreeInsns(w.insns)
      BY DEF FreeCode, FreeDebug, FreeTries, FreeInsns
    <2>9. FreeTries(NULL) = << >> /\ FreeInsns(NULL) = << >>
      BY DEF FreeTries, FreeInsns, FreeWhole, FreeArray
    <2>10. FreeCode(w) = (FreeDebug(p.value) \o (IF p.ok /\ q.ok THEN FreeTries(s.value) ELSE << >>))
                           \o (IF p.ok THEN FreeInsns(q.value) ELSE << >>)
      BY <2>7, <2>8, <2>9
    <2> DEFINE f == FreeCode(w)
    <2>11. Pays(io, f, exact)
      BY <2>5, <2>10
    <2> HIDE DEF f
    <2>12. [io EXCEPT !.value = w] = Result(w, io.ok, io.took)
      BY <2>11, FillResult DEF Pays
    <2>13. Pays(Result(w, io.ok, io.took), f, exact) /\ Result(w, io.ok, io.took).value = w
      BY <2>11, ResultPays, ResultFields DEF Pays, IsResult
    <2> QED
      BY <2>1, <2>7, <2>12, <2>13 DEF f
  <1> QED
    BY <1>1, <1>2

(* What pays for a part pays for what the part pays for.                   *)
LEMMA PaidTrans ==
  ASSUME NEW exact, NEW a, NEW b, Paid(a, b, exact), NEW d, Paid(b, d, exact)
  PROVE  Paid(a, d, exact)
  <1>1. a \in Seq(Tokens) /\ b \in Seq(Tokens) /\ d \in Seq(Tokens)
    BY DEF Paid
  <1>2. ASSUME NEW x
        PROVE  /\ Occurrences(d, x) <= Occurrences(a, x)
               /\ exact => Occurrences(d, x) = Occurrences(a, x)
    <2>1. Occurrences(a, x) \in Nat /\ Occurrences(b, x) \in Nat /\ Occurrences(d, x) \in Nat
      BY <1>1, OccNat
    <2>2. /\ Occurrences(b, x) <= Occurrences(a, x) /\ (exact => Occurrences(b, x) = Occurrences(a, x))
          /\ Occurrences(d, x) <= Occurrences(b, x) /\ (exact => Occurrences(d, x) = Occurrences(b, x))
      BY DEF Paid
    <2> QED
      BY <2>1, <2>2
  <1> QED
    BY <1>1, <1>2 DEF Paid

(* References, each a list of its own, put together.                       *)
LEMMA FlattenSingles ==
  ASSUME NEW s \in Seq(Tokens), NEW tt \in Seq(Seq(Tokens)), Len(tt) = Len(s),
         \A i \in 1..Len(s) : tt[i] = <<s[i]>>
  PROVE  FlattenSeq(tt) = s
  <1>1. CASE Len(s) = 0
    <2>1. tt = << >> /\ s = << >>
      BY <1>1
    <2> QED
      BY <2>1 DEF FlattenSeq
  <1>2. CASE Len(s) # 0
    <2>1. Len(tt) # 0
      BY <1>2
    <2>2. PICK c \in [1..Len(tt) -> Seq(Tokens)] :
            /\ FlattenSeq(tt) = c[Len(tt)]
            /\ c[1] = tt[1]
            /\ \A k \in 2..Len(tt) : c[k] = c[k - 1] \o tt[k]
      BY <2>1, FlattenSteps
    <2>a. Len(s) \in Nat /\ DOMAIN s = 1..Len(s) /\ \A i \in 1..Len(s) : <<s[i]>> \in Seq(Tokens)
      OBVIOUS
    <2> DEFINE T == {n \in Nat : n \in 1..Len(s) => Len(c[n]) = n /\ \A i \in 1..n : c[n][i] = s[i]}
    <2>3. 0 \in T
      OBVIOUS
    <2>4. ASSUME NEW n \in T PROVE n + 1 \in T
      <3>1. CASE n + 1 \in 1..Len(s) /\ n # 0
        <4>1. n \in 1..Len(s) /\ n + 1 \in 2..Len(tt) /\ (n + 1) - 1 = n
          BY <2>a, <3>1
        <4>2. c[n + 1] = c[n] \o <<s[n + 1]>> /\ c[n] \in Seq(Tokens)
              /\ Len(c[n]) = n /\ \A i \in 1..n : c[n][i] = s[i]
          BY <2>2, <3>1, <4>1
        <4>3. n + 1 \in Nat /\ n \in Nat
          BY <4>1
        <4>4. \A d \in Seq(Tokens), e \in Tokens :
                Len(d) = n => /\ Len(d \o <<e>>) = n + 1 /\ (d \o <<e>>)[n + 1] = e
                              /\ \A i \in 1..n : (d \o <<e>>)[i] = d[i]
          BY <4>3
        <4>5. Len(c[n + 1]) = n + 1 /\ c[n + 1][n + 1] = s[n + 1] /\ \A i \in 1..n : c[n + 1][i] = s[i]
          <5> DEFINE d == c[n]
                     e == s[n + 1]
          <5>1. d \in Seq(Tokens) /\ e \in Tokens /\ Len(d) = n /\ \A i \in 1..n : d[i] = s[i]
            BY <2>a, <3>1, <4>2
          <5>2. c[n + 1] = d \o <<e>>
            BY <4>2
          <5> HIDE DEF d
          <5>3. Len(d \o <<e>>) = n + 1 /\ (d \o <<e>>)[n + 1] = e /\ \A i \in 1..n : (d \o <<e>>)[i] = d[i]
            BY <4>4, <5>1
          <5> QED
            BY <5>1, <5>2, <5>3
        <4>6. \A i \in 1..(n + 1) : i = n + 1 \/ i \in 1..n
          BY <4>3
        <4>7. \A i \in 1..(n + 1) : c[n + 1][i] = s[i]
          BY <4>5, <4>6
        <4> QED
          BY <4>3, <4>5, <4>7
      <3>2. CASE n = 0
        <4>1. c[1] = <<s[1]>>
          BY <1>2, <2>2, <2>a
        <4>2. Len(c[1]) = 1 /\ c[1][1] = s[1]
          BY <4>1
        <4>3. n + 1 = 1 /\ \A i \in 1..1 : i = 1
          BY <3>2
        <4>4. Len(c[n + 1]) = n + 1 /\ \A i \in 1..(n + 1) : c[n + 1][i] = s[i]
          BY <4>2, <4>3
        <4>5. n + 1 \in Nat
          BY <3>2
        <4> QED
          BY <4>4, <4>5
      <3>3. CASE n + 1 \notin 1..Len(s)
        BY <3>3
      <3> QED
        BY <2>a, <3>1, <3>2, <3>3
    <2>5. T = Nat
      <3>1. T \in SUBSET Nat
        OBVIOUS
      <3> HIDE DEF T
      <3> QED
        BY <2>3, <2>4, <3>1, SetInduction
    <2>6. c[Len(s)] = s
      <3>1. Len(s) \in 1..Len(s)
        BY <1>2, <2>a
      <3>2. Len(c[Len(s)]) = Len(s) /\ \A i \in 1..Len(s) : c[Len(s)][i] = s[i]
        BY <2>5, <3>1, SMTT(20)
      <3>3. c[Len(s)] \in Seq(Tokens)
        BY <2>2, <3>1
      <3>4. \A d \in Seq(Tokens) : Len(d) = Len(s) /\ (\A i \in 1..Len(s) : d[i] = s[i]) => d = s
        BY SeqEqual
      <3> QED
        BY <3>2, <3>3, <3>4
    <2> QED
      BY <2>2, <2>6
  <1> QED
    BY <1>1, <1>2

(* Lists that are the concatenations of two.                               *)
Zipped(ss, aa, bb) ==
  /\ ss \in Seq(Seq(Tokens)) /\ aa \in Seq(Seq(Tokens)) /\ bb \in Seq(Seq(Tokens))
  /\ Len(aa) = Len(ss) /\ Len(bb) = Len(ss) /\ \A i \in 1..Len(ss) : ss[i] = aa[i] \o bb[i]
(* Parts that consist of two pieces add up what is found in the pieces.    *)
LEMMA FlattenZip ==
  ASSUME NEW ss, NEW aa, NEW bb, Zipped(ss, aa, bb), NEW x
  PROVE  Occurrences(FlattenSeq(ss), x) = Occurrences(FlattenSeq(aa), x) + Occurrences(FlattenSeq(bb), x)
  <1>0. /\ ss \in Seq(Seq(Tokens)) /\ aa \in Seq(Seq(Tokens)) /\ bb \in Seq(Seq(Tokens))
        /\ Len(aa) = Len(ss) /\ Len(bb) = Len(ss) /\ \A i \in 1..Len(ss) : ss[i] = aa[i] \o bb[i]
    BY DEF Zipped
  <1> DEFINE m == Len(ss)
  <1>1. m \in Nat /\ Len(ss) <= m /\ Len(aa) <= m /\ Len(bb) <= m
    BY <1>0
  <1>2. \A i \in 1..m : /\ Occurrences(PartOf(ss, i), x)
                              = Occurrences(PartOf(aa, i), x) + Occurrences(PartOf(bb, i), x)
                        /\ Occurrences(PartOf(ss, i), x) \in Nat /\ Occurrences(PartOf(aa, i), x) \in Nat
                        /\ Occurrences(PartOf(bb, i), x) \in Nat
    <2> SUFFICES ASSUME NEW i \in 1..m
                 PROVE  /\ Occurrences(PartOf(ss, i), x)
                              = Occurrences(PartOf(aa, i), x) + Occurrences(PartOf(bb, i), x)
                        /\ Occurrences(PartOf(ss, i), x) \in Nat /\ Occurrences(PartOf(aa, i), x) \in Nat
                        /\ Occurrences(PartOf(bb, i), x) \in Nat
      OBVIOUS
    <2>1. PartOf(ss, i) = ss[i] /\ PartOf(aa, i) = aa[i] /\ PartOf(bb, i) = bb[i]
      BY <1>0 DEF PartOf
    <2>a. i \in 1..Len(ss) /\ i \in 1..Len(aa) /\ i \in 1..Len(bb)
      BY <1>0
    <2>b. aa[i] \in Seq(Tokens)
      BY <1>0, <2>a
    <2>c. bb[i] \in Seq(Tokens)
      BY <1>0, <2>a
    <2>d. ss[i] \in Seq(Tokens)
      BY <1>0, <2>a
    <2>2. aa[i] \in Seq(Tokens) /\ bb[i] \in Seq(Tokens) /\ ss[i] \in Seq(Tokens) /\ ss[i] = aa[i] \o bb[i]
      BY <1>0, <2>a, <2>b, <2>c, <2>d
    <2>3. Occurrences(aa[i] \o bb[i], x) = Occurrences(aa[i], x) + Occurrences(bb[i], x)
      BY <2>2, OccSum
    <2>4. Occurrences(aa[i], x) \in Nat /\ Occurrences(bb[i], x) \in Nat /\ Occurrences(ss[i], x) \in Nat
      BY <2>2, OccNat
    <2> QED
      BY <2>1, <2>2, <2>3, <2>4
  <1> HIDE DEF m
  <1>3. PICK N : Sums(ss, x, m, N)
    BY <1>0, <1>1, OccParts
  <1>4. PICK A : Sums(aa, x, m, A)
    BY <1>0, <1>1, OccParts
  <1>5. PICK B : Sums(bb, x, m, B)
    BY <1>0, <1>1, OccParts
  <1>6. /\ N \in [0..m -> Nat] /\ N[0] = 0 /\ Occurrences(FlattenSeq(ss), x) = N[m]
        /\ A \in [0..m -> Nat] /\ A[0] = 0 /\ Occurrences(FlattenSeq(aa), x) = A[m]
        /\ B \in [0..m -> Nat] /\ B[0] = 0 /\ Occurrences(FlattenSeq(bb), x) = B[m]
    BY <1>3, <1>4, <1>5 DEF Sums
  <1>7. \A k \in 1..m : /\ N[k] = N[k - 1] + Occurrences(PartOf(ss, k), x)
                        /\ A[k] = A[k - 1] + Occurrences(PartOf(aa, k), x)
                        /\ B[k] = B[k - 1] + Occurrences(PartOf(bb, k), x)
    BY <1>3, <1>4, <1>5 DEF Sums
  <1> DEFINE T == {k \in Nat : k <= m => N[k] = A[k] + B[k]}
  <1>8. 0 \in T
    BY <1>6
  <1>9. ASSUME NEW k \in T PROVE k + 1 \in T
    <2>1. CASE k + 1 <= m
      <3>1. k \in Nat /\ k <= m /\ k + 1 \in 1..m /\ (k + 1) - 1 = k /\ k \in 0..m
        BY <1>1, <2>1
      <3>2. /\ N[k + 1] = N[k] + Occurrences(PartOf(ss, k + 1), x)
            /\ A[k + 1] = A[k] + Occurrences(PartOf(aa, k + 1), x)
            /\ B[k + 1] = B[k] + Occurrences(PartOf(bb, k + 1), x)
        BY <1>7, <3>1
      <3>3. N[k] \in Nat /\ A[k] \in Nat /\ B[k] \in Nat /\ N[k] = A[k] + B[k]
        BY <1>6, <3>1
      <3>a. PICK p, q, r : p = Occurrences(PartOf(ss, k + 1), x) /\ q = Occurrences(PartOf(aa, k + 1), x)
                           /\ r = Occurrences(PartOf(bb, k + 1), x)
        OBVIOUS
      <3>b. p = q + r /\ q \in Nat /\ r \in Nat
        BY <1>2, <3>1, <3>a
      <3>c. N[k + 1] = N[k] + p /\ A[k + 1] = A[k] + q /\ B[k + 1] = B[k] + r
        BY <3>2, <3>a
      <3>4. N[k + 1] = A[k + 1] + B[k + 1]
        BY <3>3, <3>b, <3>c
      <3> QED
        BY <3>1, <3>4
    <2>2. CASE ~(k + 1 <= m)
      BY <2>2
    <2> QED
      BY <2>1, <2>2
  <1>10. T = Nat
    <2>1. T \in SUBSET Nat
      OBVIOUS
    <2> HIDE DEF T
    <2> QED
      BY <1>8, <1>9, <2>1, SetInduction
  <1>11. m \in T
    BY <1>1, <1>10
  <1> QED
    BY <1>1, <1>6, <1>11

(* A loop that stops at a sentinel behind which nothing is frees all.      *)
LEMMA FlattenStop ==
  ASSUME NEW exact, NEW tt \in Seq(Seq(Tokens)), NEW ends \in SUBSET DOMAIN tt,
         exact => \A e \in ends : \A k \in DOMAIN tt : e <= k => tt[k] = << >>
  PROVE  Paid(FlattenSeq(tt), FlattenSeq(UpTo(tt, ends)), exact)
  <1> DEFINE uu == UpTo(tt, ends)
  <1>1. /\ uu \in Seq(Seq(Tokens))
        /\ \A k \in Nat \ {0} :
             PartOf(uu, k) = IF \A e \in ends : k < e THEN PartOf(tt, k) ELSE << >>
    BY UpToParts
  <1> HIDE DEF uu
  <1>2. ASSUME NEW k \in Nat \ {0} PROVE Paid(PartOf(tt, k), PartOf(uu, k), exact)
    <2>0. PartOf(tt, k) \in Seq(Tokens)
      BY NoTokens DEF PartOf
    <2>1. CASE \A e \in ends : k < e
      <3>1. PartOf(uu, k) = PartOf(tt, k)
        BY <1>1, <2>1
      <3> QED
        BY <2>0, <3>1, PaidSame
    <2>2. CASE ~(\A e \in ends : k < e)
      <3>1. PartOf(uu, k) = << >>
        BY <1>1, <2>2
      <3>2. PICK e \in ends : ~(k < e)
        BY <2>2
      <3>3. e \in Nat /\ e <= k
        BY <3>2
      <3>4. exact => PartOf(tt, k) = << >>
        BY <3>3 DEF PartOf
      <3>5. \A x : Occurrences(<< >>, x) = 0 /\ Occurrences(PartOf(tt, k), x) \in Nat
        BY <2>0, OccEmpty, OccNat
      <3> QED
        BY <2>0, <3>1, <3>4, <3>5, NoTokens DEF Paid
    <2> QED
      BY <2>1, <2>2
  <1> QED
    BY <1>1, <1>2, FlattenPaid DEF uu


(* What is found in two lists put together.                                *)
LEMMA Chain2 ==
  ASSUME NEW a \in Seq(Tokens), NEW b \in Seq(Tokens), NEW x
  PROVE  /\ a \o b \in Seq(Tokens)
         /\ Occurrences(a \o b, x)
              = Occurrences(a, x) + Occurrences(b, x)
  <1> DEFINE s2 == a \o b
  <1>1. s2 \in Seq(Tokens) /\ Occurrences(s2, x) = Occurrences(a, x) + Occurrences(b, x)
    BY OccSum
  <1> HIDE DEF s2
  <1>n. Occurrences(a, x) \in Nat /\ Occurrences(b, x) \in Nat
    BY OccNat
  <1>m. Occurrences(s2, x) = Occurrences(a, x) + Occurrences(b, x)
    BY <1>1, <1>n
  <1> QED
    BY <1>1, <1>m DEF s2

(* The same for three lists.                                               *)
LEMMA Chain3 ==
  ASSUME NEW a \in Seq(Tokens), NEW b \in Seq(Tokens), NEW d \in Seq(Tokens), NEW x
  PROVE  /\ a \o b \o d \in Seq(Tokens)
         /\ Occurrences(a \o b \o d, x)
              = Occurrences(a, x) + Occurrences(b, x) + Occurrences(d, x)
  <1> DEFINE s2 == a \o b
  <1>1. s2 \in Seq(Tokens) /\ Occurrences(s2, x) = Occurrences(a, x) + Occurrences(b, x)
    BY OccSum
  <1> HIDE DEF s2
  <1> DEFINE s3 == s2 \o d
  <1>2. s3 \in Seq(Tokens) /\ Occurrences(s3, x) = Occurrences(s2, x) + Occurrences(d, x)
    BY <1>1, OccSum
  <1> HIDE DEF s3
  <1>n. Occurrences(a, x) \in Nat /\ Occurrences(b, x) \in Nat /\ Occurrences(d, x) \in Nat
    BY OccNat
  <1>m. Occurrences(s3, x) = Occurrences(a, x) + Occurrences(b, x) + Occurrences(d, x)
    BY <1>1, <1>2, <1>n
  <1> QED
    BY <1>2, <1>m DEF s2, s3

(* The same for four lists.                                                *)
LEMMA Chain4 ==
  ASSUME NEW a \in Seq(Tokens), NEW b \in Seq(Tokens), NEW d \in Seq(Tokens), NEW e \in Seq(Tokens), NEW x
  PROVE  /\ a \o b \o d \o e \in Seq(Tokens)
         /\ Occurrences(a \o b \o d \o e, x)
              = Occurrences(a, x) + Occurrences(b, x) + Occurrences(d, x) + Occurrences(e, x)
  <1> DEFINE s2 == a \o b
  <1>1. s2 \in Seq(Tokens) /\ Occurrences(s2, x) = Occurrences(a, x) + Occurrences(b, x)
    BY OccSum
  <1> HIDE DEF s2
  <1> DEFINE s3 == s2 \o d
  <1>2. s3 \in Seq(Tokens) /\ Occurrences(s3, x) = Occurrences(s2, x) + Occurrences(d, x)
    BY <1>1, OccSum
  <1> HIDE DEF s3
  <1> DEFINE s4 == s3 \o e
  <1>3. s4 \in Seq(Tokens) /\ Occurrences(s4, x) = Occurrences(s3, x) + Occurrences(e, x)
    BY <1>2, OccSum
  <1> HIDE DEF s4
  <1>n. Occurrences(a, x) \in Nat /\ Occurrences(b, x) \in Nat /\ Occurrences(d, x) \in Nat /\ Occurrences(e, x) \in Nat
    BY OccNat
  <1>m. Occurrences(s4, x) = Occurrences(a, x) + Occurrences(b, x) + Occurrences(d, x) + Occurrences(e, x)
    BY <1>1, <1>2, <1>3, <1>n
  <1> QED
    BY <1>3, <1>m DEF s2, s3, s4

(* The same for five lists.                                                *)
LEMMA Chain5 ==
  ASSUME NEW a \in Seq(Tokens), NEW b \in Seq(Tokens), NEW d \in Seq(Tokens), NEW e \in Seq(Tokens), NEW f \in Seq(Tokens), NEW x
  PROVE  /\ a \o b \o d \o e \o f \in Seq(Tokens)
         /\ Occurrences(a \o b \o d \o e \o f, x)
              = Occurrences(a, x) + Occurrences(b, x) + Occurrences(d, x) + Occurrences(e, x) + Occurrences(f, x)
  <1> DEFINE s2 == a \o b
  <1>1. s2 \in Seq(Tokens) /\ Occurrences(s2, x) = Occurrences(a, x) + Occurrences(b, x)
    BY OccSum
  <1> HIDE DEF s2
  <1> DEFINE s3 == s2 \o d
  <1>2. s3 \in Seq(Tokens) /\ Occurrences(s3, x) = Occurrences(s2, x) + Occurrences(d, x)
    BY <1>1, OccSum
  <1> HIDE DEF s3
  <1> DEFINE s4 == s3 \o e
  <1>3. s4 \in Seq(Tokens) /\ Occurrences(s4, x) = Occurrences(s3, x) + Occurrences(e, x)
    BY <1>2, OccSum
  <1> HIDE DEF s4
  <1> DEFINE s5 == s4 \o f
  <1>4. s5 \in Seq(Tokens) /\ Occurrences(s5, x) = Occurrences(s4, x) + Occurrences(f, x)
    BY <1>3, OccSum
  <1> HIDE DEF s5
  <1>n. Occurrences(a, x) \in Nat /\ Occurrences(b, x) \in Nat /\ Occurrences(d, x) \in Nat /\ Occurrences(e, x) \in Nat /\ Occurrences(f, x) \in Nat
    BY OccNat
  <1>m. Occurrences(s5, x) = Occurrences(a, x) + Occurrences(b, x) + Occurrences(d, x) + Occurrences(e, x) + Occurrences(f, x)
    BY <1>1, <1>2, <1>3, <1>4, <1>n
  <1> QED
    BY <1>4, <1>m DEF s2, s3, s4, s5

(* The same for six lists.                                                 *)
LEMMA Chain6 ==
  ASSUME NEW a \in Seq(Tokens), NEW b \in Seq(Tokens), NEW d \in Seq(Tokens), NEW e \in Seq(Tokens), NEW f \in Seq(Tokens), NEW g \in Seq(Tokens), NEW x
  PROVE  /\ a \o b \o d \o e \o f \o g \in Seq(Tokens)
         /\ Occurrences(a \o b \o d \o e \o f \o g, x)
              = Occurrences(a, x) + Occurrences(b, x) + Occurrences(d, x) + Occurrences(e, x) + Occurrences(f, x) + Occurrences(g, x)
  <1> DEFINE s2 == a \o b
  <1>1. s2 \in Seq(Tokens) /\ Occurrences(s2, x) = Occurrences(a, x) + Occurrences(b, x)
    BY OccSum
  <1> HIDE DEF s2
  <1> DEFINE s3 == s2 \o d
  <1>2. s3 \in Seq(Tokens) /\ Occurrences(s3, x) = Occurrences(s2, x) + Occurrences(d, x)
    BY <1>1, OccSum
  <1> HIDE DEF s3
  <1> DEFINE s4 == s3 \o e
  <1>3. s4 \in Seq(Tokens) /\ Occurrences(s4, x) = Occurrences(s3, x) + Occurrences(e, x)
    BY <1>2, OccSum
  <1> HIDE DEF s4
  <1> DEFINE s5 == s4 \o f
  <1>4. s5 \in Seq(Tokens) /\ Occurrences(s5, x) = Occurrences(s4, x) + Occurrences(f, x)
    BY <1>3, OccSum
  <1> HIDE DEF s5
  <1> DEFINE s6 == s5 \o g
  <1>5. s6 \in Seq(Tokens) /\ Occurrences(s6, x) = Occurrences(s5, x) + Occurrences(g, x)
    BY <1>4, OccSum
  <1> HIDE DEF s6
  <1>n. Occurrences(a, x) \in Nat /\ Occurrences(b, x) \in Nat /\ Occurrences(d, x) \in Nat /\ Occurrences(e, x) \in Nat /\ Occurrences(f, x) \in Nat /\ Occurrences(g, x) \in Nat
    BY OccNat
  <1>m. Occurrences(s6, x) = Occurrences(a, x) + Occurrences(b, x) + Occurrences(d, x) + Occurrences(e, x) + Occurrences(f, x) + Occurrences(g, x)
    BY <1>1, <1>2, <1>3, <1>4, <1>5, <1>n
  <1> QED
    BY <1>5, <1>m DEF s2, s3, s4, s5, s6

(* The same for seven lists.                                               *)
LEMMA Chain7 ==
  ASSUME NEW a \in Seq(Tokens), NEW b \in Seq(Tokens), NEW d \in Seq(Tokens), NEW e \in Seq(Tokens), NEW f \in Seq(Tokens), NEW g \in Seq(Tokens), NEW h \in Seq(Tokens), NEW x
  PROVE  /\ a \o b \o d \o e \o f \o g \o h \in Seq(Tokens)
         /\ Occurrences(a \o b \o d \o e \o f \o g \o h, x)
              = Occurrences(a, x) + Occurrences(b, x) + Occurrences(d, x) + Occurrences(e, x) + Occurrences(f, x) + Occurrences(g, x) + Occurrences(h, x)
  <1> DEFINE s2 == a \o b
  <1>1. s2 \in Seq(Tokens) /\ Occurrences(s2, x) = Occurrences(a, x) + Occurrences(b, x)
    BY OccSum
  <1> HIDE DEF s2
  <1> DEFINE s3 == s2 \o d
  <1>2. s3 \in Seq(Tokens) /\ Occurrences(s3, x) = Occurrences(s2, x) + Occurrences(d, x)
    BY <1>1, OccSum
  <1> HIDE DEF s3
  <1> DEFINE s4 == s3 \o e
  <1>3. s4 \in Seq(Tokens) /\ Occurrences(s4, x) = Occurrences(s3, x) + Occurrences(e, x)
    BY <1>2, OccSum
  <1> HIDE DEF s4
  <1> DEFINE s5 == s4 \o f
  <1>4. s5 \in Seq(Tokens) /\ Occurrences(s5, x) = Occurrences(s4, x) + Occurrences(f, x)
    BY <1>3, OccSum
  <1> HIDE DEF s5
  <1> DEFINE s6 == s5 \o g
  <1>5. s6 \in Seq(Tokens) /\ Occurrences(s6, x) = Occurrences(s5, x) + Occurrences(g, x)
    BY <1>4, OccSum
  <1> HIDE DEF s6
  <1> DEFINE s7 == s6 \o h
  <1>6. s7 \in Seq(Tokens) /\ Occurrences(s7, x) = Occurrences(s6, x) + Occurrences(h, x)
    BY <1>5, OccSum
  <1> HIDE DEF s7
  <1>n. Occurrences(a, x) \in Nat /\ Occurrences(b, x) \in Nat /\ Occurrences(d, x) \in Nat /\ Occurrences(e, x) \in Nat /\ Occurrences(f, x) \in Nat /\ Occurrences(g, x) \in Nat /\ Occurrences(h, x) \in Nat
    BY OccNat
  <1>m. Occurrences(s7, x) = Occurrences(a, x) + Occurrences(b, x) + Occurrences(d, x) + Occurrences(e, x) + Occurrences(f, x) + Occurrences(g, x) + Occurrences(h, x)
    BY <1>1, <1>2, <1>3, <1>4, <1>5, <1>6, <1>n
  <1> QED
    BY <1>6, <1>m DEF s2, s3, s4, s5, s6, s7

(* The same for eight lists.                                               *)
LEMMA Chain8 ==
  ASSUME NEW a \in Seq(Tokens), NEW b \in Seq(Tokens), NEW d \in Seq(Tokens), NEW e \in Seq(Tokens), NEW f \in Seq(Tokens), NEW g \in Seq(Tokens), NEW h \in Seq(Tokens), NEW i \in Seq(Tokens), NEW x
  PROVE  /\ a \o b \o d \o e \o f \o g \o h \o i \in Seq(Tokens)
         /\ Occurrences(a \o b \o d \o e \o f \o g \o h \o i, x)
              = Occurrences(a, x) + Occurrences(b, x) + Occurrences(d, x) + Occurrences(e, x) + Occurrences(f, x) + Occurrences(g, x) + Occurrences(h, x) + Occurrences(i, x)
  <1> DEFINE s2 == a \o b
  <1>1. s2 \in Seq(Tokens) /\ Occurrences(s2, x) = Occurrences(a, x) + Occurrences(b, x)
    BY OccSum
  <1> HIDE DEF s2
  <1> DEFINE s3 == s2 \o d
  <1>2. s3 \in Seq(Tokens) /\ Occurrences(s3, x) = Occurrences(s2, x) + Occurrences(d, x)
    BY <1>1, OccSum
  <1> HIDE DEF s3
  <1> DEFINE s4 == s3 \o e
  <1>3. s4 \in Seq(Tokens) /\ Occurrences(s4, x) = Occurrences(s3, x) + Occurrences(e, x)
    BY <1>2, OccSum
  <1> HIDE DEF s4
  <1> DEFINE s5 == s4 \o f
  <1>4. s5 \in Seq(Tokens) /\ Occurrences(s5, x) = Occurrences(s4, x) + Occurrences(f, x)
    BY <1>3, OccSum
  <1> HIDE DEF s5
  <1> DEFINE s6 == s5 \o g
  <1>5. s6 \in Seq(Tokens) /\ Occurrences(s6, x) = Occurrences(s5, x) + Occurrences(g, x)
    BY <1>4, OccSum
  <1> HIDE DEF s6
  <1> DEFINE s7 == s6 \o h
  <1>6. s7 \in Seq(Tokens) /\ Occurrences(s7, x) = Occurrences(s6, x) + Occurrences(h, x)
    BY <1>5, OccSum
  <1> HIDE DEF s7
  <1> DEFINE s8 == s7 \o i
  <1>7. s8 \in Seq(Tokens) /\ Occurrences(s8, x) = Occurrences(s7, x) + Occurrences(i, x)
    BY <1>6, OccSum
  <1> HIDE DEF s8
  <1>n. Occurrences(a, x) \in Nat /\ Occurrences(b, x) \in Nat /\ Occurrences(d, x) \in Nat /\ Occurrences(e, x) \in Nat /\ Occurrences(f, x) \in Nat /\ Occurrences(g, x) \in Nat /\ Occurrences(h, x) \in Nat /\ Occurrences(i, x) \in Nat
    BY OccNat
  <1>m. Occurrences(s8, x) = Occurrences(a, x) + Occurrences(b, x) + Occurrences(d, x) + Occurrences(e, x) + Occurrences(f, x) + Occurrences(g, x) + Occurrences(h, x) + Occurrences(i, x)
    BY <1>1, <1>2, <1>3, <1>4, <1>5, <1>6, <1>7, <1>n
  <1> QED
    BY <1>7, <1>m DEF s2, s3, s4, s5, s6, s7, s8

(* The same for nine lists.                                                *)
LEMMA Chain9 ==
  ASSUME NEW a \in Seq(Tokens), NEW b \in Seq(Tokens), NEW d \in Seq(Tokens), NEW e \in Seq(Tokens), NEW f \in Seq(Tokens), NEW g \in Seq(Tokens), NEW h \in Seq(Tokens), NEW i \in Seq(Tokens), NEW j \in Seq(Tokens), NEW x
  PROVE  /\ a \o b \o d \o e \o f \o g \o h \o i \o j \in Seq(Tokens)
         /\ Occurrences(a \o b \o d \o e \o f \o g \o h \o i \o j, x)
              = Occurrences(a, x) + Occurrences(b, x) + Occurrences(d, x) + Occurrences(e, x) + Occurrences(f, x) + Occurrences(g, x) + Occurrences(h, x) + Occurrences(i, x) + Occurrences(j, x)
  <1> DEFINE s2 == a \o b
  <1>1. s2 \in Seq(Tokens) /\ Occurrences(s2, x) = Occurrences(a, x) + Occurrences(b, x)
    BY OccSum
  <1> HIDE DEF s2
  <1> DEFINE s3 == s2 \o d
  <1>2. s3 \in Seq(Tokens) /\ Occurrences(s3, x) = Occurrences(s2, x) + Occurrences(d, x)
    BY <1>1, OccSum
  <1> HIDE DEF s3
  <1> DEFINE s4 == s3 \o e
  <1>3. s4 \in Seq(Tokens) /\ Occurrences(s4, x) = Occurrences(s3, x) + Occurrences(e, x)
    BY <1>2, OccSum
  <1> HIDE DEF s4
  <1> DEFINE s5 == s4 \o f
  <1>4. s5 \in Seq(Tokens) /\ Occurrences(s5, x) = Occurrences(s4, x) + Occurrences(f, x)
    BY <1>3, OccSum
  <1> HIDE DEF s5
  <1> DEFINE s6 == s5 \o g
  <1>5. s6 \in Seq(Tokens) /\ Occurrences(s6, x) = Occurrences(s5, x) + Occurrences(g, x)
    BY <1>4, OccSum
  <1> HIDE DEF s6
  <1> DEFINE s7 == s6 \o h
  <1>6. s7 \in Seq(Tokens) /\ Occurrences(s7, x) = Occurrences(s6, x) + Occurrences(h, x)
    BY <1>5, OccSum
  <1> HIDE DEF s7
  <1> DEFINE s8 == s7 \o i
  <1>7. s8 \in Seq(Tokens) /\ Occurrences(s8, x) = Occurrences(s7, x) + Occurrences(i, x)
    BY <1>6, OccSum
  <1> HIDE DEF s8
  <1> DEFINE s9 == s8 \o j
  <1>8. s9 \in Seq(Tokens) /\ Occurrences(s9, x) = Occurrences(s8, x) + Occurrences(j, x)
    BY <1>7, OccSum
  <1> HIDE DEF s9
  <1>n. Occurrences(a, x) \in Nat /\ Occurrences(b, x) \in Nat /\ Occurrences(d, x) \in Nat /\ Occurrences(e, x) \in Nat /\ Occurrences(f, x) \in Nat /\ Occurrences(g, x) \in Nat /\ Occurrences(h, x) \in Nat /\ Occurrences(i, x) \in Nat /\ Occurrences(j, x) \in Nat
    BY OccNat
  <1>m. Occurrences(s9, x) = Occurrences(a, x) + Occurrences(b, x) + Occurrences(d, x) + Occurrences(e, x) + Occurrences(f, x) + Occurrences(g, x) + Occurrences(h, x) + Occurrences(i, x) + Occurrences(j, x)
    BY <1>1, <1>2, <1>3, <1>4, <1>5, <1>6, <1>7, <1>8, <1>n
  <1> QED
    BY <1>8, <1>m DEF s2, s3, s4, s5, s6, s7, s8, s9

(* bag holds what debt lists; exactly that, if exact.                      *)
Owes(debt, bag, exact) ==
  /\ debt \in Seq(Tokens) /\ IsABag(bag)
  /\ \A x : Occurrences(debt, x) <= Copies(x, bag)
  /\ exact => \A x : Occurrences(debt, x) = Copies(x, bag)

(* A debt that grows by no more than what was acquired is covered.         *)
LEMMA OwesMore ==
  ASSUME NEW exact, NEW debt, NEW bag, Owes(debt, bag, exact), NEW took \in Seq(Tokens),
         NEW debt2 \in Seq(Tokens),
         \A x : Occurrences(debt2, x) <= Occurrences(debt, x) + Occurrences(took, x),
         exact => \A x : Occurrences(debt2, x) = Occurrences(debt, x) + Occurrences(took, x)
  PROVE  Owes(debt2, bag (+) BagOf(took), exact)
  <1>1. IsABag(BagOf(took)) /\ \A x : Copies(x, BagOf(took)) = Occurrences(took, x)
    BY BagOfFacts
  <1>2. debt \in Seq(Tokens) /\ IsABag(bag)
    BY DEF Owes
  <1> DEFINE b2 == BagOf(took)
  <1>3. /\ IsABag(bag (+) b2)
        /\ \A x : Copies(x, bag (+) b2) = Copies(x, bag) + Copies(x, b2)
    <2>1. IsABag(b2)
      BY <1>1
    <2> HIDE DEF b2
    <2> QED
      BY <1>2, <2>1, BagAdd
  <1>4. ASSUME NEW x
        PROVE  /\ Occurrences(debt2, x) <= Copies(x, bag (+) b2)
               /\ exact => Occurrences(debt2, x) = Copies(x, bag (+) b2)
    <2>1. /\ Occurrences(debt, x) <= Copies(x, bag)
          /\ exact => Occurrences(debt, x) = Copies(x, bag)
      BY DEF Owes
    <2>2. Copies(x, bag) \in Nat
      BY <1>2, BagCopies
    <2>3. Occurrences(debt, x) \in Nat /\ Occurrences(debt2, x) \in Nat /\ Occurrences(took, x) \in Nat
      BY <1>2, OccNat
    <2>4. Copies(x, bag (+) b2) = Copies(x, bag) + Occurrences(took, x)
      BY <1>1, <1>3
    <2>5. /\ Occurrences(debt2, x) <= Occurrences(debt, x) + Occurrences(took, x)
          /\ exact => Occurrences(debt2, x) = Occurrences(debt, x) + Occurrences(took, x)
      OBVIOUS
    <2> HIDE DEF b2
    <2> QED
      BY <2>1, <2>2, <2>3, <2>4, <2>5
  <1> QED
    BY <1>3, <1>4 DEF Owes

(* A debt that another one pays for is covered.                            *)
LEMMA OwesSame ==
  ASSUME NEW exact, NEW debt, NEW bag, Owes(debt, bag, exact), NEW debt2, Paid(debt, debt2, exact)
  PROVE  Owes(debt2, bag, exact)
  <1>1. debt \in Seq(Tokens) /\ IsABag(bag) /\ debt2 \in Seq(Tokens)
    BY DEF Owes, Paid
  <1>2. ASSUME NEW x
        PROVE  /\ Occurrences(debt2, x) <= Copies(x, bag)
               /\ exact => Occurrences(debt2, x) = Copies(x, bag)
    <2>1. /\ Occurrences(debt, x) <= Copies(x, bag) /\ (exact => Occurrences(debt, x) = Copies(x, bag))
          /\ Occurrences(debt2, x) <= Occurrences(debt, x)
          /\ (exact => Occurrences(debt2, x) = Occurrences(debt, x))
      BY DEF Owes, Paid
    <2>2. Copies(x, bag) \in Nat /\ Occurrences(debt, x) \in Nat /\ Occurrences(debt2, x) \in Nat
      BY <1>1, BagCopies, OccNat
    <2> QED
      BY <2>1, <2>2
  <1> QED
    BY <1>1, <1>2 DEF Owes

(* The six tables of the context, each with its block.                     *)
FreeStrs(c) == FreeWhole(c.strs, FreeRef, "strs")
FreeTypes(c) == FreeWhole(c.types, FreeRef, "types")
FreeProtos(c) == FreeWhole(c.protos, FreeRef, "protos")
FreeRawFields(c) == FreeWhole(c.fields, FreeRawField, "raw_fields")
FreeRawMethods(c) == FreeWhole(c.methods, FreeRawMethod, "raw_methods")
FreeClasses(c) == FreeWhole(c.classes, FreeClass, "classes")

(* What the prototypes ps of prs hold.                                     *)
FreeList(list) == Before(list, LAMBDA r : r = NULL)

(* The lists of parameters of the prototypes ps.                           *)
ContentsOf(prs, ps) == FlattenSeq([i \in DOMAIN prs |-> IF i \in ps THEN FreeList(prs[i]) ELSE << >>])

(* What the reader owes for the context c, the metadata and the prototypes.*)
Debt(c, data, prs) ==
  <<EmptyStr>> \o FreeContext(c) \o FreeOdexData(data) \o ContentsOf(prs, DOMAIN prs)

(* Each part of the debt is a list of tokens.                              *)
Parts(c, data, prs) ==
  /\ FreeStrs(c) \in Seq(Tokens) /\ FreeTypes(c) \in Seq(Tokens) /\ FreeProtos(c) \in Seq(Tokens)
  /\ FreeRawFields(c) \in Seq(Tokens) /\ FreeRawMethods(c) \in Seq(Tokens)
  /\ FreeClasses(c) \in Seq(Tokens)
  /\ FreeOdexData(data) \in Seq(Tokens) /\ ContentsOf(prs, DOMAIN prs) \in Seq(Tokens)

(* How often the tables of the context owe an element.                     *)
TablesWeight(c, x) ==
  Occurrences(FreeStrs(c), x) + Occurrences(FreeTypes(c), x) + Occurrences(FreeProtos(c), x)
    + Occurrences(FreeRawFields(c), x) + Occurrences(FreeRawMethods(c), x)
    + Occurrences(FreeClasses(c), x)

(* How often the context, the metadata and the prototypes owe an element.  *)
Weight(c, data, prs, x) ==
  TablesWeight(c, x) + Occurrences(<<EmptyStr>>, x) + Occurrences(FreeOdexData(data), x)
    + Occurrences(ContentsOf(prs, DOMAIN prs), x)

(* What free_context releases is what it releases of each of its arrays.   *)
LEMMA ContextSum ==
  ASSUME NEW c,
         FreeStrs(c) \in Seq(Tokens) , FreeTypes(c) \in Seq(Tokens) , FreeProtos(c) \in Seq(Tokens) , FreeRawFields(c) \in Seq(Tokens) , FreeRawMethods(c) \in Seq(Tokens) , FreeClasses(c) \in Seq(Tokens)
  PROVE  /\ FreeContext(c) \in Seq(Tokens)
         /\ \A x : Occurrences(FreeContext(c), x)
                    = Occurrences(FreeStrs(c), x)
                        + Occurrences(FreeTypes(c), x)
                        + Occurrences(FreeProtos(c), x)
                        + Occurrences(FreeRawFields(c), x)
                        + Occurrences(FreeRawMethods(c), x)
                        + Occurrences(FreeClasses(c), x)
  <1> DEFINE p1 == FreeStrs(c)
             p2 == FreeTypes(c)
             p3 == FreeProtos(c)
             p4 == FreeRawFields(c)
             p5 == FreeRawMethods(c)
             p6 == FreeClasses(c)
  <1>0. p1 \in Seq(Tokens) /\ p2 \in Seq(Tokens) /\ p3 \in Seq(Tokens) /\ p4 \in Seq(Tokens) /\ p5 \in Seq(Tokens) /\ p6 \in Seq(Tokens)
    OBVIOUS
  <1>1. FreeContext(c) = p1 \o p2 \o p3 \o p4 \o p5 \o p6
    BY DEF FreeContext, FreeStrs, FreeTypes, FreeProtos, FreeRawFields, FreeRawMethods, FreeClasses
  <1> HIDE DEF p1, p2, p3, p4, p5, p6
  <1>2. ASSUME NEW x
        PROVE  /\ p1 \o p2 \o p3 \o p4 \o p5 \o p6 \in Seq(Tokens)
               /\ Occurrences(p1 \o p2 \o p3 \o p4 \o p5 \o p6, x) = Occurrences(p1, x) + Occurrences(p2, x) + Occurrences(p3, x) + Occurrences(p4, x) + Occurrences(p5, x) + Occurrences(p6, x)
    <2> DEFINE s2 == p1 \o p2
    <2>1. s2 \in Seq(Tokens) /\ Occurrences(s2, x) = Occurrences(p1, x) + Occurrences(p2, x)
      BY <1>0, OccSum
    <2> HIDE DEF s2
    <2> DEFINE s3 == s2 \o p3
    <2>2. s3 \in Seq(Tokens) /\ Occurrences(s3, x) = Occurrences(s2, x) + Occurrences(p3, x)
      BY <1>0, <2>1, OccSum
    <2> HIDE DEF s3
    <2> DEFINE s4 == s3 \o p4
    <2>3. s4 \in Seq(Tokens) /\ Occurrences(s4, x) = Occurrences(s3, x) + Occurrences(p4, x)
      BY <1>0, <2>2, OccSum
    <2> HIDE DEF s4
    <2> DEFINE s5 == s4 \o p5
    <2>4. s5 \in Seq(Tokens) /\ Occurrences(s5, x) = Occurrences(s4, x) + Occurrences(p5, x)
      BY <1>0, <2>3, OccSum
    <2> HIDE DEF s5
    <2> DEFINE s6 == s5 \o p6
    <2>5. s6 \in Seq(Tokens) /\ Occurrences(s6, x) = Occurrences(s5, x) + Occurrences(p6, x)
      BY <1>0, <2>4, OccSum
    <2> HIDE DEF s6
    <2>n. Occurrences(p1, x) \in Nat /\ Occurrences(p2, x) \in Nat /\ Occurrences(p3, x) \in Nat /\ Occurrences(p4, x) \in Nat /\ Occurrences(p5, x) \in Nat /\ Occurrences(p6, x) \in Nat
      BY <1>0, OccNat
    <2>m. Occurrences(s6, x) = Occurrences(p1, x) + Occurrences(p2, x) + Occurrences(p3, x) + Occurrences(p4, x) + Occurrences(p5, x) + Occurrences(p6, x)
      BY <2>1, <2>2, <2>3, <2>4, <2>5, <2>n
    <2> QED
      BY <2>5, <2>m DEF s2, s3, s4, s5, s6
  <1> QED
    BY <1>1, <1>2 DEF p1, p2, p3, p4, p5, p6

(* The empty string, which the program always holds, is a token.           *)
LEMMA EmptyStrToken == <<EmptyStr>> \in Seq(Tokens) /\ EmptyStr \in Strs /\ EmptyStr \in Tokens
  <1>1. EmptyStr = Str(0) /\ 0 \in Nat
    BY DEF EmptyStr, Str
  <1> QED
    BY <1>1, RefTokens DEF Strs

(* The debt is that of the context, of the metadata and of the prototypes. *)
LEMMA DebtSum ==
  ASSUME NEW c, NEW data, NEW prs,
         Parts(c, data, prs)
  PROVE  /\ Debt(c, data, prs) \in Seq(Tokens)
         /\ \A x : Occurrences(Debt(c, data, prs), x)
                    = Occurrences(<<EmptyStr>>, x)
                        + Occurrences(FreeContext(c), x)
                        + Occurrences(FreeOdexData(data), x)
                        + Occurrences(ContentsOf(prs, DOMAIN prs), x)
  <1> DEFINE p1 == <<EmptyStr>>
             p2 == FreeContext(c)
             p3 == FreeOdexData(data)
             p4 == ContentsOf(prs, DOMAIN prs)
  <1>0. p1 \in Seq(Tokens) /\ p2 \in Seq(Tokens) /\ p3 \in Seq(Tokens) /\ p4 \in Seq(Tokens)
    BY EmptyStrToken, ContextSum DEF Parts
  <1>1. Debt(c, data, prs) = p1 \o p2 \o p3 \o p4
    BY DEF Debt
  <1> HIDE DEF p1, p2, p3, p4
  <1>2. ASSUME NEW x
        PROVE  /\ p1 \o p2 \o p3 \o p4 \in Seq(Tokens)
               /\ Occurrences(p1 \o p2 \o p3 \o p4, x) = Occurrences(p1, x) + Occurrences(p2, x) + Occurrences(p3, x) + Occurrences(p4, x)
    <2> DEFINE s2 == p1 \o p2
    <2>1. s2 \in Seq(Tokens) /\ Occurrences(s2, x) = Occurrences(p1, x) + Occurrences(p2, x)
      BY <1>0, OccSum
    <2> HIDE DEF s2
    <2> DEFINE s3 == s2 \o p3
    <2>2. s3 \in Seq(Tokens) /\ Occurrences(s3, x) = Occurrences(s2, x) + Occurrences(p3, x)
      BY <1>0, <2>1, OccSum
    <2> HIDE DEF s3
    <2> DEFINE s4 == s3 \o p4
    <2>3. s4 \in Seq(Tokens) /\ Occurrences(s4, x) = Occurrences(s3, x) + Occurrences(p4, x)
      BY <1>0, <2>2, OccSum
    <2> HIDE DEF s4
    <2>n. Occurrences(p1, x) \in Nat /\ Occurrences(p2, x) \in Nat /\ Occurrences(p3, x) \in Nat /\ Occurrences(p4, x) \in Nat
      BY <1>0, OccNat
    <2>m. Occurrences(s4, x) = Occurrences(p1, x) + Occurrences(p2, x) + Occurrences(p3, x) + Occurrences(p4, x)
      BY <2>1, <2>2, <2>3, <2>n
    <2> QED
      BY <2>3, <2>m DEF s2, s3, s4
  <1> QED
    BY <1>1, <1>2 DEF p1, p2, p3, p4

(* The debt as the sum of its parts.                                       *)
LEMMA DebtWeight ==
  ASSUME NEW c, NEW data, NEW prs, Parts(c, data, prs)
  PROVE  /\ Debt(c, data, prs) \in Seq(Tokens)
         /\ \A x : Occurrences(Debt(c, data, prs), x) = Weight(c, data, prs, x)
  <1>1. Debt(c, data, prs) \in Seq(Tokens)
    BY DebtSum
  <1>2. ASSUME NEW x PROVE Occurrences(Debt(c, data, prs), x) = Weight(c, data, prs, x)
    <2>1. Occurrences(Debt(c, data, prs), x)
            = Occurrences(<<EmptyStr>>, x) + Occurrences(FreeContext(c), x)
                + Occurrences(FreeOdexData(data), x) + Occurrences(ContentsOf(prs, DOMAIN prs), x)
      BY DebtSum
    <2>2. Occurrences(FreeContext(c), x)
            = Occurrences(FreeStrs(c), x) + Occurrences(FreeTypes(c), x) + Occurrences(FreeProtos(c), x)
               + Occurrences(FreeRawFields(c), x) + Occurrences(FreeRawMethods(c), x)
               + Occurrences(FreeClasses(c), x)
      BY ContextSum DEF Parts
    <2>3. TablesWeight(c, x) \in Nat /\ Occurrences(<<EmptyStr>>, x) \in Nat
          /\ Occurrences(FreeOdexData(data), x) \in Nat
          /\ Occurrences(ContentsOf(prs, DOMAIN prs), x) \in Nat
      <3>1. /\ Occurrences(FreeStrs(c), x) \in Nat /\ Occurrences(FreeTypes(c), x) \in Nat
            /\ Occurrences(FreeProtos(c), x) \in Nat /\ Occurrences(FreeRawFields(c), x) \in Nat
            /\ Occurrences(FreeRawMethods(c), x) \in Nat /\ Occurrences(FreeClasses(c), x) \in Nat
        BY OccNat DEF Parts
      <3>2. Occurrences(<<EmptyStr>>, x) \in Nat /\ Occurrences(FreeOdexData(data), x) \in Nat
            /\ Occurrences(ContentsOf(prs, DOMAIN prs), x) \in Nat
        BY OccNat, EmptyStrToken DEF Parts
      <3> QED
        BY <3>1, <3>2 DEF TablesWeight
    <2>4. Occurrences(FreeContext(c), x) = TablesWeight(c, x)
      BY <2>2 DEF TablesWeight
    <2> QED
      BY <2>1, <2>3, <2>4 DEF Weight
  <1> QED
    BY <1>1, <1>2

(* A read that adds to the debt what it acquired.                          *)
LEMMA StepOwes ==
  ASSUME NEW exact, NEW c, NEW data, NEW prs, NEW bag, Parts(c, data, prs),
         Owes(Debt(c, data, prs), bag, exact), NEW took \in Seq(Tokens),
         NEW c2, NEW data2, NEW prs2, Parts(c2, data2, prs2),
         \A x : Weight(c2, data2, prs2, x) <= Weight(c, data, prs, x) + Occurrences(took, x),
         exact => \A x : Weight(c2, data2, prs2, x) = Weight(c, data, prs, x) + Occurrences(took, x)
  PROVE  Owes(Debt(c2, data2, prs2), bag (+) BagOf(took), exact)
  <1>1. /\ Debt(c, data, prs) \in Seq(Tokens)
        /\ \A x : Occurrences(Debt(c, data, prs), x) = Weight(c, data, prs, x)
    BY DebtWeight
  <1>2. /\ Debt(c2, data2, prs2) \in Seq(Tokens)
        /\ \A x : Occurrences(Debt(c2, data2, prs2), x) = Weight(c2, data2, prs2, x)
    BY DebtWeight
  <1> DEFINE d == Debt(c, data, prs)
             d2 == Debt(c2, data2, prs2)
  <1>3. /\ \A x : Occurrences(d2, x) <= Occurrences(d, x) + Occurrences(took, x)
        /\ exact => \A x : Occurrences(d2, x) = Occurrences(d, x) + Occurrences(took, x)
    BY <1>1, <1>2
  <1> HIDE DEF d, d2
  <1>4. Owes(d, bag, exact) /\ d2 \in Seq(Tokens)
    BY <1>2 DEF d, d2
  <1>5. Owes(d2, bag (+) BagOf(took), exact)
    BY <1>3, <1>4, OwesMore
  <1> QED
    BY <1>5 DEF d2

(* All arrays whose references are freed by their size.                    *)
LEMMA TablePays ==
  ASSUME NullApart, NEW exact, NEW kind \in Kinds, NEW reads, IsList(reads),
         \A i \in 1..Len(reads) : Pays(reads[i], FreeRef(reads[i].value), exact),
         \A i \in 1..Len(reads) : reads[i].value = NULL => ~reads[i].ok
  PROVE  LET r == ReadArray(reads, NULL, kind)
         IN  /\ Pays(r, FreeWhole(r.value, FreeRef, kind), exact)
             /\ IsList(r.value) /\ Len(r.value) = Len(reads)
             /\ r.ok => \A i \in 1..Len(reads) : r.value[i] = reads[i].value /\ reads[i].ok
  <1> DEFINE r == ReadArray(reads, NULL, kind)
             z == r.value
             ends == {i \in DOMAIN z : FALSE}
             tt == [i \in DOMAIN z |-> FreeRef(z[i])]
  <1>1. IsList(z) /\ Len(z) = Len(reads)
    BY ReadArrayFacts
  <1>2. DOMAIN z = 1..Len(reads) /\ z # NULL
    BY <1>1, ListFacts, NotNull
  <1>3. FreeWhole(z, FreeRef, kind) = FlattenSeq(UpTo(tt, ends)) \o <<Block(kind)>>
    BY <1>2 DEF FreeWhole, FreeArray
  <1>4. ends \in SUBSET DOMAIN z /\ \A e \in ends : z[e] = NULL
    OBVIOUS
  <1>5. z = ReadArray(reads, NULL, kind).value
    OBVIOUS
  <1>6. IsList(tt) /\ Len(tt) = Len(reads) /\ \A i \in 1..Len(reads) : tt[i] = FreeRef(z[i])
    BY <1>1, <1>2, ListOf, ListFacts
  <1> HIDE DEF z, ends, tt
  <1>7. Pays(ReadArray(reads, NULL, kind), FlattenSeq(UpTo(tt, ends)) \o <<Block(kind)>>, exact)
    BY <1>4, <1>5, <1>6, RefsPay
  <1>8. r.ok => \A i \in 1..Len(reads) : reads[i].ok
    BY ReadArrayFacts
  <1>9. ASSUME r.ok, NEW i \in 1..Len(reads) PROVE r.value[i] = reads[i].value
    BY <1>9, ReadArrayDone
  <1> QED
    BY <1>1, <1>3, <1>7, <1>8, <1>9 DEF z

(* Two or three references, some of which may be missing.                  *)
LEMMA FreeRefsTwo ==
  ASSUME NullApart, NEW a \in Tokens \cup {NULL}, NEW b \in Tokens \cup {NULL}
  PROVE  /\ FreeRefs(<<a, b>>) = FreeRef(a) \o FreeRef(b)
         /\ FreeRef(a) \in Seq(Tokens) /\ FreeRef(b) \in Seq(Tokens)
  <1>1. FreeRef(a) \in Seq(Tokens) /\ FreeRef(b) \in Seq(Tokens)
    BY FreeRefFacts, NoTokens
  <1> DEFINE rs == <<a, b>>
  <1>2. [i \in DOMAIN rs |-> FreeRef(rs[i])] = <<FreeRef(a), FreeRef(b)>>
    OBVIOUS
  <1>3. FreeRefs(rs) = FlattenSeq(<<FreeRef(a), FreeRef(b)>>)
    BY <1>2 DEF FreeRefs
  <1> QED
    BY <1>1, <1>3, FlattenTwo

(* Three references, some of which may be missing.                         *)
LEMMA FreeRefsThree ==
  ASSUME NullApart, NEW a \in Tokens \cup {NULL}, NEW b \in Tokens \cup {NULL},
         NEW d \in Tokens \cup {NULL}
  PROVE  /\ FreeRefs(<<a, b, d>>) = (FreeRef(a) \o FreeRef(b)) \o FreeRef(d)
         /\ FreeRef(a) \in Seq(Tokens) /\ FreeRef(b) \in Seq(Tokens) /\ FreeRef(d) \in Seq(Tokens)
  <1>1. FreeRef(a) \in Seq(Tokens) /\ FreeRef(b) \in Seq(Tokens) /\ FreeRef(d) \in Seq(Tokens)
    BY FreeRefFacts, NoTokens
  <1> DEFINE rs == <<a, b, d>>
             ss == <<FreeRef(a), FreeRef(b), FreeRef(d)>>
  <1>2. [i \in DOMAIN rs |-> FreeRef(rs[i])] = ss
    OBVIOUS
  <1>3. FreeRefs(rs) = FlattenSeq(ss)
    BY <1>2 DEF FreeRefs
  <1>4. ss \in Seq(Seq(Tokens)) /\ Len(ss) = 3 /\ ss[1] = FreeRef(a) /\ ss[2] = FreeRef(b) /\ ss[3] = FreeRef(d)
    BY <1>1
  <1> HIDE DEF ss
  <1>5. FlattenSeq(ss) = (ss[1] \o ss[2]) \o ss[3]
    BY <1>4, FlattenThree
  <1> QED
    BY <1>1, <1>3, <1>4, <1>5

(* The sections, from what the file says of them.                          *)
StringRead(s, i) == IF s = NULL THEN Failed(NULL) ELSE Done(Str(i), <<Str(i)>>)

(* The section of strings, as one read.                                    *)
StringsRead(list) == ReadArray([i \in DOMAIN list |-> StringRead(list[i], i)], NULL, "strs")
(* The section of strings pays.                                            *)
LEMMA StringsPay ==
  ASSUME NullApart, NEW exact, NEW list, IsList(list)
  PROVE  LET r == StringsRead(list)
         IN  /\ Pays(r, FreeWhole(r.value, FreeRef, "strs"), exact)
             /\ IsList(r.value) /\ Len(r.value) = Len(list)
             /\ r.ok => \A i \in 1..Len(list) : r.value[i] \in Strs
  <1> DEFINE reads == [i \in DOMAIN list |-> StringRead(list[i], i)]
             r == ReadArray(reads, NULL, "strs")
  <1>1. IsList(reads) /\ Len(reads) = Len(list) /\ DOMAIN list = 1..Len(list) /\ Len(list) \in Nat
    BY ListFacts, ListOf
  <1>2. ASSUME NEW i \in 1..Len(reads)
        PROVE  /\ Pays(reads[i], FreeRef(reads[i].value), exact)
               /\ reads[i].value = NULL => ~reads[i].ok
               /\ reads[i].ok => reads[i].value \in Strs
    <2>1. reads[i] = StringRead(list[i], i) /\ i \in Nat
      BY <1>1
    <2> HIDE DEF reads
    <2>2. CASE list[i] = NULL
      <3>1. reads[i] = Failed(NULL)
        BY <2>1, <2>2 DEF StringRead
      <3>2. Pays(Failed(NULL), << >>, exact) /\ Failed(NULL).value = NULL /\ Failed(NULL).ok = FALSE
        BY FailedPays
      <3> QED
        BY <3>1, <3>2, FreeRefFacts
    <2>3. CASE list[i] # NULL
      <3> DEFINE t == Str(i)
      <3>1. reads[i] = Done(t, <<t>>)
        BY <2>1, <2>3 DEF StringRead
      <3>2. t \in Strs /\ t \in Tokens
        BY <2>1, RefTokens DEF Strs
      <3> HIDE DEF t
      <3>3. t # NULL /\ FreeRef(t) = <<t>> /\ <<t>> \in Seq(Tokens)
        BY <3>2, NotNull, FreeRefFacts
      <3>4. Pays(Done(t, <<t>>), <<t>>, exact) /\ Done(t, <<t>>).value = t
        BY <3>3, DonePays
      <3> QED
        BY <3>1, <3>2, <3>3, <3>4
    <2> QED
      BY <2>2, <2>3
  <1> HIDE DEF reads
  <1>3. "strs" \in Kinds
    BY DEF Kinds
  <1>4. /\ Pays(r, FreeWhole(r.value, FreeRef, "strs"), exact)
        /\ IsList(r.value) /\ Len(r.value) = Len(reads)
        /\ r.ok => \A i \in 1..Len(reads) : r.value[i] = reads[i].value /\ reads[i].ok
    BY <1>1, <1>2, <1>3, TablePays
  <1>5. StringsRead(list) = r
    BY DEF StringsRead, reads
  <1> HIDE DEF r
  <1> QED
    BY <1>1, <1>2, <1>4, <1>5

(* The section of types, as one read.                                      *)
TypesRead(strs, list) == ReadArray([i \in DOMAIN list |-> ReadRef(strs, list[i])], NULL, "types")
(* The section of types pays.                                              *)
LEMMA TypesPay ==
  ASSUME NullApart, NEW exact, NEW strs, IsList(strs), \A i \in 1..Len(strs) : strs[i] \in Strs,
         NEW list, IsList(list)
  PROVE  LET r == TypesRead(strs, list)
         IN  /\ Pays(r, FreeWhole(r.value, FreeRef, "types"), exact)
             /\ IsList(r.value) /\ Len(r.value) = Len(list)
             /\ r.ok => \A i \in 1..Len(list) : r.value[i] \in Strs
  <1> DEFINE reads == [i \in DOMAIN list |-> ReadRef(strs, list[i])]
             r == ReadArray(reads, NULL, "types")
  <1>1. IsList(reads) /\ Len(reads) = Len(list) /\ DOMAIN list = 1..Len(list) /\ Len(list) \in Nat
    BY ListFacts, ListOf
  <1>0. \A i \in 1..Len(strs) : strs[i] \in Tokens
    BY RefTokens
  <1>2. ASSUME NEW i \in 1..Len(reads)
        PROVE  /\ Pays(reads[i], FreeRef(reads[i].value), exact)
               /\ reads[i].value = NULL => ~reads[i].ok
               /\ reads[i].ok => reads[i].value \in Strs
    <2> DEFINE q == ReadRef(strs, list[i])
    <2>1. reads[i] = q
      BY <1>1
    <2>2. /\ IsResult(q) /\ Paid(q.took, FreeRef(q.value), exact)
          /\ q.ok <=> list[i] \in 1..Len(strs)
          /\ q.ok => q.value = strs[list[i]]
      BY <1>0, ReadRefPaid
    <2> HIDE DEF reads, q
    <2>3. q.ok => q.value \in Strs /\ q.value # NULL
      BY <1>0, <2>2, NotNull
    <2> QED
      BY <2>1, <2>2, <2>3 DEF Pays
  <1> HIDE DEF reads
  <1>3. "types" \in Kinds
    BY DEF Kinds
  <1>4. /\ Pays(r, FreeWhole(r.value, FreeRef, "types"), exact)
        /\ IsList(r.value) /\ Len(r.value) = Len(reads)
        /\ r.ok => \A i \in 1..Len(reads) : r.value[i] = reads[i].value /\ reads[i].ok
    BY <1>1, <1>2, <1>3, TablePays
  <1>5. TypesRead(strs, list) = r
    BY DEF TypesRead, reads
  <1> HIDE DEF r
  <1> QED
    BY <1>1, <1>2, <1>4, <1>5

(* A raw field or method: three references, taken when all are valid.      *)
RefList(s) == IsList(s) /\ \A i \in 1..Len(s) : s[i] \in Tokens

(* Three reads, one after the other, as the parts of one structure.        *)
ThreeRead(r, s1, a, s2, b, s3, d) ==
  /\ IsResult(r)
  /\ r.ok => /\ a \in 1..Len(s1) /\ b \in 1..Len(s2) /\ d \in 1..Len(s3)
             /\ r.value[1] = s1[a] /\ r.value[2] = s2[b] /\ r.value[3] = s3[d]
             /\ r.took = (<<s1[a]>> \o <<s2[b]>>) \o <<s3[d]>>
(* Three references, read in order.                                        *)
LEMMA ThreeRefs ==
  ASSUME NullApart, NEW s1, RefList(s1), NEW s2, RefList(s2), NEW s3, RefList(s3),
         NEW a, NEW b, NEW d
  PROVE  ThreeRead(InOrder(<<ReadRef(s1, a), ReadRef(s2, b), ReadRef(s3, d)>>, NULL),
                   s1, a, s2, b, s3, d)
  <1> DEFINE p == ReadRef(s1, a)
             q == ReadRef(s2, b)
             s == ReadRef(s3, d)
             r == InOrder(<<p, q, s>>, NULL)
  <1>1. IsResult(p) /\ (p.ok <=> a \in 1..Len(s1))
    BY ReadRefPaid DEF RefList
  <1>2. IsResult(q) /\ (q.ok <=> b \in 1..Len(s2))
    BY ReadRefPaid DEF RefList
  <1>3. IsResult(s) /\ (s.ok <=> d \in 1..Len(s3))
    BY ReadRefPaid DEF RefList
  <1>4. ASSUME a \in 1..Len(s1) PROVE p.value = s1[a] /\ p.took = <<s1[a]>>
    <2>1. a \in DOMAIN s1
      BY <1>4, ListFacts DEF RefList
    <2> QED
      BY <2>1 DEF ReadRef, Done, Result
  <1>5. ASSUME b \in 1..Len(s2) PROVE q.value = s2[b] /\ q.took = <<s2[b]>>
    <2>1. b \in DOMAIN s2
      BY <1>5, ListFacts DEF RefList
    <2> QED
      BY <2>1 DEF ReadRef, Done, Result
  <1>6. ASSUME d \in 1..Len(s3) PROVE s.value = s3[d] /\ s.took = <<s3[d]>>
    <2>1. d \in DOMAIN s3
      BY <1>6, ListFacts DEF RefList
    <2> QED
      BY <2>1 DEF ReadRef, Done, Result
  <1> HIDE DEF p, q, s
  <1>7. /\ r.value[1] = p.value
        /\ r.value[2] = IF p.ok THEN q.value ELSE NULL
        /\ r.value[3] = IF p.ok /\ q.ok THEN s.value ELSE NULL
        /\ r.took = IF ~p.ok THEN p.took ELSE IF ~q.ok THEN p.took \o q.took
                                          ELSE (p.took \o q.took) \o s.took
        /\ r.ok = (p.ok /\ q.ok /\ s.ok)
        /\ IsResult(r)
    BY <1>1, <1>2, <1>3, InOrderThree
  <1> HIDE DEF r
  <1>8. ASSUME r.ok
        PROVE  /\ a \in 1..Len(s1) /\ b \in 1..Len(s2) /\ d \in 1..Len(s3)
               /\ r.value[1] = s1[a] /\ r.value[2] = s2[b] /\ r.value[3] = s3[d]
               /\ r.took = (<<s1[a]>> \o <<s2[b]>>) \o <<s3[d]>>
    <2>1. p.ok /\ q.ok /\ s.ok
      BY <1>7, <1>8
    <2> QED
      BY <1>1, <1>2, <1>3, <1>4, <1>5, <1>6, <1>7, <2>1
  <1> QED
    BY <1>7, <1>8 DEF r, p, q, s, ThreeRead

(* Three references that are missing.                                      *)
LEMMA ThreeNulls ==
  ASSUME NullApart
  PROVE  FreeRefs(<<NULL, NULL, NULL>>) = (FreeRef(NULL) \o FreeRef(NULL)) \o FreeRef(NULL)
  <1>1. PICK n \in Tokens \cup {NULL} : n = NULL
    OBVIOUS
  <1> QED
    BY <1>1, FreeRefsThree

(* Three references, released in another order.                            *)
LEMMA Turned ==
  ASSUME NEW exact, NEW a \in Tokens, NEW b \in Tokens, NEW d \in Tokens
  PROVE  Paid((<<a>> \o <<b>>) \o <<d>>, (<<a>> \o <<d>>) \o <<b>>, exact)
  <1>1. \A e \in Tokens : <<e>> \in Seq(Tokens)
    OBVIOUS
  <1>2. Paid(<<b>> \o <<d>>, <<d>> \o <<b>>, exact)
    BY <1>1, PaidSame, PaidTurn
  <1> DEFINE s == <<b>> \o <<d>>
             t == <<d>> \o <<b>>
  <1>3. Paid(<<a>> \o s, <<a>> \o t, exact)
    <2>1. Paid(s, t, exact)
      BY <1>2
    <2> HIDE DEF s, t
    <2>2. Paid(<<a>>, <<a>>, exact)
      BY <1>1, PaidSame
    <2> QED
      BY <2>1, <2>2, PaidCat
  <1>4. <<a>> \o s = (<<a>> \o <<b>>) \o <<d>> /\ <<a>> \o t = (<<a>> \o <<d>>) \o <<b>>
    OBVIOUS
  <1> QED
    BY <1>3, <1>4


(* An entry of the sections of fields and of methods when it has been      *)
(* read, without annotations.                                              *)
RawFieldGood(fld) ==
  /\ fld = [defining_class |-> fld.defining_class, type |-> fld.type, name |-> fld.name,
            annotations |-> fld.annotations]
  /\ fld.defining_class \in Strs /\ fld.type \in Strs /\ fld.name \in Strs /\ fld.annotations = NULL
RawMethodGood(mtd) ==
  /\ mtd = [defining_class |-> mtd.defining_class, name |-> mtd.name, prototype |-> mtd.prototype,
            annotations |-> mtd.annotations, parameter_annotations |-> mtd.parameter_annotations]
  /\ mtd.defining_class \in Strs /\ mtd.prototype \in Protos /\ mtd.name \in Strs
  /\ mtd.annotations = NULL /\ mtd.parameter_annotations = NULL

(* An entry of the section of fields pays.                                 *)
LEMMA RawFieldPays ==
  ASSUME NullApart, NEW exact, IsList(ctx.types), \A i \in 1..Len(ctx.types) : ctx.types[i] \in Strs,
         IsList(ctx.strs), \A i \in 1..Len(ctx.strs) : ctx.strs[i] \in Strs, NEW f
  PROVE  LET r == RawField(f)
         IN  /\ Pays(r, FreeRawField(r.value), exact)
             /\ r.ok => RawFieldGood(r.value)
  <1> DEFINE io == InOrder(<<ReadRef(ctx.types, f.class), ReadRef(ctx.types, f.type),
                             ReadRef(ctx.strs, f.name)>>, NULL)
             fld == [ZeroRawField EXCEPT !.defining_class = io.value[1], !.type = io.value[2],
                                          !.name = io.value[3]]
  <1>0. /\ \A i \in 1..Len(ctx.types) : ctx.types[i] \in Tokens
        /\ \A i \in 1..Len(ctx.strs) : ctx.strs[i] \in Tokens
        /\ \A i \in 1..Len(ctx.types) : ctx.types[i] \in Tokens
    BY RefTokens
  <1>1. RawField(f) = IF io.ok THEN [io EXCEPT !.value = fld] ELSE Failed(ZeroRawField)
    BY DEF RawField
  <1>2. /\ IsResult(io)
        /\ io.ok => /\ f.class \in 1..Len(ctx.types) /\ f.type \in 1..Len(ctx.types)
                    /\ f.name \in 1..Len(ctx.strs)
                    /\ io.value[1] = ctx.types[f.class] /\ io.value[2] = ctx.types[f.type]
                    /\ io.value[3] = ctx.strs[f.name]
                    /\ io.took = (<<ctx.types[f.class]>> \o <<ctx.types[f.type]>>) \o <<ctx.strs[f.name]>>
    <2>1. RefList(ctx.types) /\ RefList(ctx.types) /\ RefList(ctx.strs)
      BY <1>0 DEF RefList
    <2>2. ThreeRead(io, ctx.types, f.class, ctx.types, f.type, ctx.strs, f.name)
      BY <2>1, ThreeRefs
    <2> HIDE DEF io
    <2> QED
      BY <2>2 DEF ThreeRead
  <1> HIDE DEF io
  <1>3. CASE io.ok
    <2>1. PICK a, b, d : a = io.value[1] /\ b = io.value[2] /\ d = io.value[3]
      OBVIOUS
    <2>2. a \in Strs /\ b \in Strs /\ d \in Strs /\ a \in Tokens /\ b \in Tokens /\ d \in Tokens
      BY <1>2, <1>3, <2>1, RefTokens
    <2>3. io.took = (<<a>> \o <<b>>) \o <<d>>
      BY <1>2, <1>3, <2>1
    <2>4. /\ fld.defining_class = a /\ fld.type = b /\ fld.name = d /\ fld.annotations = NULL
          /\ fld = [defining_class |-> a, type |-> b, name |-> d, annotations |-> NULL]
      <3>1. fld = [ZeroRawField EXCEPT !.defining_class = a, !.type = b, !.name = d]
        BY <2>1
      <3> HIDE DEF fld
      <3>2. fld = [defining_class |-> a, type |-> b, name |-> d, annotations |-> NULL]
        BY <3>1 DEF ZeroRawField
      <3> QED
        BY <3>2
    <2> HIDE DEF fld
    <2>5. FreeAnnotations(NULL) = << >>
      BY DEF FreeAnnotations, FreeParameterAnnotations, FreeArray
    <2>6. FreeRawField(fld) = (<<a>> \o <<d>>) \o <<b>>
      <3>1. FreeRefs(<<a, d, b>>) = (FreeRef(a) \o FreeRef(d)) \o FreeRef(b)
        <4>1. a \in Tokens \cup {NULL} /\ d \in Tokens \cup {NULL} /\ b \in Tokens \cup {NULL}
          BY <2>2
        <4> QED
          BY <4>1, FreeRefsThree
      <3>2. FreeRefs(<<a, d, b>>) = (<<a>> \o <<d>>) \o <<b>>
        BY <2>2, <3>1, FreeRefFacts
      <3>3. FreeRawField(fld) = ((<<a>> \o <<d>>) \o <<b>>) \o << >>
        BY <2>4, <2>5, <3>2 DEF FreeRawField
      <3> DEFINE t == (<<a>> \o <<d>>) \o <<b>>
      <3>4. t \in Seq(Tokens)
        BY <2>2
      <3> HIDE DEF t
      <3>5. t \o << >> = t
        BY <3>4
      <3> QED
        BY <3>3, <3>5 DEF t
    <2>7. Paid(io.took, FreeRawField(fld), exact)
      BY <2>2, <2>3, <2>6, Turned
    <2>8. RawFieldGood(fld)
      BY <2>2, <2>4 DEF RawFieldGood
    <2>9. [io EXCEPT !.value = fld] = Result(fld, io.ok, io.took)
      BY <1>2, FillResult
    <2>10. Pays(Result(fld, io.ok, io.took), FreeRawField(fld), exact) /\ Result(fld, io.ok, io.took).value = fld
      BY <1>2, <2>7, ResultPays, ResultFields DEF IsResult
    <2> QED
      BY <1>1, <1>3, <2>8, <2>9, <2>10
  <1>4. CASE ~io.ok
    <2>1. FreeRawField(ZeroRawField) = << >>
      <3>1. FreeRefs(<<NULL, NULL, NULL>>) = (FreeRef(NULL) \o FreeRef(NULL)) \o FreeRef(NULL)
        BY ThreeNulls
      <3>2. FreeRefs(<<NULL, NULL, NULL>>) = << >>
        BY <3>1, FreeRefFacts
      <3>3. FreeAnnotations(NULL) = << >> /\ FreeParameterAnnotations(NULL) = << >>
        BY DEF FreeAnnotations, FreeParameterAnnotations, FreeArray
      <3> QED
        BY <3>2, <3>3 DEF FreeRawField, ZeroRawField
    <2>2. Pays(Failed(ZeroRawField), << >>, exact) /\ Failed(ZeroRawField).value = ZeroRawField
          /\ Failed(ZeroRawField).ok = FALSE
      BY FailedPays
    <2> QED
      BY <1>1, <1>4, <2>1, <2>2
  <1> QED
    BY <1>3, <1>4


(* An entry of the section of methods pays.                                *)
LEMMA RawMethodPays ==
  ASSUME NullApart, NEW exact, IsList(ctx.types), \A i \in 1..Len(ctx.types) : ctx.types[i] \in Strs,
         IsList(ctx.strs), \A i \in 1..Len(ctx.strs) : ctx.strs[i] \in Strs,
         IsList(ctx.protos), \A i \in 1..Len(ctx.protos) : ctx.protos[i] \in Protos, NEW f
  PROVE  LET r == RawMethod(f)
         IN  /\ Pays(r, FreeRawMethod(r.value), exact)
             /\ r.ok => RawMethodGood(r.value)
  <1> DEFINE io == InOrder(<<ReadRef(ctx.types, f.class), ReadRef(ctx.protos, f.prototype),
                             ReadRef(ctx.strs, f.name)>>, NULL)
             fld == [ZeroRawMethod EXCEPT !.defining_class = io.value[1], !.prototype = io.value[2],
                                          !.name = io.value[3]]
  <1>0. /\ \A i \in 1..Len(ctx.types) : ctx.types[i] \in Tokens
        /\ \A i \in 1..Len(ctx.strs) : ctx.strs[i] \in Tokens
        /\ \A i \in 1..Len(ctx.protos) : ctx.protos[i] \in Tokens
    BY RefTokens
  <1>1. RawMethod(f) = IF io.ok THEN [io EXCEPT !.value = fld] ELSE Failed(ZeroRawMethod)
    BY DEF RawMethod
  <1>2. /\ IsResult(io)
        /\ io.ok => /\ f.class \in 1..Len(ctx.types) /\ f.prototype \in 1..Len(ctx.protos)
                    /\ f.name \in 1..Len(ctx.strs)
                    /\ io.value[1] = ctx.types[f.class] /\ io.value[2] = ctx.protos[f.prototype]
                    /\ io.value[3] = ctx.strs[f.name]
                    /\ io.took = (<<ctx.types[f.class]>> \o <<ctx.protos[f.prototype]>>) \o <<ctx.strs[f.name]>>
    <2>1. RefList(ctx.types) /\ RefList(ctx.protos) /\ RefList(ctx.strs)
      BY <1>0 DEF RefList
    <2>2. ThreeRead(io, ctx.types, f.class, ctx.protos, f.prototype, ctx.strs, f.name)
      BY <2>1, ThreeRefs
    <2> HIDE DEF io
    <2> QED
      BY <2>2 DEF ThreeRead
  <1> HIDE DEF io
  <1>3. CASE io.ok
    <2>1. PICK a, b, d : a = io.value[1] /\ b = io.value[2] /\ d = io.value[3]
      OBVIOUS
    <2>2. a \in Strs /\ b \in Protos /\ d \in Strs /\ a \in Tokens /\ b \in Tokens /\ d \in Tokens
      BY <1>2, <1>3, <2>1, RefTokens
    <2>3. io.took = (<<a>> \o <<b>>) \o <<d>>
      BY <1>2, <1>3, <2>1
    <2>4. /\ fld.defining_class = a /\ fld.prototype = b /\ fld.name = d /\ fld.annotations = NULL /\ fld.parameter_annotations = NULL
          /\ fld = [defining_class |-> a, prototype |-> b, name |-> d, annotations |-> NULL, parameter_annotations |-> NULL]
      <3>1. fld = [ZeroRawMethod EXCEPT !.defining_class = a, !.prototype = b, !.name = d]
        BY <2>1
      <3> HIDE DEF fld
      <3>2. fld = [defining_class |-> a, prototype |-> b, name |-> d, annotations |-> NULL, parameter_annotations |-> NULL]
        BY <3>1 DEF ZeroRawMethod
      <3> QED
        BY <3>2
    <2> HIDE DEF fld
    <2>5. FreeAnnotations(NULL) = << >> /\ FreeParameterAnnotations(NULL) = << >>
      BY DEF FreeAnnotations, FreeParameterAnnotations, FreeArray
    <2>6. FreeRawMethod(fld) = (<<a>> \o <<d>>) \o <<b>>
      <3>1. FreeRefs(<<a, d, b>>) = (FreeRef(a) \o FreeRef(d)) \o FreeRef(b)
        <4>1. a \in Tokens \cup {NULL} /\ d \in Tokens \cup {NULL} /\ b \in Tokens \cup {NULL}
          BY <2>2
        <4> QED
          BY <4>1, FreeRefsThree
      <3>2. FreeRefs(<<a, d, b>>) = (<<a>> \o <<d>>) \o <<b>>
        BY <2>2, <3>1, FreeRefFacts
      <3>3. FreeRawMethod(fld) = ((<<a>> \o <<d>>) \o <<b>>) \o << >> \o << >>
        BY <2>4, <2>5, <3>2 DEF FreeRawMethod
      <3> DEFINE t == (<<a>> \o <<d>>) \o <<b>>
      <3>4. t \in Seq(Tokens)
        BY <2>2
      <3> HIDE DEF t
      <3>5. t \o << >> = t
        BY <3>4
      <3> QED
        BY <3>3, <3>5 DEF t
    <2>7. Paid(io.took, FreeRawMethod(fld), exact)
      BY <2>2, <2>3, <2>6, Turned
    <2>8. RawMethodGood(fld)
      BY <2>2, <2>4 DEF RawMethodGood
    <2>9. [io EXCEPT !.value = fld] = Result(fld, io.ok, io.took)
      BY <1>2, FillResult
    <2>10. Pays(Result(fld, io.ok, io.took), FreeRawMethod(fld), exact) /\ Result(fld, io.ok, io.took).value = fld
      BY <1>2, <2>7, ResultPays, ResultFields DEF IsResult
    <2> QED
      BY <1>1, <1>3, <2>8, <2>9, <2>10
  <1>4. CASE ~io.ok
    <2>1. FreeRawMethod(ZeroRawMethod) = << >>
      <3>1. FreeRefs(<<NULL, NULL, NULL>>) = (FreeRef(NULL) \o FreeRef(NULL)) \o FreeRef(NULL)
        BY ThreeNulls
      <3>2. FreeRefs(<<NULL, NULL, NULL>>) = << >>
        BY <3>1, FreeRefFacts
      <3>3. FreeAnnotations(NULL) = << >> /\ FreeParameterAnnotations(NULL) = << >>
        BY DEF FreeAnnotations, FreeParameterAnnotations, FreeArray
      <3> QED
        BY <3>2, <3>3 DEF FreeRawMethod, ZeroRawMethod
    <2>2. Pays(Failed(ZeroRawMethod), << >>, exact) /\ Failed(ZeroRawMethod).value = ZeroRawMethod
          /\ Failed(ZeroRawMethod).ok = FALSE
      BY FailedPays
    <2> QED
      BY <1>1, <1>4, <2>1, <2>2
  <1> QED
    BY <1>3, <1>4


(* An entry of zeros holds nothing.                                        *)
LEMMA RawFieldZero ==
  ASSUME NullApart
  PROVE  FreeRawField(ZeroRawField) = << >>
  <1>1. FreeRefs(<<NULL, NULL, NULL>>) = (FreeRef(NULL) \o FreeRef(NULL)) \o FreeRef(NULL)
    BY ThreeNulls
  <1>2. FreeRefs(<<NULL, NULL, NULL>>) = << >>
    BY <1>1, FreeRefFacts
  <1>3. FreeAnnotations(NULL) = << >> /\ FreeParameterAnnotations(NULL) = << >>
    BY DEF FreeAnnotations, FreeParameterAnnotations, FreeArray
  <1> QED
    BY <1>2, <1>3 DEF FreeRawField, ZeroRawField


(* The section of fields, as one read.                                     *)
RawFieldsRead(list) == ReadArray([i \in DOMAIN list |-> RawField(list[i])], ZeroRawField, "raw_fields")
(* The section of fields pays.                                             *)
LEMMA RawFieldsPay ==
  ASSUME NullApart, NEW exact, IsList(ctx.types), \A i \in 1..Len(ctx.types) : ctx.types[i] \in Strs,
         IsList(ctx.strs), \A i \in 1..Len(ctx.strs) : ctx.strs[i] \in Strs,
         NEW list, IsList(list)
  PROVE  LET r == RawFieldsRead(list)
         IN  /\ Pays(r, FreeWhole(r.value, FreeRawField, "raw_fields"), exact)
             /\ IsList(r.value) /\ Len(r.value) = Len(list)
             /\ r.ok => \A i \in 1..Len(list) : RawFieldGood(r.value[i])
  <1> DEFINE reads == [i \in DOMAIN list |-> RawField(list[i])]
             ra == ReadArray(reads, ZeroRawField, "raw_fields")
             v == ReadArray(reads, ZeroRawField, "raw_fields").value
             tt == [i \in DOMAIN v |-> FreeRawField(v[i])]
             ends == {i \in DOMAIN v : FALSE}
  <1>a1. IsList(list) /\ DOMAIN list = 1..Len(list) /\ Len(list) \in Nat
    BY ListFacts
  <1>a2. IsList(reads) /\ Len(reads) = Len(list)
    BY <1>a1, ListOf
  <1>a3. "raw_fields" \in Kinds
    BY DEF Kinds
  <1>a4. \A i \in 1..Len(reads) : reads[i] = RawField(list[i])
    BY <1>a1, <1>a2
  <1>a5. RawFieldsRead(list) = ra
    BY DEF RawFieldsRead
  <1> HIDE DEF reads
  <1>a6. IsList(v) /\ Len(v) = Len(reads) /\ DOMAIN v = 1..Len(reads) /\ v # NULL
    BY <1>a2, ReadArrayFacts, ListFacts, NotNull
  <1>a7. IsList(tt) /\ Len(tt) = Len(reads) /\ DOMAIN tt = 1..Len(reads)
    BY <1>a1, <1>a2, <1>a6, ListOf
  <1>a8. FreeRawField(ZeroRawField) = << >>
    BY RawFieldZero
  <1>a9. ASSUME NEW i \in 1..Len(reads), v[i] = reads[i].value
        PROVE  /\ Paid(reads[i].took, tt[i], exact)
               /\ exact /\ i \in ends => ~reads[i].ok /\ tt[i] = << >>
    <2> DEFINE f == list[i]
               re == RawField(f)
    <2>2. Pays(re, FreeRawField(re.value), exact)
      BY RawFieldPays
    <2>3. reads[i] = re /\ i \notin ends
      BY <1>a4
    <2> HIDE DEF re
    <2> QED
      BY <1>a6, <1>a9, <2>2, <2>3 DEF Pays
  <1>b1. ASSUME NEW i \in 1..Len(reads), v[i] = ZeroRawField PROVE tt[i] = << >>
    BY <1>a6, <1>a8, <1>b1
  <1>b2. FreeWhole(v, FreeRawField, "raw_fields") = FlattenSeq(UpTo(tt, ends)) \o <<Block("raw_fields")>>
    BY <1>a6 DEF FreeWhole, FreeArray
  <1>b3. ends \in SUBSET DOMAIN tt
    BY <1>a6, <1>a7
  <1>b4. exact => \A e \in ends : v[e] = reads[e].value => ~reads[e].ok /\ tt[e] = << >>
    BY <1>a6, <1>a9
  <1> HIDE DEF tt, ends
  <1> DEFINE z == v
  <1>b5. z = ReadArray(reads, ZeroRawField, "raw_fields").value
    OBVIOUS
  <1>b6. /\ \A i \in 1..Len(reads) : z[i] = reads[i].value => Paid(reads[i].took, tt[i], exact)
         /\ \A i \in 1..Len(reads) : z[i] = ZeroRawField => tt[i] = << >>
         /\ exact => \A e \in ends : z[e] = reads[e].value => ~reads[e].ok /\ tt[e] = << >>
    BY <1>a9, <1>b1, <1>b4
  <1> HIDE DEF z
  <1>b7. Pays(ra, FlattenSeq(UpTo(tt, ends)) \o <<Block("raw_fields")>>, exact)
    BY <1>a2, <1>a3, <1>a7, <1>b3, <1>b5, <1>b6, ArrayPays
  <1>b8. ra.ok <=> \A i \in 1..Len(reads) : reads[i].ok
    BY <1>a2, ReadArrayFacts
  <1>c1. ASSUME ra.ok, NEW i \in 1..Len(list) PROVE RawFieldGood(v[i])
    <2>1. v[i] = reads[i].value /\ reads[i].ok
      BY <1>a2, <1>b8, <1>c1, ReadArrayDone
    <2>2. reads[i] = RawField(list[i])
      BY <1>a2, <1>a4
    <2> DEFINE f == list[i]
    <2>3. RawField(f).ok => RawFieldGood(RawField(f).value)
      BY RawFieldPays
    <2> QED
      BY <2>1, <2>2, <2>3
  <1> QED
    BY <1>a2, <1>a5, <1>a6, <1>b2, <1>b7, <1>c1 DEF z


(* An entry of zeros holds nothing.                                        *)
LEMMA RawMethodZero ==
  ASSUME NullApart
  PROVE  FreeRawMethod(ZeroRawMethod) = << >>
  <1>1. FreeRefs(<<NULL, NULL, NULL>>) = (FreeRef(NULL) \o FreeRef(NULL)) \o FreeRef(NULL)
    BY ThreeNulls
  <1>2. FreeRefs(<<NULL, NULL, NULL>>) = << >>
    BY <1>1, FreeRefFacts
  <1>3. FreeAnnotations(NULL) = << >> /\ FreeParameterAnnotations(NULL) = << >>
    BY DEF FreeAnnotations, FreeParameterAnnotations, FreeArray
  <1> QED
    BY <1>2, <1>3 DEF FreeRawMethod, ZeroRawMethod


(* The section of methods, as one read.                                    *)
RawMethodsRead(list) == ReadArray([i \in DOMAIN list |-> RawMethod(list[i])], ZeroRawMethod, "raw_methods")
(* The section of methods pays.                                            *)
LEMMA RawMethodsPay ==
  ASSUME NullApart, NEW exact, IsList(ctx.types), \A i \in 1..Len(ctx.types) : ctx.types[i] \in Strs,
         IsList(ctx.strs), \A i \in 1..Len(ctx.strs) : ctx.strs[i] \in Strs,
         IsList(ctx.protos), \A i \in 1..Len(ctx.protos) : ctx.protos[i] \in Protos,
         NEW list, IsList(list)
  PROVE  LET r == RawMethodsRead(list)
         IN  /\ Pays(r, FreeWhole(r.value, FreeRawMethod, "raw_methods"), exact)
             /\ IsList(r.value) /\ Len(r.value) = Len(list)
             /\ r.ok => \A i \in 1..Len(list) : RawMethodGood(r.value[i])
  <1> DEFINE reads == [i \in DOMAIN list |-> RawMethod(list[i])]
             ra == ReadArray(reads, ZeroRawMethod, "raw_methods")
             v == ReadArray(reads, ZeroRawMethod, "raw_methods").value
             tt == [i \in DOMAIN v |-> FreeRawMethod(v[i])]
             ends == {i \in DOMAIN v : FALSE}
  <1>a1. IsList(list) /\ DOMAIN list = 1..Len(list) /\ Len(list) \in Nat
    BY ListFacts
  <1>a2. IsList(reads) /\ Len(reads) = Len(list)
    BY <1>a1, ListOf
  <1>a3. "raw_methods" \in Kinds
    BY DEF Kinds
  <1>a4. \A i \in 1..Len(reads) : reads[i] = RawMethod(list[i])
    BY <1>a1, <1>a2
  <1>a5. RawMethodsRead(list) = ra
    BY DEF RawMethodsRead
  <1> HIDE DEF reads
  <1>a6. IsList(v) /\ Len(v) = Len(reads) /\ DOMAIN v = 1..Len(reads) /\ v # NULL
    BY <1>a2, ReadArrayFacts, ListFacts, NotNull
  <1>a7. IsList(tt) /\ Len(tt) = Len(reads) /\ DOMAIN tt = 1..Len(reads)
    BY <1>a1, <1>a2, <1>a6, ListOf
  <1>a8. FreeRawMethod(ZeroRawMethod) = << >>
    BY RawMethodZero
  <1>a9. ASSUME NEW i \in 1..Len(reads), v[i] = reads[i].value
        PROVE  /\ Paid(reads[i].took, tt[i], exact)
               /\ exact /\ i \in ends => ~reads[i].ok /\ tt[i] = << >>
    <2> DEFINE f == list[i]
               re == RawMethod(f)
    <2>2. Pays(re, FreeRawMethod(re.value), exact)
      BY RawMethodPays
    <2>3. reads[i] = re /\ i \notin ends
      BY <1>a4
    <2> HIDE DEF re
    <2> QED
      BY <1>a6, <1>a9, <2>2, <2>3 DEF Pays
  <1>b1. ASSUME NEW i \in 1..Len(reads), v[i] = ZeroRawMethod PROVE tt[i] = << >>
    BY <1>a6, <1>a8, <1>b1
  <1>b2. FreeWhole(v, FreeRawMethod, "raw_methods") = FlattenSeq(UpTo(tt, ends)) \o <<Block("raw_methods")>>
    BY <1>a6 DEF FreeWhole, FreeArray
  <1>b3. ends \in SUBSET DOMAIN tt
    BY <1>a6, <1>a7
  <1>b4. exact => \A e \in ends : v[e] = reads[e].value => ~reads[e].ok /\ tt[e] = << >>
    BY <1>a6, <1>a9
  <1> HIDE DEF tt, ends
  <1> DEFINE z == v
  <1>b5. z = ReadArray(reads, ZeroRawMethod, "raw_methods").value
    OBVIOUS
  <1>b6. /\ \A i \in 1..Len(reads) : z[i] = reads[i].value => Paid(reads[i].took, tt[i], exact)
         /\ \A i \in 1..Len(reads) : z[i] = ZeroRawMethod => tt[i] = << >>
         /\ exact => \A e \in ends : z[e] = reads[e].value => ~reads[e].ok /\ tt[e] = << >>
    BY <1>a9, <1>b1, <1>b4
  <1> HIDE DEF z
  <1>b7. Pays(ra, FlattenSeq(UpTo(tt, ends)) \o <<Block("raw_methods")>>, exact)
    BY <1>a2, <1>a3, <1>a7, <1>b3, <1>b5, <1>b6, ArrayPays
  <1>b8. ra.ok <=> \A i \in 1..Len(reads) : reads[i].ok
    BY <1>a2, ReadArrayFacts
  <1>c1. ASSUME ra.ok, NEW i \in 1..Len(list) PROVE RawMethodGood(v[i])
    <2>1. v[i] = reads[i].value /\ reads[i].ok
      BY <1>a2, <1>b8, <1>c1, ReadArrayDone
    <2>2. reads[i] = RawMethod(list[i])
      BY <1>a2, <1>a4
    <2> DEFINE f == list[i]
    <2>3. RawMethod(f).ok => RawMethodGood(RawMethod(f).value)
      BY RawMethodPays
    <2> QED
      BY <2>1, <2>2, <2>3
  <1> QED
    BY <1>a2, <1>a5, <1>a6, <1>b2, <1>b7, <1>c1 DEF z

(* The references of a list up to the first that is missing.               *)
LEMMA UpToSingles ==
  ASSUME NullApart, NEW v, IsList(v), \A i \in 1..Len(v) : v[i] \in Tokens \cup {NULL},
         NEW ends, ends = {i \in DOMAIN v : v[i] = NULL},
         NEW tt, IsList(tt), Len(tt) = Len(v), \A i \in 1..Len(v) : tt[i] = FreeRef(v[i])
  PROVE  UpTo(v, ends) \in Seq(Tokens) /\ FlattenSeq(UpTo(tt, ends)) = UpTo(v, ends)
  <1>0. DOMAIN v = 1..Len(v) /\ Len(v) \in Nat /\ ends \subseteq Nat /\ DOMAIN tt = 1..Len(v)
    BY ListFacts
  <1>1. v \in Seq(Tokens \cup {NULL}) /\ tt \in Seq(Seq(Tokens))
    <2>1. \A i \in 1..Len(tt) : tt[i] \in Seq(Tokens)
      BY FreeRefFacts, NoTokens
    <2> QED
      BY <2>1, ListIn
  <1>2. CASE ends = {}
    <2>1. \A i \in 1..Len(v) : v[i] \in Tokens
      BY <1>0, <1>2
    <2>2. v \in Seq(Tokens)
      BY <2>1, ListIn
    <2>3. \A i \in 1..Len(v) : tt[i] = <<v[i]>>
      BY <2>1, FreeRefFacts
    <2>4. FlattenSeq(tt) = v
      BY <1>1, <2>2, <2>3, FlattenSingles
    <2>5. UpTo(v, ends) = v /\ UpTo(tt, ends) = tt
      BY <1>2 DEF UpTo
    <2> QED
      BY <2>2, <2>4, <2>5
  <1>3. CASE ends # {}
    <2>2. \E e \in ends : \A k \in ends : e <= k
      BY <1>0, <1>3, LeastElement
    <2>3. PICK e : e = CHOOSE i \in ends : \A k \in ends : i <= k
      OBVIOUS
    <2>4. e \in ends /\ \A k \in ends : e <= k
      BY <2>2, <2>3
    <2>5. UpTo(tt, ends) = SubSeq(tt, 1, e - 1) /\ UpTo(v, ends) = SubSeq(v, 1, e - 1)
      BY <1>3, <2>3 DEF UpTo
    <2>6. e \in 1..Len(v) /\ e - 1 \in Nat /\ e - 1 < Len(v)
      BY <1>0, <2>4
    <2> DEFINE a == SubSeq(v, 1, e - 1)
               b == SubSeq(tt, 1, e - 1)
    <2>7. Len(a) = e - 1 /\ \A k \in 1..e - 1 : a[k] = v[k]
      BY <1>1, <2>6
    <2>8. b \in Seq(Seq(Tokens)) /\ Len(b) = e - 1 /\ \A k \in 1..e - 1 : b[k] = tt[k]
      BY <1>1, <2>6
    <2>9. a \in Seq(Tokens \cup {NULL})
      BY <1>1, <2>6
    <2> HIDE DEF a, b
    <2>10. \A k \in 1..e - 1 : v[k] \in Tokens
      BY <1>0, <2>4, <2>6
    <2>11. a \in Seq(Tokens)
      <3>1. IsList(a)
        BY <2>9, SeqList
      <3>2. \A k \in 1..Len(a) : a[k] \in Tokens
        BY <2>7, <2>10
      <3> QED
        BY <3>1, <3>2, ListIn
    <2>12. \A k \in 1..Len(a) : b[k] = <<a[k]>>
      <3>1. \A k \in 1..e - 1 : k \in 1..Len(v)
        BY <1>0, <2>6
      <3> QED
        BY <2>7, <2>8, <2>10, <3>1, FreeRefFacts
    <2>13. FlattenSeq(b) = a
      BY <2>7, <2>8, <2>11, <2>12, FlattenSingles
    <2> QED
      BY <2>5, <2>11, <2>13 DEF a, b
  <1> QED
    BY <1>2, <1>3

(* The section of prototypes, as one read of entries: a reference with its *)
(* list of parameters.                                                     *)
ParameterRead(types, k) ==
  IF k = NULL THEN Failed(NULL) ELSE [ReadRef(types, k) EXCEPT !.ok = TRUE]
ProtoList(types, p) ==
  InOrder(<<ReadRef(types, p.return_type)>>
            \o [k \in DOMAIN p.parameters |-> ParameterRead(types, p.parameters[k])], NULL)
ProtoRead(types, p, i) ==
  LET r == ProtoList(types, p)
  IN  IF p.parameters = NULL \/ p.return_type \notin DOMAIN types
      THEN Failed([ref |-> NULL, list |-> << >>])
      ELSE Result([ref |-> Proto(i), list |-> r.value], r.ok, <<Proto(i)>> \o r.took)
ProtosRead(types, list) ==
  ReadArray([i \in DOMAIN list |-> ProtoRead(types, list[i], i)], [ref |-> NULL, list |-> << >>],
            "protos")

(* The list of parameters of a prototype.                                  *)
ContentList(list) == IsList(list) /\ \A i \in 1..Len(list) : list[i] \in Strs \cup {NULL}

(* A parameter of a prototype pays.                                        *)
LEMMA ParameterReadPays ==
  ASSUME NullApart, NEW exact, NEW types, RefList(types), \A i \in 1..Len(types) : types[i] \in Strs,
         NEW k
  PROVE  LET r == ParameterRead(types, k)
         IN  /\ Pays(r, FreeRef(r.value), exact)
             /\ r.value \in Strs \cup {NULL}
             /\ Index(Len(types), k) /\ r.value = NULL => ~r.ok
  <1> DEFINE r == ParameterRead(types, k)
  <1>1. CASE k = NULL
    <2>1. r = Failed(NULL)
      BY <1>1 DEF ParameterRead
    <2>2. Pays(Failed(NULL), << >>, exact) /\ Failed(NULL).value = NULL /\ Failed(NULL).ok = FALSE
      BY FailedPays
    <2> QED
      BY <2>1, <2>2, FreeRefFacts
  <1>2. CASE k # NULL
    <2> DEFINE q == ReadRef(types, k)
    <2>1. /\ IsResult(q) /\ Paid(q.took, FreeRef(q.value), exact)
          /\ q.ok <=> k \in 1..Len(types)
          /\ q.ok => q.value = types[k]
          /\ ~q.ok => q = Failed(NULL)
      BY ReadRefPaid DEF RefList
    <2>2. r = [q EXCEPT !.ok = TRUE]
      BY <1>2 DEF ParameterRead
    <2>3. q = Result(q.value, q.ok, q.took) /\ q.took \in Seq(Tokens)
      BY <2>1 DEF IsResult
    <2>4. Failed(NULL).value = NULL
      BY FailedPays
    <2> HIDE DEF q
    <2>5. r = Result(q.value, TRUE, q.took)
      BY <2>2, <2>3 DEF Result
    <2> HIDE DEF r
    <2>6. r.value = q.value /\ r.ok = TRUE /\ r.took = q.took
      BY <2>5 DEF Result
    <2>7. IsResult(r)
      BY <2>3, <2>5, <2>6 DEF IsResult
    <2>8. q.value \in Strs \cup {NULL}
      BY <2>1, <2>4
    <2>9. ASSUME Index(Len(types), k), r.value = NULL PROVE FALSE
      <3>1. k \in 1..Len(types)
        BY <1>2, <2>9 DEF Index
      <3>2. types[k] = NULL
        BY <2>1, <2>6, <2>9, <3>1
      <3> QED
        BY <3>1, <3>2, NotNull DEF RefList
    <2> QED
      BY <2>1, <2>6, <2>7, <2>8, <2>9 DEF Pays, r
  <1> QED
    BY <1>1, <1>2

(* The list of a prototype pays; exactly when no parameter is a hole.      *)
LEMMA ProtoListPays ==
  ASSUME NullApart, NEW exact, NEW types, RefList(types), \A i \in 1..Len(types) : types[i] \in Strs,
         NEW p, IsList(p.parameters), p.return_type \in 1..Len(types),
         exact => ParametersClean(Len(types), p.parameters)
  PROVE  LET r == ProtoList(types, p)
         IN  /\ IsResult(r) /\ Paid(r.took, FreeList(r.value), exact)
             /\ ContentList(r.value)
  <1> DEFINE ps == p.parameters
             q == ReadRef(types, p.return_type)
             rs == [k \in DOMAIN ps |-> ParameterRead(types, ps[k])]
             reads == <<q>> \o rs
             r == InOrder(reads, NULL)
             v == r.value
             ends == {i \in DOMAIN v : v[i] = NULL}
             tt == [i \in DOMAIN v |-> FreeRef(v[i])]
  <1>0. DOMAIN ps = 1..Len(ps) /\ Len(ps) \in Nat
    BY ListFacts
  <1>1. /\ Pays(q, FreeRef(q.value), exact)
        /\ q.value \in Strs /\ q.value # NULL
    <2>1. /\ IsResult(q) /\ Paid(q.took, FreeRef(q.value), exact)
          /\ q.ok <=> p.return_type \in 1..Len(types)
          /\ q.ok => q.value = types[p.return_type]
      BY ReadRefPaid DEF RefList
    <2> HIDE DEF q
    <2>2. q.value = types[p.return_type] /\ q.value \in Tokens
      BY <2>1 DEF RefList
    <2> QED
      BY <2>1, <2>2, NotNull DEF Pays
  <1>2. IsList(rs) /\ Len(rs) = Len(ps)
    BY <1>0, ListOf
  <1>3. ASSUME NEW k \in 1..Len(ps)
        PROVE  /\ Pays(rs[k], FreeRef(rs[k].value), exact)
               /\ rs[k].value \in Strs \cup {NULL}
               /\ exact /\ rs[k].value = NULL => ~rs[k].ok
    <2> DEFINE m == ps[k]
               z == ParameterRead(types, m)
    <2>1. /\ Pays(z, FreeRef(z.value), exact) /\ z.value \in Strs \cup {NULL}
          /\ Index(Len(types), m) /\ z.value = NULL => ~z.ok
      BY ParameterReadPays
    <2>2. rs[k] = z
      BY <1>0
    <2>3. exact => Index(Len(types), m)
      <3>1. ps # NULL
        BY NotNull
      <3> QED
        BY <3>1 DEF ParametersClean
    <2> HIDE DEF z, rs, m
    <2> QED
      BY <2>1, <2>2, <2>3
  <1> HIDE DEF q, rs
  <1>4. IsList(reads) /\ Len(reads) = Len(ps) + 1 /\ reads[1] = q
        /\ \A k \in 1..Len(ps) : reads[k + 1] = rs[k]
    <2>1. rs \in Seq({rs[k] : k \in 1..Len(ps)})
      BY <1>2, ListFacts
    <2> DEFINE S == {q} \cup {rs[k] : k \in 1..Len(ps)}
    <2>2. rs \in Seq(S) /\ <<q>> \in Seq(S)
      BY <2>1
    <2> HIDE DEF S
    <2>3. reads \in Seq(S) /\ Len(reads) = 1 + Len(rs)
      BY <2>2
    <2>4. IsList(reads)
      BY <2>3, SeqList
    <2>5. reads[1] = q /\ \A k \in 1..Len(rs) : reads[k + 1] = rs[k]
      BY <2>2
    <2> QED
      BY <1>0, <1>2, <2>3, <2>4, <2>5
  <1>5. \A i \in 1..Len(reads) : i = 1 \/ (\E k \in 1..Len(ps) : i = k + 1)
    <2>1. ASSUME NEW i \in 1..Len(ps) + 1, i # 1 PROVE i - 1 \in 1..Len(ps) /\ i = (i - 1) + 1
      BY <1>0, <2>1
    <2> QED
      BY <1>4, <2>1
  <1>6. ASSUME NEW i \in 1..Len(reads)
        PROVE  /\ Pays(reads[i], FreeRef(reads[i].value), exact)
               /\ reads[i].value \in Strs \cup {NULL}
               /\ exact /\ reads[i].value = NULL => ~reads[i].ok
    <2> HIDE DEF reads
    <2>1. CASE i = 1
      BY <1>1, <1>4, <2>1
    <2>2. CASE \E k \in 1..Len(ps) : i = k + 1
      <3>1. PICK k \in 1..Len(ps) : i = k + 1
        BY <2>2
      <3>2. reads[i] = rs[k]
        BY <1>4, <3>1
      <3> QED
        BY <1>3, <3>2
    <2> QED
      BY <1>5, <2>1, <2>2
  <1> HIDE DEF reads
  <1>7. /\ IsList(v) /\ Len(v) = Len(reads)
        /\ \A i \in 1..Len(reads) : i <= LastRead(reads) => v[i] = reads[i].value
        /\ \A i \in 1..Len(reads) : ~(i <= LastRead(reads)) => v[i] = NULL
        /\ r = Result(v, r.ok, r.took) /\ r.ok \in BOOLEAN
    BY <1>4, InOrderFacts
  <1>8. DOMAIN v = 1..Len(reads)
    BY <1>7, ListFacts
  <1>9. IsList(tt) /\ Len(tt) = Len(reads) /\ DOMAIN tt = 1..Len(reads)
        /\ \A i \in 1..Len(reads) : tt[i] = FreeRef(v[i])
    BY <1>7, <1>8, ListOf, ListFacts
  <1>10. ends \in SUBSET DOMAIN tt
    BY <1>8, <1>9
  <1>11. \A e \in ends : e \in 1..Len(reads) /\ v[e] = NULL
    BY <1>8
  <1>12. ends = {i \in DOMAIN v : v[i] = NULL}
    OBVIOUS
  <1>13. v = InOrder(reads, NULL).value /\ r = InOrder(reads, NULL)
    OBVIOUS
  <1> HIDE DEF tt, ends, v, r
  <1>14. ASSUME NEW i \in 1..Len(reads), i <= LastRead(reads) PROVE Paid(reads[i].took, tt[i], exact)
    BY <1>6, <1>7, <1>9, <1>14 DEF Pays
  <1>15. ASSUME NEW i \in 1..Len(reads), ~(i <= LastRead(reads)) PROVE tt[i] = << >>
    BY <1>7, <1>9, <1>15, FreeRefFacts
  <1>16. ASSUME exact, NEW e \in ends, e <= LastRead(reads) PROVE ~reads[e].ok /\ tt[e] = << >>
    BY <1>6, <1>7, <1>9, <1>11, <1>16, FreeRefFacts
  <1>17. Paid(r.took, FlattenSeq(UpTo(tt, ends)), exact)
    BY <1>4, <1>9, <1>10, <1>13, <1>14, <1>15, <1>16, InOrderPaid
  <1>18. \A i \in 1..Len(v) : v[i] \in Strs \cup {NULL}
    BY <1>6, <1>7
  <1>19. FlattenSeq(UpTo(tt, ends)) = UpTo(v, ends)
    <2>1. \A i \in 1..Len(v) : v[i] \in Tokens \cup {NULL}
      BY <1>18, RefTokens
    <2>2. \A i \in 1..Len(v) : tt[i] = FreeRef(v[i])
      BY <1>7, <1>9
    <2> QED
      BY <1>7, <1>9, <1>12, <2>1, <2>2, UpToSingles
  <1>20. FreeList(v) = UpTo(v, ends)
    BY <1>12 DEF FreeList, Before
  <1>21. Paid(r.took, FreeList(v), exact) /\ IsResult(r) /\ ContentList(v)
    <2>1. Paid(r.took, FreeList(v), exact)
      BY <1>17, <1>19, <1>20
    <2>2. IsResult(r)
      BY <1>7, <2>1, ResultFields DEF IsResult, Paid
    <2> QED
      BY <1>7, <1>18, <2>1, <2>2 DEF ContentList
  <1>22. ProtoList(types, p) = r /\ r.value = v
    BY DEF ProtoList, r, reads, q, rs, v
  <1> QED
    BY <1>21, <1>22

(* An entry of the section of prototypes, freed.                           *)
FreeProtoEntry(e) == FreeRef(e.ref) \o FreeList(e.list)
NoProto == [ref |-> NULL, list |-> << >>]
ProtoNamed(e, i) == e.ref = Proto(i) \/ (e.ref = NULL /\ e.list = << >>)

(* The list of a prototype that was not read.                              *)
LEMMA EmptyList == FreeList(<< >>) = << >> /\ IsList(<< >>) /\ Len(<< >>) = 0
  <1>1. {i \in DOMAIN << >> : << >>[i] = NULL} = {}
    OBVIOUS
  <1>2. << >> = [i \in 1..0 |-> << >>[i]]
    OBVIOUS
  <1>3. 0 \in Nat
    OBVIOUS
  <1> QED
    BY <1>1, <1>2, <1>3, ListOf DEF FreeList, Before, UpTo

(* A prototype that was not read holds nothing.                            *)
LEMMA NoProtoFree ==
  ASSUME NullApart
  PROVE  FreeProtoEntry(NoProto) = << >>
  <1>1. NoProto.ref = NULL /\ NoProto.list = << >>
    BY DEF NoProto
  <1>2. FreeProtoEntry(NoProto) = << >> \o << >>
    BY <1>1, EmptyList, FreeRefFacts DEF FreeProtoEntry
  <1> QED
    BY <1>2

(* A prototype pays with its list.                                         *)
LEMMA ProtoPays ==
  ASSUME NullApart, NEW exact, NEW types, RefList(types), \A i \in 1..Len(types) : types[i] \in Strs,
         NEW p, p.parameters # NULL => IsList(p.parameters), NEW i \in Nat,
         exact => ParametersClean(Len(types), p.parameters)
  PROVE  LET r == ProtoRead(types, p, i)
         IN  /\ Pays(r, FreeProtoEntry(r.value), exact)
             /\ ContentList(r.value.list)
             /\ ProtoNamed(r.value, i)
             /\ r.ok => r.value.ref = Proto(i)
  <1>1. CASE p.parameters = NULL \/ p.return_type \notin DOMAIN types
    <2>1. ProtoRead(types, p, i) = Failed(NoProto)
      BY <1>1 DEF ProtoRead, NoProto
    <2>2. Pays(Failed(NoProto), << >>, exact) /\ Failed(NoProto).value = NoProto
          /\ Failed(NoProto).ok = FALSE
      BY FailedPays
    <2>3. NoProto.ref = NULL /\ NoProto.list = << >>
      BY DEF NoProto
    <2>4. ContentList(<< >>)
      BY EmptyList DEF ContentList
    <2> QED
      BY <2>1, <2>2, <2>3, <2>4, NoProtoFree DEF ProtoNamed
  <1>2. CASE ~(p.parameters = NULL \/ p.return_type \notin DOMAIN types)
    <2> DEFINE io == ProtoList(types, p)
               e == [ref |-> Proto(i), list |-> io.value]
               t == Proto(i)
    <2>1. IsList(p.parameters) /\ p.return_type \in 1..Len(types)
      <3>1. DOMAIN types = 1..Len(types)
        BY ListFacts DEF RefList
      <3> QED
        BY <1>2, <3>1
    <2>2. IsResult(io) /\ Paid(io.took, FreeList(io.value), exact) /\ ContentList(io.value)
      BY <2>1, ProtoListPays
    <2>3. ProtoRead(types, p, i) = Result(e, io.ok, <<t>> \o io.took)
      BY <1>2 DEF ProtoRead
    <2>4. t \in Tokens /\ <<t>> \in Seq(Tokens)
      BY RefTokens DEF Protos
    <2> HIDE DEF io, t
    <2>5. FreeRef(t) = <<t>>
      BY <2>4, FreeRefFacts
    <2>6. e.ref = t /\ e.list = io.value
      BY DEF t
    <2> HIDE DEF e
    <2>7. FreeProtoEntry(e) = <<t>> \o FreeList(io.value)
      BY <2>5, <2>6 DEF FreeProtoEntry
    <2>8. Paid(<<t>> \o io.took, <<t>> \o FreeList(io.value), exact)
      BY <2>2, <2>4, PaidSame, PaidCat
    <2>9. Pays(Result(e, io.ok, <<t>> \o io.took), FreeProtoEntry(e), exact)
      BY <2>2, <2>7, <2>8, ResultPays DEF IsResult
    <2>10. Result(e, io.ok, <<t>> \o io.took).value = e
      BY ResultFields
    <2>11. e.ref = Proto(i)
      BY <2>6 DEF t
    <2> QED
      BY <2>2, <2>3, <2>6, <2>9, <2>10, <2>11 DEF ProtoNamed
  <1> QED
    BY <1>1, <1>2

(* The table of references and the lists of parameters of such entries.    *)
RefsOf(v) == [i \in DOMAIN v |-> v[i].ref]
ListsOf(v) == [i \in DOMAIN v |-> v[i].list]
FreeEntries(v) == FreeWhole(v, FreeProtoEntry, "protos")

(* The section of prototypes pays.                                         *)
LEMMA ProtoEntriesPay ==
  ASSUME NullApart, NEW exact, NEW types, RefList(types), \A i \in 1..Len(types) : types[i] \in Strs,
         NEW list, IsList(list),
         \A i \in 1..Len(list) : list[i].parameters # NULL => IsList(list[i].parameters),
         exact => \A i \in 1..Len(list) : ParametersClean(Len(types), list[i].parameters)
  PROVE  LET r == ProtosRead(types, list)
         IN  /\ Pays(r, FreeEntries(r.value), exact)
             /\ IsList(r.value) /\ Len(r.value) = Len(list)
             /\ \A i \in 1..Len(list) : ContentList(r.value[i].list) /\ ProtoNamed(r.value[i], i)
             /\ r.ok => \A i \in 1..Len(list) : r.value[i].ref = Proto(i)
  <1> DEFINE reads == [i \in DOMAIN list |-> ProtoRead(types, list[i], i)]
             ra == ReadArray(reads, NoProto, "protos")
             v == ReadArray(reads, NoProto, "protos").value
             tt == [i \in DOMAIN v |-> FreeProtoEntry(v[i])]
             ends == {i \in DOMAIN v : FALSE}
  <1>a1. IsList(list) /\ DOMAIN list = 1..Len(list) /\ Len(list) \in Nat
    BY ListFacts
  <1>a2. IsList(reads) /\ Len(reads) = Len(list)
    BY <1>a1, ListOf
  <1>a3. "protos" \in Kinds
    BY DEF Kinds
  <1>a4. \A i \in 1..Len(reads) : reads[i] = ProtoRead(types, list[i], i)
    BY <1>a1, <1>a2
  <1>a5. ProtosRead(types, list) = ra
    BY DEF ProtosRead, NoProto
  <1> HIDE DEF reads
  <1>a6. IsList(v) /\ Len(v) = Len(reads) /\ DOMAIN v = 1..Len(reads) /\ v # NULL
    BY <1>a2, ReadArrayFacts, ListFacts, NotNull
  <1>a7. IsList(tt) /\ Len(tt) = Len(reads) /\ DOMAIN tt = 1..Len(reads)
    BY <1>a1, <1>a2, <1>a6, ListOf
  <1>a8. FreeProtoEntry(NoProto) = << >>
    BY NoProtoFree
  <1>a9. ASSUME NEW i \in 1..Len(reads), v[i] = reads[i].value
        PROVE  /\ Paid(reads[i].took, tt[i], exact)
               /\ exact /\ i \in ends => ~reads[i].ok /\ tt[i] = << >>
    <2> DEFINE f == list[i]
               re == ProtoRead(types, f, i)
    <2>1. /\ f.parameters # NULL => IsList(f.parameters)
          /\ exact => ParametersClean(Len(types), f.parameters)
          /\ i \in Nat
      BY <1>a1, <1>a2
    <2>2. Pays(re, FreeProtoEntry(re.value), exact)
      <3> HIDE DEF f
      <3> QED
        BY <2>1, ProtoPays
    <2>3. reads[i] = re /\ i \notin ends
      BY <1>a4
    <2> HIDE DEF re
    <2> QED
      BY <1>a6, <1>a9, <2>2, <2>3 DEF Pays
  <1>b1. ASSUME NEW i \in 1..Len(reads), v[i] = NoProto PROVE tt[i] = << >>
    BY <1>a6, <1>a8, <1>b1
  <1>b2. FreeEntries(v) = FlattenSeq(UpTo(tt, ends)) \o <<Block("protos")>>
    BY <1>a6 DEF FreeEntries, FreeWhole, FreeArray
  <1>b3. ends \in SUBSET DOMAIN tt
    BY <1>a6, <1>a7
  <1>b4. exact => \A e \in ends : v[e] = reads[e].value => ~reads[e].ok /\ tt[e] = << >>
    BY <1>a6, <1>a9
  <1> HIDE DEF tt, ends
  <1> DEFINE z == v
  <1>b5. z = ReadArray(reads, NoProto, "protos").value
    OBVIOUS
  <1>b6. /\ \A i \in 1..Len(reads) : z[i] = reads[i].value => Paid(reads[i].took, tt[i], exact)
         /\ \A i \in 1..Len(reads) : z[i] = NoProto => tt[i] = << >>
         /\ exact => \A e \in ends : z[e] = reads[e].value => ~reads[e].ok /\ tt[e] = << >>
    BY <1>a9, <1>b1, <1>b4
  <1> HIDE DEF z
  <1>b7. Pays(ra, FlattenSeq(UpTo(tt, ends)) \o <<Block("protos")>>, exact)
    BY <1>a2, <1>a3, <1>a7, <1>b3, <1>b5, <1>b6, ArrayPays
  <1>b8. ra.ok <=> \A i \in 1..Len(reads) : reads[i].ok
    BY <1>a2, ReadArrayFacts
  <1>c0. ASSUME NEW i \in 1..Len(list)
         PROVE  /\ reads[i].ok => reads[i].value.ref = Proto(i)
                /\ ContentList(reads[i].value.list) /\ ProtoNamed(reads[i].value, i)
    <2> DEFINE f == list[i]
               re == ProtoRead(types, f, i)
    <2>1. /\ f.parameters # NULL => IsList(f.parameters)
          /\ exact => ParametersClean(Len(types), f.parameters)
          /\ i \in Nat
      BY <1>a1
    <2>2. /\ ContentList(re.value.list) /\ ProtoNamed(re.value, i)
          /\ re.ok => re.value.ref = Proto(i)
      <3> HIDE DEF f
      <3> QED
        BY <2>1, ProtoPays
    <2>3. reads[i] = re
      BY <1>a2, <1>a4
    <2> HIDE DEF re
    <2> QED
      BY <2>2, <2>3
  <1>c1. ASSUME ra.ok, NEW i \in 1..Len(list) PROVE v[i].ref = Proto(i)
    <2>1. v[i] = reads[i].value /\ reads[i].ok
      BY <1>a2, <1>b8, <1>c1, ReadArrayDone
    <2> QED
      BY <1>c0, <2>1
  <1>c2. ASSUME NEW i \in 1..Len(list)
         PROVE  ContentList(v[i].list) /\ ProtoNamed(v[i], i)
    <2>1. v[i] = reads[i].value \/ v[i] = NoProto
      BY <1>a2, ReadArrayFacts
    <2>2. NoProto.ref = NULL /\ NoProto.list = << >> /\ ContentList(<< >>)
      BY EmptyList DEF NoProto, ContentList
    <2> QED
      BY <1>c0, <2>1, <2>2 DEF ProtoNamed
  <1>c3. Pays(ra, FreeEntries(z), exact)
    BY <1>b2, <1>b7 DEF z
  <1>c4. IsList(z) /\ Len(z) = Len(list) /\ ra.value = z
    BY <1>a2, <1>a6 DEF z
  <1>c5. \A i \in 1..Len(list) : ContentList(z[i].list) /\ ProtoNamed(z[i], i)
    BY <1>c2 DEF z
  <1>c6. ra.ok => \A i \in 1..Len(list) : z[i].ref = Proto(i)
    BY <1>c1 DEF z
  <1> HIDE DEF ra
  <1> QED
    BY <1>a5, <1>c3, <1>c4, <1>c5, <1>c6

(* What is freed of the entries is freed of the context and of the lists.  *)
LEMMA EntriesSplit ==
  ASSUME NullApart, NEW v, IsList(v), FreeEntries(v) \in Seq(Tokens),
         \A i \in 1..Len(v) : ContentList(v[i].list) /\ ProtoNamed(v[i], i)
  PROVE  /\ FreeWhole(RefsOf(v), FreeRef, "protos") \in Seq(Tokens)
         /\ ContentsOf(ListsOf(v), DOMAIN ListsOf(v)) \in Seq(Tokens)
         /\ \A x : Occurrences(FreeEntries(v), x)
                     = Occurrences(FreeWhole(RefsOf(v), FreeRef, "protos"), x)
                         + Occurrences(ContentsOf(ListsOf(v), DOMAIN ListsOf(v)), x)
  <1> DEFINE rs == RefsOf(v)
             ls == ListsOf(v)
             ss == [i \in DOMAIN v |-> FreeProtoEntry(v[i])]
             aa == [i \in DOMAIN rs |-> FreeRef(rs[i])]
             bb == [i \in DOMAIN ls |-> FreeList(ls[i])]
             b == <<Block("protos")>>
  <1>1. DOMAIN v = 1..Len(v) /\ Len(v) \in Nat
    BY ListFacts
  <1>2. IsList(rs) /\ Len(rs) = Len(v) /\ DOMAIN rs = 1..Len(v) /\ \A i \in 1..Len(v) : rs[i] = v[i].ref
    BY <1>1, ListOf DEF RefsOf
  <1>3. IsList(ls) /\ Len(ls) = Len(v) /\ DOMAIN ls = 1..Len(v) /\ \A i \in 1..Len(v) : ls[i] = v[i].list
    BY <1>1, ListOf DEF ListsOf
  <1>4. v # NULL /\ rs # NULL
    BY <1>2, NotNull
  <1> HIDE DEF rs, ls
  <1>5. FreeEntries(v) = FlattenSeq(ss) \o b
    <2>1. {i \in DOMAIN v : FALSE} = {}
      OBVIOUS
    <2> QED
      BY <1>4, <2>1 DEF FreeEntries, FreeWhole, FreeArray, UpTo
  <1>6. FreeWhole(rs, FreeRef, "protos") = FlattenSeq(aa) \o b
    <2>1. {i \in DOMAIN rs : FALSE} = {}
      OBVIOUS
    <2> QED
      BY <1>4, <2>1 DEF FreeWhole, FreeArray, UpTo
  <1>7. ContentsOf(ls, DOMAIN ls) = FlattenSeq(bb)
    <2>1. bb = [i \in DOMAIN ls |-> IF i \in DOMAIN ls THEN FreeList(ls[i]) ELSE << >>]
      OBVIOUS
    <2> QED
      BY <2>1 DEF ContentsOf
  <1>8. IsList(ss) /\ Len(ss) = Len(v) /\ \A i \in 1..Len(v) : ss[i] = FreeProtoEntry(v[i])
    BY <1>1, ListOf
  <1>9. IsList(aa) /\ Len(aa) = Len(v) /\ \A i \in 1..Len(v) : aa[i] = FreeRef(v[i].ref)
    BY <1>1, <1>2, ListOf
  <1>10. IsList(bb) /\ Len(bb) = Len(v) /\ \A i \in 1..Len(v) : bb[i] = FreeList(v[i].list)
    BY <1>1, <1>3, ListOf
  <1> HIDE DEF ss, aa, bb, b
  <1>11. ASSUME NEW i \in 1..Len(v) PROVE aa[i] \in Seq(Tokens) /\ bb[i] \in Seq(Tokens) /\ ss[i] = aa[i] \o bb[i]
    <2>1. v[i].ref = NULL \/ v[i].ref \in Tokens
      BY <1>1, RefTokens DEF ProtoNamed, Protos
    <2>2. FreeRef(v[i].ref) \in Seq(Tokens)
      BY <2>1, FreeRefFacts, NoTokens
    <2> DEFINE l == v[i].list
               ends == {k \in DOMAIN l : l[k] = NULL}
               tt == [k \in DOMAIN l |-> FreeRef(l[k])]
    <2>3. IsList(l) /\ \A k \in 1..Len(l) : l[k] \in Tokens \cup {NULL}
      BY RefTokens DEF ContentList
    <2>4. DOMAIN l = 1..Len(l) /\ Len(l) \in Nat
      BY <2>3, ListFacts
    <2>5. IsList(tt) /\ Len(tt) = Len(l) /\ \A k \in 1..Len(l) : tt[k] = FreeRef(l[k])
      BY <2>4, ListOf
    <2>6. ends = {k \in DOMAIN l : l[k] = NULL}
      OBVIOUS
    <2>7. FreeList(l) = UpTo(l, ends)
      BY DEF FreeList, Before
    <2> HIDE DEF tt, ends, l
    <2>8. UpTo(l, ends) \in Seq(Tokens)
      BY <2>3, <2>5, <2>6, UpToSingles
    <2>9. FreeList(v[i].list) \in Seq(Tokens)
      BY <2>7, <2>8 DEF l
    <2> QED
      BY <1>8, <1>9, <1>10, <2>2, <2>9 DEF FreeProtoEntry
  <1>12. aa \in Seq(Seq(Tokens)) /\ bb \in Seq(Seq(Tokens))
    BY <1>9, <1>10, <1>11, ListIn
  <1>13. ss \in Seq(Seq(Tokens))
    <2>1. \A i \in 1..Len(v) : ss[i] \in Seq(Tokens)
      BY <1>8, <1>11, OccSum
    <2> QED
      BY <1>8, <2>1, ListIn
  <1>14. b \in Seq(Tokens)
    <2>1. "protos" \in Kinds
      BY DEF Kinds
    <2> QED
      BY <2>1, BlockToken DEF b
  <1>15. FlattenSeq(ss) \in Seq(Tokens) /\ FlattenSeq(aa) \in Seq(Tokens) /\ FlattenSeq(bb) \in Seq(Tokens)
    BY <1>12, <1>13, OccFlatten
  <1>16. ASSUME NEW x
         PROVE  Occurrences(FlattenSeq(ss) \o b, x)
                  = Occurrences(FlattenSeq(aa) \o b, x) + Occurrences(FlattenSeq(bb), x)
    <2>1. Occurrences(FlattenSeq(ss), x) = Occurrences(FlattenSeq(aa), x) + Occurrences(FlattenSeq(bb), x)
      <3>1. Len(aa) = Len(ss) /\ Len(bb) = Len(ss) /\ \A i \in 1..Len(ss) : ss[i] = aa[i] \o bb[i]
        BY <1>8, <1>9, <1>10, <1>11
      <3>2. Zipped(ss, aa, bb)
        BY <1>12, <1>13, <3>1 DEF Zipped
      <3> QED
        BY <3>2, FlattenZip
    <2>2. Occurrences(FlattenSeq(ss) \o b, x) = Occurrences(FlattenSeq(ss), x) + Occurrences(b, x)
      BY <1>14, <1>15, OccSum
    <2>3. Occurrences(FlattenSeq(aa) \o b, x) = Occurrences(FlattenSeq(aa), x) + Occurrences(b, x)
      BY <1>14, <1>15, OccSum
    <2>4. Occurrences(FlattenSeq(aa), x) \in Nat /\ Occurrences(FlattenSeq(bb), x) \in Nat /\ Occurrences(b, x) \in Nat
      BY <1>14, <1>15, OccNat
    <2> QED
      BY <2>1, <2>2, <2>3, <2>4
  <1>17. FlattenSeq(aa) \o b \in Seq(Tokens)
    BY <1>14, <1>15, OccSum
  <1> QED
    BY <1>5, <1>6, <1>7, <1>15, <1>16, <1>17 DEF rs, ls

(* The parts of a class, its lists of members, the sections.               *)
ClassParts(c) ==
  /\ c = [name |-> c.name, super_class |-> c.super_class, source_file |-> c.source_file,
          interfaces |-> c.interfaces, annotations |-> c.annotations,
          static_values |-> c.static_values, static_fields |-> c.static_fields,
          instance_fields |-> c.instance_fields, direct_methods |-> c.direct_methods,
          virtual_methods |-> c.virtual_methods]
  /\ c.name \in Strs \cup {NULL} /\ c.super_class \in Tokens \cup {NULL}
  /\ c.source_file \in Tokens \cup {NULL}
  /\ FreeAnnotations(c.annotations) \in Seq(Tokens) /\ FreeValues(c.static_values) \in Seq(Tokens)
  /\ FreeFields(c.static_fields) \in Seq(Tokens) /\ FreeFields(c.instance_fields) \in Seq(Tokens)
  /\ FreeMethods(c.direct_methods) \in Seq(Tokens) /\ FreeMethods(c.virtual_methods) \in Seq(Tokens)
  /\ FreeStrstr(c.interfaces) \in Seq(Tokens)

(* The members of a class of which n have been read, the rest still zero.  *)
FieldList(flds, n) ==
  /\ IsList(flds) /\ n \in 0..Len(flds)
  /\ \A i \in 1..Len(flds) :
       IF i <= n THEN flds[i].name # NULL /\ FreeField(flds[i]) \in Seq(Tokens)
       ELSE flds[i] = ZeroField
MethodList(mtds, n) ==
  /\ IsList(mtds) /\ n \in 0..Len(mtds)
  /\ \A i \in 1..Len(mtds) :
       IF i <= n THEN mtds[i].prototype # NULL /\ FreeMethod(mtds[i]) \in Seq(Tokens)
       ELSE mtds[i] = ZeroMethod

(* The form of the entries of the tables of fields and methods.            *)
RawFieldParts(fld) ==
  /\ fld = [defining_class |-> fld.defining_class, type |-> fld.type, name |-> fld.name,
            annotations |-> fld.annotations]
  /\ fld.defining_class \in Strs /\ fld.type \in Strs /\ fld.name \in Strs
  /\ FreeAnnotations(fld.annotations) \in Seq(Tokens)
RawMethodParts(mtd) ==
  /\ mtd = [defining_class |-> mtd.defining_class, name |-> mtd.name, prototype |-> mtd.prototype,
            annotations |-> mtd.annotations, parameter_annotations |-> mtd.parameter_annotations]
  /\ mtd.defining_class \in Strs /\ mtd.prototype \in Protos /\ mtd.name \in Strs
  /\ FreeAnnotations(mtd.annotations) \in Seq(Tokens)
  /\ FreeParameterAnnotations(mtd.parameter_annotations) \in Seq(Tokens)

(* A table of strings.                                                     *)
StrList(s) == IsList(s) /\ \A i \in 1..Len(s) : s[i] \in Strs

(* A context has these parts and no others.                                *)
Context(c) ==
  c = [strs |-> c.strs, types |-> c.types, protos |-> c.protos, fields |-> c.fields,
       methods |-> c.methods, classes |-> c.classes]

(* All sections have been read.                                            *)
Loaded(c, f) ==
  /\ StrList(c.strs) /\ Len(c.strs) = Len(f.strings)
  /\ StrList(c.types) /\ Len(c.types) = Len(f.types)
  /\ IsList(c.protos) /\ Len(c.protos) = Len(f.protos)
  /\ \A i \in 1..Len(c.protos) : c.protos[i] \in Protos
  /\ IsList(c.fields) /\ Len(c.fields) = Len(f.fields)
  /\ \A i \in 1..Len(c.fields) : RawFieldParts(c.fields[i])
  /\ IsList(c.methods) /\ Len(c.methods) = Len(f.methods)
  /\ \A i \in 1..Len(c.methods) : RawMethodParts(c.methods[i])

(* The entries that the first n classes have for an index.                 *)
Names(f, n, part, i) ==
  \E c \in 1..Len(f.classes) :
    c <= n /\ HasDirectory(f, c)
    /\ \E k \in 1..Len(f.classes[c].annotations[1][part]) :
         f.classes[c].annotations[1][part][k].idx = i

(* Only members that the directories of the first n classes name have      *)
(* annotations in the tables.                                              *)
SlotsNamed(c, f, n) ==
  /\ \A i \in 1..Len(c.fields) : c.fields[i].annotations # NULL => Names(f, n, "fields", i)
  /\ \A i \in 1..Len(c.methods) :
       /\ c.methods[i].annotations # NULL => Names(f, n, "methods", i)
       /\ c.methods[i].parameter_annotations # NULL => Names(f, n, "parameters", i)

(* The steps at which a class is read.                                     *)
ClassSteps ==
  {"class", "directory", "interfaces", "class_data", "static_fields", "instance_fields",
   "direct_methods", "virtual_methods", "static_values"}
(* What has not been read of the class at a step.                          *)
Unread(step) ==
  CASE step = "class" -> {}
    [] step = "directory" -> {"annotations", "interfaces", "static_values"} \cup MemberLists
    [] step = "interfaces" -> {"interfaces", "static_values"} \cup MemberLists
    [] step = "class_data" -> {"static_values"} \cup MemberLists
    [] step = "static_fields" ->
         {"static_values", "instance_fields", "direct_methods", "virtual_methods"}
    [] step = "instance_fields" -> {"static_values", "direct_methods", "virtual_methods"}
    [] step = "direct_methods" -> {"static_values", "virtual_methods"}
    [] step = "virtual_methods" -> {"static_values"}
    [] step = "static_values" -> {"static_values"}

(* The classes before n are read, those behind it are zero.                *)
ClassesRead(cs, n, total) ==
  /\ IsList(cs) /\ Len(cs) = total
  /\ \A i \in 1..Len(cs) : ClassParts(cs[i]) /\ (i < n => cs[i].name # NULL) /\ (n < i => cs[i] = ZeroClass)

(* While a class is read: the parts that come later are unset.             *)
AtClass(exact) ==
  /\ Loaded(ctx, file)
  /\ class \in 1..Len(file.classes)
  /\ ClassesRead(ctx.classes, class, Len(file.classes))
  /\ IF pc = "class" THEN This = ZeroClass ELSE This.name # NULL
  /\ \A part \in Unread(pc) : This[part] = NULL
  /\ exact => SlotsNamed(ctx, file, IF pc \in {"class", "directory"} THEN class - 1 ELSE class)

(* While its members are read: the list has been allocated and filled up   *)
(* to the next one.                                                        *)
AtMember ==
  /\ HasClassData(file, class)
  /\ Len(This[pc]) = Len(cl.class_data[1][pc])
  /\ IF IsFields(pc) THEN FieldList(This[pc], members) ELSE MethodList(This[pc], members)

(* Nothing has been read.                                                  *)
Empty == ctx = NoContext /\ protos = << >>

(* What dxc_free_odex_data releases for the dependencies.                  *)
MetadataDeps(data) ==
  FreeArray(data.dep_shas, LAMBDA sha : sha = NULL, FreeRef, "dep_shas") \o FreeStrstr(data.deps)

(* The form of the odex metadata.                                          *)
Metadata(data) ==
  data # NULL =>
    /\ data = [deps |-> data.deps, dep_shas |-> data.dep_shas, id |-> data.id]
    /\ MetadataDeps(data) \in Seq(Tokens)

(* Before the context is moved to the file: all classes have been read.    *)
AtMove ==
  /\ Loaded(ctx, file)
  /\ class = Len(file.classes) + 1
  /\ ClassesRead(ctx.classes, class, Len(file.classes))

(* While the file is read: what is held pays for the context, the metadata *)
(* and the prototypes.                                                     *)
AtReading(exact) ==
  /\ Parts(ctx, metadata, protos)
  /\ Owes(Debt(ctx, metadata, protos), held, exact)

(* What dxc_free_file and the tables of the file owe.                      *)
DexParts(d) ==
  /\ FreeDexFile(d) \in Seq(Tokens) /\ TableRefs(d) \in Seq(Tokens)

(* Before free_context: what is held pays for the context, the file, its   *)
(* tables and the prototypes.                                              *)
AtRelease(exact) ==
  /\ Parts(ctx, metadata, protos) /\ DexParts(dex)
  /\ Owes(<<EmptyStr>> \o FreeContext(ctx) \o FreeDexFile(dex) \o TableRefs(dex)
            \o ContentsOf(protos, DOMAIN protos), held, exact)

(* The prototypes that are still held.                                     *)
Alive == {p \in DOMAIN protos : Copies(Proto(p), held) > 0}

(* After free_context: what is held pays for the file, its tables and the  *)
(* lists of the prototypes that are still held.                            *)
AtDone(exact) ==
  /\ DexParts(dex)
  /\ Owes(<<EmptyStr>> \o FreeDexFile(dex) \o TableRefs(dex) \o ContentsOf(protos, Alive), held, exact)

(* The form of every state.                                                *)
Common ==
  /\ pc \in Steps \cup ToSet(Lists) \cup (Endings \ {"crashed"})
  /\ Context(ctx) /\ Metadata(metadata)
  /\ IsList(protos) /\ Len(protos) <= Len(file.protos)
  /\ \A p \in 1..Len(protos) : ContentList(protos[p])
  /\ class \in 0..Len(file.classes) + 1 /\ members \in Nat /\ idx \in Nat
  /\ IsABag(held)

(* A prototype with parameters is in its place of the table.               *)
ProtosNamed ==
  \A p \in 1..Len(protos) :
    protos[p] # << >> =>
      /\ IsList(ctx.protos) /\ p \in 1..Len(ctx.protos) /\ ctx.protos[p] = Proto(p)
      /\ \A i \in 1..Len(ctx.protos) : ctx.protos[i] \in Protos \cup {NULL}

(* What the sections before the step have left in the context.             *)
Unset(parts) == \A part \in parts : ctx[part] = NULL

(* The sections, when they have been read.                                 *)
StrsLoaded == StrList(ctx.strs) /\ Len(ctx.strs) = Len(file.strings)
TypesLoaded == StrList(ctx.types) /\ Len(ctx.types) = Len(file.types)
ProtosLoaded ==
  /\ IsList(ctx.protos) /\ Len(ctx.protos) = Len(file.protos)
  /\ \A i \in 1..Len(ctx.protos) : ctx.protos[i] \in Protos
FieldsLoaded ==
  /\ IsList(ctx.fields) /\ Len(ctx.fields) = Len(file.fields)
  /\ \A i \in 1..Len(ctx.fields) : RawFieldParts(ctx.fields[i]) /\ ctx.fields[i].annotations = NULL
MethodsLoaded ==
  /\ IsList(ctx.methods) /\ Len(ctx.methods) = Len(file.methods)
  /\ \A i \in 1..Len(ctx.methods) :
       /\ RawMethodParts(ctx.methods[i]) /\ ctx.methods[i].annotations = NULL
       /\ ctx.methods[i].parameter_annotations = NULL

(* Where each section is read: those before it have been read, those       *)
(* behind it are unset.                                                    *)
AtTypes ==
  protos = << >> /\ StrsLoaded /\ Unset({"types", "protos", "fields", "methods", "classes"})
AtProtos ==
  protos = << >> /\ StrsLoaded /\ TypesLoaded /\ Unset({"protos", "fields", "methods", "classes"})
AtFields == StrsLoaded /\ TypesLoaded /\ ProtosLoaded /\ Unset({"fields", "methods", "classes"})
AtMethods ==
  StrsLoaded /\ TypesLoaded /\ ProtosLoaded /\ FieldsLoaded /\ Unset({"methods", "classes"})
AtClasses ==
  /\ StrsLoaded /\ TypesLoaded /\ ProtosLoaded /\ FieldsLoaded /\ MethodsLoaded
  /\ Unset({"classes"})

(* What holds at each step.                                                *)
Phase(exact) ==
  /\ pc \in {"odex", "header", "strings"} => Empty
  /\ pc = "odex" => metadata = NULL
  /\ pc = "header" /\ metadata # NULL => metadata.id = NULL
  /\ pc = "types" => AtTypes
  /\ pc = "protos" => AtProtos
  /\ pc = "fields" => AtFields
  /\ pc = "methods" => AtMethods
  /\ pc = "classes" => AtClasses
  /\ pc \in ClassSteps => AtClass(exact)
  /\ pc \in MemberLists => AtMember
  /\ pc = "move" => AtMove
  /\ pc \notin {"release"} \cup Endings => AtReading(exact) /\ ProtosNamed
  /\ pc = "release" => AtRelease(exact) /\ ProtosNamed
  /\ pc = "done" => AtDone(exact)
  /\ pc = "null" => (exact => FailureReleasesAll)
  /\ pc = "freed" => (exact => OnlyTablesRemain)

(* The inductive invariant; exact says that nothing is held but the debt.  *)
IInv(exact) == Common /\ Phase(exact)

(* What a class owes, and what one of its parts does.                      *)
FreeNames(c) == FreeRefs(<<c.name, c.super_class, c.source_file>>)

(* The parts of a class that have a release function each.                 *)
PartNames == {"annotations", "static_values", "interfaces"} \cup MemberLists
FreePart(part, v) ==
  CASE part = "annotations" -> FreeAnnotations(v)
    [] part = "static_values" -> FreeValues(v)
    [] part = "interfaces" -> FreeStrstr(v)
    [] part \in {"static_fields", "instance_fields"} -> FreeFields(v)
    [] part \in {"direct_methods", "virtual_methods"} -> FreeMethods(v)

(* The names of a class are tokens.                                        *)
LEMMA NamesTokens ==
  ASSUME NullApart, NEW c, c.name \in Strs \cup {NULL}, c.super_class \in Tokens \cup {NULL},
         c.source_file \in Tokens \cup {NULL}
  PROVE  FreeNames(c) \in Seq(Tokens)
  <1>1. c.name \in Tokens \cup {NULL}
    BY RefTokens
  <1> DEFINE a == FreeRef(c.name)
             b == FreeRef(c.super_class)
             d == FreeRef(c.source_file)
  <1>2. FreeNames(c) = (a \o b) \o d /\ a \in Seq(Tokens) /\ b \in Seq(Tokens) /\ d \in Seq(Tokens)
    BY <1>1, FreeRefsThree DEF FreeNames
  <1> HIDE DEF a, b, d
  <1> QED
    BY <1>2

(* What dxc_free_class releases is what it releases of each part of the    *)
(* class.                                                                  *)
LEMMA ClassSum ==
  ASSUME NullApart, NEW c,
         ClassParts(c)
  PROVE  /\ FreeClass(c) \in Seq(Tokens)
         /\ \A x : Occurrences(FreeClass(c), x)
                    = Occurrences(FreeAnnotations(c.annotations), x)
                        + Occurrences(FreeValues(c.static_values), x)
                        + Occurrences(FreeFields(c.static_fields), x)
                        + Occurrences(FreeFields(c.instance_fields), x)
                        + Occurrences(FreeMethods(c.direct_methods), x)
                        + Occurrences(FreeMethods(c.virtual_methods), x)
                        + Occurrences(FreeNames(c), x)
                        + Occurrences(FreeStrstr(c.interfaces), x)
  <1> DEFINE p1 == FreeAnnotations(c.annotations)
             p2 == FreeValues(c.static_values)
             p3 == FreeFields(c.static_fields)
             p4 == FreeFields(c.instance_fields)
             p5 == FreeMethods(c.direct_methods)
             p6 == FreeMethods(c.virtual_methods)
             p7 == FreeNames(c)
             p8 == FreeStrstr(c.interfaces)
  <1>0. p1 \in Seq(Tokens) /\ p2 \in Seq(Tokens) /\ p3 \in Seq(Tokens) /\ p4 \in Seq(Tokens) /\ p5 \in Seq(Tokens) /\ p6 \in Seq(Tokens) /\ p7 \in Seq(Tokens) /\ p8 \in Seq(Tokens)
    BY NamesTokens DEF ClassParts
  <1>1. FreeClass(c) = p1 \o p2 \o p3 \o p4 \o p5 \o p6 \o p7 \o p8
    BY DEF FreeClass, FreeNames
  <1> HIDE DEF p1, p2, p3, p4, p5, p6, p7, p8
  <1>2. ASSUME NEW x
        PROVE  /\ p1 \o p2 \o p3 \o p4 \o p5 \o p6 \o p7 \o p8 \in Seq(Tokens)
               /\ Occurrences(p1 \o p2 \o p3 \o p4 \o p5 \o p6 \o p7 \o p8, x) = Occurrences(p1, x) + Occurrences(p2, x) + Occurrences(p3, x) + Occurrences(p4, x) + Occurrences(p5, x) + Occurrences(p6, x) + Occurrences(p7, x) + Occurrences(p8, x)
    <2> DEFINE s2 == p1 \o p2
    <2>1. s2 \in Seq(Tokens) /\ Occurrences(s2, x) = Occurrences(p1, x) + Occurrences(p2, x)
      BY <1>0, OccSum
    <2> HIDE DEF s2
    <2> DEFINE s3 == s2 \o p3
    <2>2. s3 \in Seq(Tokens) /\ Occurrences(s3, x) = Occurrences(s2, x) + Occurrences(p3, x)
      BY <1>0, <2>1, OccSum
    <2> HIDE DEF s3
    <2> DEFINE s4 == s3 \o p4
    <2>3. s4 \in Seq(Tokens) /\ Occurrences(s4, x) = Occurrences(s3, x) + Occurrences(p4, x)
      BY <1>0, <2>2, OccSum
    <2> HIDE DEF s4
    <2> DEFINE s5 == s4 \o p5
    <2>4. s5 \in Seq(Tokens) /\ Occurrences(s5, x) = Occurrences(s4, x) + Occurrences(p5, x)
      BY <1>0, <2>3, OccSum
    <2> HIDE DEF s5
    <2> DEFINE s6 == s5 \o p6
    <2>5. s6 \in Seq(Tokens) /\ Occurrences(s6, x) = Occurrences(s5, x) + Occurrences(p6, x)
      BY <1>0, <2>4, OccSum
    <2> HIDE DEF s6
    <2> DEFINE s7 == s6 \o p7
    <2>6. s7 \in Seq(Tokens) /\ Occurrences(s7, x) = Occurrences(s6, x) + Occurrences(p7, x)
      BY <1>0, <2>5, OccSum
    <2> HIDE DEF s7
    <2> DEFINE s8 == s7 \o p8
    <2>7. s8 \in Seq(Tokens) /\ Occurrences(s8, x) = Occurrences(s7, x) + Occurrences(p8, x)
      BY <1>0, <2>6, OccSum
    <2> HIDE DEF s8
    <2>n. Occurrences(p1, x) \in Nat /\ Occurrences(p2, x) \in Nat /\ Occurrences(p3, x) \in Nat /\ Occurrences(p4, x) \in Nat /\ Occurrences(p5, x) \in Nat /\ Occurrences(p6, x) \in Nat /\ Occurrences(p7, x) \in Nat /\ Occurrences(p8, x) \in Nat
      BY <1>0, OccNat
    <2>m. Occurrences(s8, x) = Occurrences(p1, x) + Occurrences(p2, x) + Occurrences(p3, x) + Occurrences(p4, x) + Occurrences(p5, x) + Occurrences(p6, x) + Occurrences(p7, x) + Occurrences(p8, x)
      BY <2>1, <2>2, <2>3, <2>4, <2>5, <2>6, <2>7, <2>n
    <2> QED
      BY <2>7, <2>m DEF s2, s3, s4, s5, s6, s7, s8
  <1> QED
    BY <1>1, <1>2 DEF p1, p2, p3, p4, p5, p6, p7, p8

(* A class with another part.                                              *)
PartSet(c, d, part, v) == d = [c EXCEPT ![part] = v]
(* A class one part of which is replaced releases the new part instead of  *)
(* the old one.                                                            *)
LEMMA PartChange ==
  ASSUME NullApart, NEW c, ClassParts(c), NEW part \in PartNames, NEW v,
         FreePart(part, v) \in Seq(Tokens), NEW dd, PartSet(c, dd, part, v)
  PROVE  /\ ClassParts(dd) /\ dd[part] = v /\ dd.name = c.name
         /\ \A p \in PartNames \ {part} : dd[p] = c[p]
         /\ FreePart(part, c[part]) \in Seq(Tokens)
         /\ \A x : Occurrences(FreeClass(dd), x) + Occurrences(FreePart(part, c[part]), x)
                    = Occurrences(FreeClass(c), x) + Occurrences(FreePart(part, v), x)
  <1>1. CASE part = "annotations"
    <2> DEFINE d == [c EXCEPT !.annotations = v]
    <2>1. d = [name |-> c.name, super_class |-> c.super_class, source_file |-> c.source_file, interfaces |-> c.interfaces, annotations |-> v, static_values |-> c.static_values, static_fields |-> c.static_fields, instance_fields |-> c.instance_fields, direct_methods |-> c.direct_methods, virtual_methods |-> c.virtual_methods]
      <3> DEFINE f0 == c.name
                 f1 == c.super_class
                 f2 == c.source_file
                 f3 == c.interfaces
                 f4 == c.annotations
                 f5 == c.static_values
                 f6 == c.static_fields
                 f7 == c.instance_fields
                 f8 == c.direct_methods
                 f9 == c.virtual_methods
      <3>1. c = [name |-> f0, super_class |-> f1, source_file |-> f2, interfaces |-> f3, annotations |-> f4, static_values |-> f5, static_fields |-> f6, instance_fields |-> f7, direct_methods |-> f8, virtual_methods |-> f9]
        BY DEF ClassParts
      <3> HIDE DEF f0, f1, f2, f3, f4, f5, f6, f7, f8, f9
      <3>2. d = [name |-> f0, super_class |-> f1, source_file |-> f2, interfaces |-> f3, annotations |-> v, static_values |-> f5, static_fields |-> f6, instance_fields |-> f7, direct_methods |-> f8, virtual_methods |-> f9]
        BY <3>1
      <3> QED
        BY <3>2 DEF f0, f1, f2, f3, f4, f5, f6, f7, f8, f9
    <2>2. d.annotations = v /\ d.name = c.name /\ d.super_class = c.super_class /\ d.source_file = c.source_file /\ d.interfaces = c.interfaces /\ d.static_values = c.static_values /\ d.static_fields = c.static_fields /\ d.instance_fields = c.instance_fields /\ d.direct_methods = c.direct_methods /\ d.virtual_methods = c.virtual_methods
      BY <2>1
    <2>3. dd = d /\ FreePart(part, v) = FreeAnnotations(v) /\ FreePart(part, c[part]) = FreeAnnotations(c.annotations)
      BY <1>1 DEF FreePart, PartSet
    <2>4. d = [name |-> d.name, super_class |-> d.super_class, source_file |-> d.source_file, interfaces |-> d.interfaces, annotations |-> d.annotations, static_values |-> d.static_values, static_fields |-> d.static_fields, instance_fields |-> d.instance_fields, direct_methods |-> d.direct_methods, virtual_methods |-> d.virtual_methods]
      BY <2>1, <2>2
    <2> HIDE DEF d
    <2>5. ClassParts(d)
      BY <2>2, <2>3, <2>4 DEF ClassParts
    <2>6. FreeNames(d) = FreeNames(c)
      BY <2>2 DEF FreeNames
    <2>7. ASSUME NEW x
          PROVE  Occurrences(FreeClass(d), x) + Occurrences(FreeAnnotations(c.annotations), x)
                    = Occurrences(FreeClass(c), x) + Occurrences(FreeAnnotations(v), x)
      <3>1. /\ FreeAnnotations(c.annotations) \in Seq(Tokens) /\ FreeAnnotations(v) \in Seq(Tokens)
            /\ FreeAnnotations(c.annotations) \in Seq(Tokens) /\ FreeValues(c.static_values) \in Seq(Tokens) /\ FreeFields(c.static_fields) \in Seq(Tokens) /\ FreeFields(c.instance_fields) \in Seq(Tokens) /\ FreeMethods(c.direct_methods) \in Seq(Tokens) /\ FreeMethods(c.virtual_methods) \in Seq(Tokens) /\ FreeNames(c) \in Seq(Tokens) /\ FreeStrstr(c.interfaces) \in Seq(Tokens)
        BY <2>3, NamesTokens DEF ClassParts
      <3>2. /\ Occurrences(FreeAnnotations(v), x) \in Nat
            /\ Occurrences(FreeAnnotations(c.annotations), x) \in Nat
            /\ Occurrences(FreeValues(c.static_values), x) \in Nat
            /\ Occurrences(FreeFields(c.static_fields), x) \in Nat
            /\ Occurrences(FreeFields(c.instance_fields), x) \in Nat
            /\ Occurrences(FreeMethods(c.direct_methods), x) \in Nat
            /\ Occurrences(FreeMethods(c.virtual_methods), x) \in Nat
            /\ Occurrences(FreeNames(c), x) \in Nat
            /\ Occurrences(FreeStrstr(c.interfaces), x) \in Nat
        BY <3>1, OccNat
      <3>3. Occurrences(FreeClass(c), x) = Occurrences(FreeAnnotations(c.annotations), x) + Occurrences(FreeValues(c.static_values), x) + Occurrences(FreeFields(c.static_fields), x) + Occurrences(FreeFields(c.instance_fields), x) + Occurrences(FreeMethods(c.direct_methods), x) + Occurrences(FreeMethods(c.virtual_methods), x) + Occurrences(FreeNames(c), x) + Occurrences(FreeStrstr(c.interfaces), x)
        BY ClassSum
      <3>4. Occurrences(FreeClass(d), x) = Occurrences(FreeAnnotations(d.annotations), x) + Occurrences(FreeValues(d.static_values), x) + Occurrences(FreeFields(d.static_fields), x) + Occurrences(FreeFields(d.instance_fields), x) + Occurrences(FreeMethods(d.direct_methods), x) + Occurrences(FreeMethods(d.virtual_methods), x) + Occurrences(FreeNames(d), x) + Occurrences(FreeStrstr(d.interfaces), x)
        BY <2>5, ClassSum
      <3>5. Occurrences(FreeClass(d), x) = Occurrences(FreeAnnotations(v), x) + Occurrences(FreeValues(c.static_values), x) + Occurrences(FreeFields(c.static_fields), x) + Occurrences(FreeFields(c.instance_fields), x) + Occurrences(FreeMethods(c.direct_methods), x) + Occurrences(FreeMethods(c.virtual_methods), x) + Occurrences(FreeNames(c), x) + Occurrences(FreeStrstr(c.interfaces), x)
        BY <3>4, <2>2, <2>6
      <3> DEFINE n0 == Occurrences(FreeAnnotations(c.annotations), x)
                 n1 == Occurrences(FreeValues(c.static_values), x)
                 n2 == Occurrences(FreeFields(c.static_fields), x)
                 n3 == Occurrences(FreeFields(c.instance_fields), x)
                 n4 == Occurrences(FreeMethods(c.direct_methods), x)
                 n5 == Occurrences(FreeMethods(c.virtual_methods), x)
                 n6 == Occurrences(FreeNames(c), x)
                 n7 == Occurrences(FreeStrstr(c.interfaces), x)
                 old == Occurrences(FreeClass(c), x)
                 new == Occurrences(FreeClass(d), x)
                 nv == Occurrences(FreeAnnotations(v), x)
      <3>6. n0 \in Nat /\ n1 \in Nat /\ n2 \in Nat /\ n3 \in Nat /\ n4 \in Nat /\ n5 \in Nat /\ n6 \in Nat /\ n7 \in Nat /\ nv \in Nat
        BY <3>2
      <3>7. old = n0 + n1 + n2 + n3 + n4 + n5 + n6 + n7 /\ new = nv + n1 + n2 + n3 + n4 + n5 + n6 + n7
        BY <3>3, <3>5
      <3> HIDE DEF n0, n1, n2, n3, n4, n5, n6, n7, old, new, nv
      <3>8. new + n0 = old + nv
        BY <3>6, <3>7
      <3> QED
        BY <3>8 DEF n0, n1, n2, n3, n4, n5, n6, n7, old, new, nv
    <2>8. FreePart(part, c[part]) \in Seq(Tokens)
      BY <2>3 DEF ClassParts
    <2>9. d[part] = v /\ d.name = c.name /\ \A q \in PartNames \ {part} : d[q] = c[q]
      BY <2>2, <1>1 DEF PartNames, MemberLists
    <2> QED
      BY <2>3, <2>5, <2>7, <2>8, <2>9
  <1>2. CASE part = "static_values"
    <2> DEFINE d == [c EXCEPT !.static_values = v]
    <2>1. d = [name |-> c.name, super_class |-> c.super_class, source_file |-> c.source_file, interfaces |-> c.interfaces, annotations |-> c.annotations, static_values |-> v, static_fields |-> c.static_fields, instance_fields |-> c.instance_fields, direct_methods |-> c.direct_methods, virtual_methods |-> c.virtual_methods]
      <3> DEFINE f0 == c.name
                 f1 == c.super_class
                 f2 == c.source_file
                 f3 == c.interfaces
                 f4 == c.annotations
                 f5 == c.static_values
                 f6 == c.static_fields
                 f7 == c.instance_fields
                 f8 == c.direct_methods
                 f9 == c.virtual_methods
      <3>1. c = [name |-> f0, super_class |-> f1, source_file |-> f2, interfaces |-> f3, annotations |-> f4, static_values |-> f5, static_fields |-> f6, instance_fields |-> f7, direct_methods |-> f8, virtual_methods |-> f9]
        BY DEF ClassParts
      <3> HIDE DEF f0, f1, f2, f3, f4, f5, f6, f7, f8, f9
      <3>2. d = [name |-> f0, super_class |-> f1, source_file |-> f2, interfaces |-> f3, annotations |-> f4, static_values |-> v, static_fields |-> f6, instance_fields |-> f7, direct_methods |-> f8, virtual_methods |-> f9]
        BY <3>1
      <3> QED
        BY <3>2 DEF f0, f1, f2, f3, f4, f5, f6, f7, f8, f9
    <2>2. d.static_values = v /\ d.name = c.name /\ d.super_class = c.super_class /\ d.source_file = c.source_file /\ d.interfaces = c.interfaces /\ d.annotations = c.annotations /\ d.static_fields = c.static_fields /\ d.instance_fields = c.instance_fields /\ d.direct_methods = c.direct_methods /\ d.virtual_methods = c.virtual_methods
      BY <2>1
    <2>3. dd = d /\ FreePart(part, v) = FreeValues(v) /\ FreePart(part, c[part]) = FreeValues(c.static_values)
      BY <1>2 DEF FreePart, PartSet
    <2>4. d = [name |-> d.name, super_class |-> d.super_class, source_file |-> d.source_file, interfaces |-> d.interfaces, annotations |-> d.annotations, static_values |-> d.static_values, static_fields |-> d.static_fields, instance_fields |-> d.instance_fields, direct_methods |-> d.direct_methods, virtual_methods |-> d.virtual_methods]
      BY <2>1, <2>2
    <2> HIDE DEF d
    <2>5. ClassParts(d)
      BY <2>2, <2>3, <2>4 DEF ClassParts
    <2>6. FreeNames(d) = FreeNames(c)
      BY <2>2 DEF FreeNames
    <2>7. ASSUME NEW x
          PROVE  Occurrences(FreeClass(d), x) + Occurrences(FreeValues(c.static_values), x)
                    = Occurrences(FreeClass(c), x) + Occurrences(FreeValues(v), x)
      <3>1. /\ FreeValues(c.static_values) \in Seq(Tokens) /\ FreeValues(v) \in Seq(Tokens)
            /\ FreeAnnotations(c.annotations) \in Seq(Tokens) /\ FreeValues(c.static_values) \in Seq(Tokens) /\ FreeFields(c.static_fields) \in Seq(Tokens) /\ FreeFields(c.instance_fields) \in Seq(Tokens) /\ FreeMethods(c.direct_methods) \in Seq(Tokens) /\ FreeMethods(c.virtual_methods) \in Seq(Tokens) /\ FreeNames(c) \in Seq(Tokens) /\ FreeStrstr(c.interfaces) \in Seq(Tokens)
        BY <2>3, NamesTokens DEF ClassParts
      <3>2. /\ Occurrences(FreeValues(v), x) \in Nat
            /\ Occurrences(FreeAnnotations(c.annotations), x) \in Nat
            /\ Occurrences(FreeValues(c.static_values), x) \in Nat
            /\ Occurrences(FreeFields(c.static_fields), x) \in Nat
            /\ Occurrences(FreeFields(c.instance_fields), x) \in Nat
            /\ Occurrences(FreeMethods(c.direct_methods), x) \in Nat
            /\ Occurrences(FreeMethods(c.virtual_methods), x) \in Nat
            /\ Occurrences(FreeNames(c), x) \in Nat
            /\ Occurrences(FreeStrstr(c.interfaces), x) \in Nat
        BY <3>1, OccNat
      <3>3. Occurrences(FreeClass(c), x) = Occurrences(FreeAnnotations(c.annotations), x) + Occurrences(FreeValues(c.static_values), x) + Occurrences(FreeFields(c.static_fields), x) + Occurrences(FreeFields(c.instance_fields), x) + Occurrences(FreeMethods(c.direct_methods), x) + Occurrences(FreeMethods(c.virtual_methods), x) + Occurrences(FreeNames(c), x) + Occurrences(FreeStrstr(c.interfaces), x)
        BY ClassSum
      <3>4. Occurrences(FreeClass(d), x) = Occurrences(FreeAnnotations(d.annotations), x) + Occurrences(FreeValues(d.static_values), x) + Occurrences(FreeFields(d.static_fields), x) + Occurrences(FreeFields(d.instance_fields), x) + Occurrences(FreeMethods(d.direct_methods), x) + Occurrences(FreeMethods(d.virtual_methods), x) + Occurrences(FreeNames(d), x) + Occurrences(FreeStrstr(d.interfaces), x)
        BY <2>5, ClassSum
      <3>5. Occurrences(FreeClass(d), x) = Occurrences(FreeAnnotations(c.annotations), x) + Occurrences(FreeValues(v), x) + Occurrences(FreeFields(c.static_fields), x) + Occurrences(FreeFields(c.instance_fields), x) + Occurrences(FreeMethods(c.direct_methods), x) + Occurrences(FreeMethods(c.virtual_methods), x) + Occurrences(FreeNames(c), x) + Occurrences(FreeStrstr(c.interfaces), x)
        BY <3>4, <2>2, <2>6
      <3> DEFINE n0 == Occurrences(FreeAnnotations(c.annotations), x)
                 n1 == Occurrences(FreeValues(c.static_values), x)
                 n2 == Occurrences(FreeFields(c.static_fields), x)
                 n3 == Occurrences(FreeFields(c.instance_fields), x)
                 n4 == Occurrences(FreeMethods(c.direct_methods), x)
                 n5 == Occurrences(FreeMethods(c.virtual_methods), x)
                 n6 == Occurrences(FreeNames(c), x)
                 n7 == Occurrences(FreeStrstr(c.interfaces), x)
                 old == Occurrences(FreeClass(c), x)
                 new == Occurrences(FreeClass(d), x)
                 nv == Occurrences(FreeValues(v), x)
      <3>6. n0 \in Nat /\ n1 \in Nat /\ n2 \in Nat /\ n3 \in Nat /\ n4 \in Nat /\ n5 \in Nat /\ n6 \in Nat /\ n7 \in Nat /\ nv \in Nat
        BY <3>2
      <3>7. old = n0 + n1 + n2 + n3 + n4 + n5 + n6 + n7 /\ new = n0 + nv + n2 + n3 + n4 + n5 + n6 + n7
        BY <3>3, <3>5
      <3> HIDE DEF n0, n1, n2, n3, n4, n5, n6, n7, old, new, nv
      <3>8. new + n1 = old + nv
        BY <3>6, <3>7
      <3> QED
        BY <3>8 DEF n0, n1, n2, n3, n4, n5, n6, n7, old, new, nv
    <2>8. FreePart(part, c[part]) \in Seq(Tokens)
      BY <2>3 DEF ClassParts
    <2>9. d[part] = v /\ d.name = c.name /\ \A q \in PartNames \ {part} : d[q] = c[q]
      BY <2>2, <1>2 DEF PartNames, MemberLists
    <2> QED
      BY <2>3, <2>5, <2>7, <2>8, <2>9
  <1>3. CASE part = "interfaces"
    <2> DEFINE d == [c EXCEPT !.interfaces = v]
    <2>1. d = [name |-> c.name, super_class |-> c.super_class, source_file |-> c.source_file, interfaces |-> v, annotations |-> c.annotations, static_values |-> c.static_values, static_fields |-> c.static_fields, instance_fields |-> c.instance_fields, direct_methods |-> c.direct_methods, virtual_methods |-> c.virtual_methods]
      <3> DEFINE f0 == c.name
                 f1 == c.super_class
                 f2 == c.source_file
                 f3 == c.interfaces
                 f4 == c.annotations
                 f5 == c.static_values
                 f6 == c.static_fields
                 f7 == c.instance_fields
                 f8 == c.direct_methods
                 f9 == c.virtual_methods
      <3>1. c = [name |-> f0, super_class |-> f1, source_file |-> f2, interfaces |-> f3, annotations |-> f4, static_values |-> f5, static_fields |-> f6, instance_fields |-> f7, direct_methods |-> f8, virtual_methods |-> f9]
        BY DEF ClassParts
      <3> HIDE DEF f0, f1, f2, f3, f4, f5, f6, f7, f8, f9
      <3>2. d = [name |-> f0, super_class |-> f1, source_file |-> f2, interfaces |-> v, annotations |-> f4, static_values |-> f5, static_fields |-> f6, instance_fields |-> f7, direct_methods |-> f8, virtual_methods |-> f9]
        BY <3>1
      <3> QED
        BY <3>2 DEF f0, f1, f2, f3, f4, f5, f6, f7, f8, f9
    <2>2. d.interfaces = v /\ d.name = c.name /\ d.super_class = c.super_class /\ d.source_file = c.source_file /\ d.annotations = c.annotations /\ d.static_values = c.static_values /\ d.static_fields = c.static_fields /\ d.instance_fields = c.instance_fields /\ d.direct_methods = c.direct_methods /\ d.virtual_methods = c.virtual_methods
      BY <2>1
    <2>3. dd = d /\ FreePart(part, v) = FreeStrstr(v) /\ FreePart(part, c[part]) = FreeStrstr(c.interfaces)
      BY <1>3 DEF FreePart, PartSet
    <2>4. d = [name |-> d.name, super_class |-> d.super_class, source_file |-> d.source_file, interfaces |-> d.interfaces, annotations |-> d.annotations, static_values |-> d.static_values, static_fields |-> d.static_fields, instance_fields |-> d.instance_fields, direct_methods |-> d.direct_methods, virtual_methods |-> d.virtual_methods]
      BY <2>1, <2>2
    <2> HIDE DEF d
    <2>5. ClassParts(d)
      BY <2>2, <2>3, <2>4 DEF ClassParts
    <2>6. FreeNames(d) = FreeNames(c)
      BY <2>2 DEF FreeNames
    <2>7. ASSUME NEW x
          PROVE  Occurrences(FreeClass(d), x) + Occurrences(FreeStrstr(c.interfaces), x)
                    = Occurrences(FreeClass(c), x) + Occurrences(FreeStrstr(v), x)
      <3>1. /\ FreeStrstr(c.interfaces) \in Seq(Tokens) /\ FreeStrstr(v) \in Seq(Tokens)
            /\ FreeAnnotations(c.annotations) \in Seq(Tokens) /\ FreeValues(c.static_values) \in Seq(Tokens) /\ FreeFields(c.static_fields) \in Seq(Tokens) /\ FreeFields(c.instance_fields) \in Seq(Tokens) /\ FreeMethods(c.direct_methods) \in Seq(Tokens) /\ FreeMethods(c.virtual_methods) \in Seq(Tokens) /\ FreeNames(c) \in Seq(Tokens) /\ FreeStrstr(c.interfaces) \in Seq(Tokens)
        BY <2>3, NamesTokens DEF ClassParts
      <3>2. /\ Occurrences(FreeStrstr(v), x) \in Nat
            /\ Occurrences(FreeAnnotations(c.annotations), x) \in Nat
            /\ Occurrences(FreeValues(c.static_values), x) \in Nat
            /\ Occurrences(FreeFields(c.static_fields), x) \in Nat
            /\ Occurrences(FreeFields(c.instance_fields), x) \in Nat
            /\ Occurrences(FreeMethods(c.direct_methods), x) \in Nat
            /\ Occurrences(FreeMethods(c.virtual_methods), x) \in Nat
            /\ Occurrences(FreeNames(c), x) \in Nat
            /\ Occurrences(FreeStrstr(c.interfaces), x) \in Nat
        BY <3>1, OccNat
      <3>3. Occurrences(FreeClass(c), x) = Occurrences(FreeAnnotations(c.annotations), x) + Occurrences(FreeValues(c.static_values), x) + Occurrences(FreeFields(c.static_fields), x) + Occurrences(FreeFields(c.instance_fields), x) + Occurrences(FreeMethods(c.direct_methods), x) + Occurrences(FreeMethods(c.virtual_methods), x) + Occurrences(FreeNames(c), x) + Occurrences(FreeStrstr(c.interfaces), x)
        BY ClassSum
      <3>4. Occurrences(FreeClass(d), x) = Occurrences(FreeAnnotations(d.annotations), x) + Occurrences(FreeValues(d.static_values), x) + Occurrences(FreeFields(d.static_fields), x) + Occurrences(FreeFields(d.instance_fields), x) + Occurrences(FreeMethods(d.direct_methods), x) + Occurrences(FreeMethods(d.virtual_methods), x) + Occurrences(FreeNames(d), x) + Occurrences(FreeStrstr(d.interfaces), x)
        BY <2>5, ClassSum
      <3>5. Occurrences(FreeClass(d), x) = Occurrences(FreeAnnotations(c.annotations), x) + Occurrences(FreeValues(c.static_values), x) + Occurrences(FreeFields(c.static_fields), x) + Occurrences(FreeFields(c.instance_fields), x) + Occurrences(FreeMethods(c.direct_methods), x) + Occurrences(FreeMethods(c.virtual_methods), x) + Occurrences(FreeNames(c), x) + Occurrences(FreeStrstr(v), x)
        BY <3>4, <2>2, <2>6
      <3> DEFINE n0 == Occurrences(FreeAnnotations(c.annotations), x)
                 n1 == Occurrences(FreeValues(c.static_values), x)
                 n2 == Occurrences(FreeFields(c.static_fields), x)
                 n3 == Occurrences(FreeFields(c.instance_fields), x)
                 n4 == Occurrences(FreeMethods(c.direct_methods), x)
                 n5 == Occurrences(FreeMethods(c.virtual_methods), x)
                 n6 == Occurrences(FreeNames(c), x)
                 n7 == Occurrences(FreeStrstr(c.interfaces), x)
                 old == Occurrences(FreeClass(c), x)
                 new == Occurrences(FreeClass(d), x)
                 nv == Occurrences(FreeStrstr(v), x)
      <3>6. n0 \in Nat /\ n1 \in Nat /\ n2 \in Nat /\ n3 \in Nat /\ n4 \in Nat /\ n5 \in Nat /\ n6 \in Nat /\ n7 \in Nat /\ nv \in Nat
        BY <3>2
      <3>7. old = n0 + n1 + n2 + n3 + n4 + n5 + n6 + n7 /\ new = n0 + n1 + n2 + n3 + n4 + n5 + n6 + nv
        BY <3>3, <3>5
      <3> HIDE DEF n0, n1, n2, n3, n4, n5, n6, n7, old, new, nv
      <3>8. new + n7 = old + nv
        BY <3>6, <3>7
      <3> QED
        BY <3>8 DEF n0, n1, n2, n3, n4, n5, n6, n7, old, new, nv
    <2>8. FreePart(part, c[part]) \in Seq(Tokens)
      BY <2>3 DEF ClassParts
    <2>9. d[part] = v /\ d.name = c.name /\ \A q \in PartNames \ {part} : d[q] = c[q]
      BY <2>2, <1>3 DEF PartNames, MemberLists
    <2> QED
      BY <2>3, <2>5, <2>7, <2>8, <2>9
  <1>4. CASE part = "static_fields"
    <2> DEFINE d == [c EXCEPT !.static_fields = v]
    <2>1. d = [name |-> c.name, super_class |-> c.super_class, source_file |-> c.source_file, interfaces |-> c.interfaces, annotations |-> c.annotations, static_values |-> c.static_values, static_fields |-> v, instance_fields |-> c.instance_fields, direct_methods |-> c.direct_methods, virtual_methods |-> c.virtual_methods]
      <3> DEFINE f0 == c.name
                 f1 == c.super_class
                 f2 == c.source_file
                 f3 == c.interfaces
                 f4 == c.annotations
                 f5 == c.static_values
                 f6 == c.static_fields
                 f7 == c.instance_fields
                 f8 == c.direct_methods
                 f9 == c.virtual_methods
      <3>1. c = [name |-> f0, super_class |-> f1, source_file |-> f2, interfaces |-> f3, annotations |-> f4, static_values |-> f5, static_fields |-> f6, instance_fields |-> f7, direct_methods |-> f8, virtual_methods |-> f9]
        BY DEF ClassParts
      <3> HIDE DEF f0, f1, f2, f3, f4, f5, f6, f7, f8, f9
      <3>2. d = [name |-> f0, super_class |-> f1, source_file |-> f2, interfaces |-> f3, annotations |-> f4, static_values |-> f5, static_fields |-> v, instance_fields |-> f7, direct_methods |-> f8, virtual_methods |-> f9]
        BY <3>1
      <3> QED
        BY <3>2 DEF f0, f1, f2, f3, f4, f5, f6, f7, f8, f9
    <2>2. d.static_fields = v /\ d.name = c.name /\ d.super_class = c.super_class /\ d.source_file = c.source_file /\ d.interfaces = c.interfaces /\ d.annotations = c.annotations /\ d.static_values = c.static_values /\ d.instance_fields = c.instance_fields /\ d.direct_methods = c.direct_methods /\ d.virtual_methods = c.virtual_methods
      BY <2>1
    <2>3. dd = d /\ FreePart(part, v) = FreeFields(v) /\ FreePart(part, c[part]) = FreeFields(c.static_fields)
      BY <1>4 DEF FreePart, PartSet
    <2>4. d = [name |-> d.name, super_class |-> d.super_class, source_file |-> d.source_file, interfaces |-> d.interfaces, annotations |-> d.annotations, static_values |-> d.static_values, static_fields |-> d.static_fields, instance_fields |-> d.instance_fields, direct_methods |-> d.direct_methods, virtual_methods |-> d.virtual_methods]
      BY <2>1, <2>2
    <2> HIDE DEF d
    <2>5. ClassParts(d)
      BY <2>2, <2>3, <2>4 DEF ClassParts
    <2>6. FreeNames(d) = FreeNames(c)
      BY <2>2 DEF FreeNames
    <2>7. ASSUME NEW x
          PROVE  Occurrences(FreeClass(d), x) + Occurrences(FreeFields(c.static_fields), x)
                    = Occurrences(FreeClass(c), x) + Occurrences(FreeFields(v), x)
      <3>1. /\ FreeFields(c.static_fields) \in Seq(Tokens) /\ FreeFields(v) \in Seq(Tokens)
            /\ FreeAnnotations(c.annotations) \in Seq(Tokens) /\ FreeValues(c.static_values) \in Seq(Tokens) /\ FreeFields(c.static_fields) \in Seq(Tokens) /\ FreeFields(c.instance_fields) \in Seq(Tokens) /\ FreeMethods(c.direct_methods) \in Seq(Tokens) /\ FreeMethods(c.virtual_methods) \in Seq(Tokens) /\ FreeNames(c) \in Seq(Tokens) /\ FreeStrstr(c.interfaces) \in Seq(Tokens)
        BY <2>3, NamesTokens DEF ClassParts
      <3>2. /\ Occurrences(FreeFields(v), x) \in Nat
            /\ Occurrences(FreeAnnotations(c.annotations), x) \in Nat
            /\ Occurrences(FreeValues(c.static_values), x) \in Nat
            /\ Occurrences(FreeFields(c.static_fields), x) \in Nat
            /\ Occurrences(FreeFields(c.instance_fields), x) \in Nat
            /\ Occurrences(FreeMethods(c.direct_methods), x) \in Nat
            /\ Occurrences(FreeMethods(c.virtual_methods), x) \in Nat
            /\ Occurrences(FreeNames(c), x) \in Nat
            /\ Occurrences(FreeStrstr(c.interfaces), x) \in Nat
        BY <3>1, OccNat
      <3>3. Occurrences(FreeClass(c), x) = Occurrences(FreeAnnotations(c.annotations), x) + Occurrences(FreeValues(c.static_values), x) + Occurrences(FreeFields(c.static_fields), x) + Occurrences(FreeFields(c.instance_fields), x) + Occurrences(FreeMethods(c.direct_methods), x) + Occurrences(FreeMethods(c.virtual_methods), x) + Occurrences(FreeNames(c), x) + Occurrences(FreeStrstr(c.interfaces), x)
        BY ClassSum
      <3>4. Occurrences(FreeClass(d), x) = Occurrences(FreeAnnotations(d.annotations), x) + Occurrences(FreeValues(d.static_values), x) + Occurrences(FreeFields(d.static_fields), x) + Occurrences(FreeFields(d.instance_fields), x) + Occurrences(FreeMethods(d.direct_methods), x) + Occurrences(FreeMethods(d.virtual_methods), x) + Occurrences(FreeNames(d), x) + Occurrences(FreeStrstr(d.interfaces), x)
        BY <2>5, ClassSum
      <3>5. Occurrences(FreeClass(d), x) = Occurrences(FreeAnnotations(c.annotations), x) + Occurrences(FreeValues(c.static_values), x) + Occurrences(FreeFields(v), x) + Occurrences(FreeFields(c.instance_fields), x) + Occurrences(FreeMethods(c.direct_methods), x) + Occurrences(FreeMethods(c.virtual_methods), x) + Occurrences(FreeNames(c), x) + Occurrences(FreeStrstr(c.interfaces), x)
        BY <3>4, <2>2, <2>6
      <3> DEFINE n0 == Occurrences(FreeAnnotations(c.annotations), x)
                 n1 == Occurrences(FreeValues(c.static_values), x)
                 n2 == Occurrences(FreeFields(c.static_fields), x)
                 n3 == Occurrences(FreeFields(c.instance_fields), x)
                 n4 == Occurrences(FreeMethods(c.direct_methods), x)
                 n5 == Occurrences(FreeMethods(c.virtual_methods), x)
                 n6 == Occurrences(FreeNames(c), x)
                 n7 == Occurrences(FreeStrstr(c.interfaces), x)
                 old == Occurrences(FreeClass(c), x)
                 new == Occurrences(FreeClass(d), x)
                 nv == Occurrences(FreeFields(v), x)
      <3>6. n0 \in Nat /\ n1 \in Nat /\ n2 \in Nat /\ n3 \in Nat /\ n4 \in Nat /\ n5 \in Nat /\ n6 \in Nat /\ n7 \in Nat /\ nv \in Nat
        BY <3>2
      <3>7. old = n0 + n1 + n2 + n3 + n4 + n5 + n6 + n7 /\ new = n0 + n1 + nv + n3 + n4 + n5 + n6 + n7
        BY <3>3, <3>5
      <3> HIDE DEF n0, n1, n2, n3, n4, n5, n6, n7, old, new, nv
      <3>8. new + n2 = old + nv
        BY <3>6, <3>7
      <3> QED
        BY <3>8 DEF n0, n1, n2, n3, n4, n5, n6, n7, old, new, nv
    <2>8. FreePart(part, c[part]) \in Seq(Tokens)
      BY <2>3 DEF ClassParts
    <2>9. d[part] = v /\ d.name = c.name /\ \A q \in PartNames \ {part} : d[q] = c[q]
      BY <2>2, <1>4 DEF PartNames, MemberLists
    <2> QED
      BY <2>3, <2>5, <2>7, <2>8, <2>9
  <1>5. CASE part = "instance_fields"
    <2> DEFINE d == [c EXCEPT !.instance_fields = v]
    <2>1. d = [name |-> c.name, super_class |-> c.super_class, source_file |-> c.source_file, interfaces |-> c.interfaces, annotations |-> c.annotations, static_values |-> c.static_values, static_fields |-> c.static_fields, instance_fields |-> v, direct_methods |-> c.direct_methods, virtual_methods |-> c.virtual_methods]
      <3> DEFINE f0 == c.name
                 f1 == c.super_class
                 f2 == c.source_file
                 f3 == c.interfaces
                 f4 == c.annotations
                 f5 == c.static_values
                 f6 == c.static_fields
                 f7 == c.instance_fields
                 f8 == c.direct_methods
                 f9 == c.virtual_methods
      <3>1. c = [name |-> f0, super_class |-> f1, source_file |-> f2, interfaces |-> f3, annotations |-> f4, static_values |-> f5, static_fields |-> f6, instance_fields |-> f7, direct_methods |-> f8, virtual_methods |-> f9]
        BY DEF ClassParts
      <3> HIDE DEF f0, f1, f2, f3, f4, f5, f6, f7, f8, f9
      <3>2. d = [name |-> f0, super_class |-> f1, source_file |-> f2, interfaces |-> f3, annotations |-> f4, static_values |-> f5, static_fields |-> f6, instance_fields |-> v, direct_methods |-> f8, virtual_methods |-> f9]
        BY <3>1
      <3> QED
        BY <3>2 DEF f0, f1, f2, f3, f4, f5, f6, f7, f8, f9
    <2>2. d.instance_fields = v /\ d.name = c.name /\ d.super_class = c.super_class /\ d.source_file = c.source_file /\ d.interfaces = c.interfaces /\ d.annotations = c.annotations /\ d.static_values = c.static_values /\ d.static_fields = c.static_fields /\ d.direct_methods = c.direct_methods /\ d.virtual_methods = c.virtual_methods
      BY <2>1
    <2>3. dd = d /\ FreePart(part, v) = FreeFields(v) /\ FreePart(part, c[part]) = FreeFields(c.instance_fields)
      BY <1>5 DEF FreePart, PartSet
    <2>4. d = [name |-> d.name, super_class |-> d.super_class, source_file |-> d.source_file, interfaces |-> d.interfaces, annotations |-> d.annotations, static_values |-> d.static_values, static_fields |-> d.static_fields, instance_fields |-> d.instance_fields, direct_methods |-> d.direct_methods, virtual_methods |-> d.virtual_methods]
      BY <2>1, <2>2
    <2> HIDE DEF d
    <2>5. ClassParts(d)
      BY <2>2, <2>3, <2>4 DEF ClassParts
    <2>6. FreeNames(d) = FreeNames(c)
      BY <2>2 DEF FreeNames
    <2>7. ASSUME NEW x
          PROVE  Occurrences(FreeClass(d), x) + Occurrences(FreeFields(c.instance_fields), x)
                    = Occurrences(FreeClass(c), x) + Occurrences(FreeFields(v), x)
      <3>1. /\ FreeFields(c.instance_fields) \in Seq(Tokens) /\ FreeFields(v) \in Seq(Tokens)
            /\ FreeAnnotations(c.annotations) \in Seq(Tokens) /\ FreeValues(c.static_values) \in Seq(Tokens) /\ FreeFields(c.static_fields) \in Seq(Tokens) /\ FreeFields(c.instance_fields) \in Seq(Tokens) /\ FreeMethods(c.direct_methods) \in Seq(Tokens) /\ FreeMethods(c.virtual_methods) \in Seq(Tokens) /\ FreeNames(c) \in Seq(Tokens) /\ FreeStrstr(c.interfaces) \in Seq(Tokens)
        BY <2>3, NamesTokens DEF ClassParts
      <3>2. /\ Occurrences(FreeFields(v), x) \in Nat
            /\ Occurrences(FreeAnnotations(c.annotations), x) \in Nat
            /\ Occurrences(FreeValues(c.static_values), x) \in Nat
            /\ Occurrences(FreeFields(c.static_fields), x) \in Nat
            /\ Occurrences(FreeFields(c.instance_fields), x) \in Nat
            /\ Occurrences(FreeMethods(c.direct_methods), x) \in Nat
            /\ Occurrences(FreeMethods(c.virtual_methods), x) \in Nat
            /\ Occurrences(FreeNames(c), x) \in Nat
            /\ Occurrences(FreeStrstr(c.interfaces), x) \in Nat
        BY <3>1, OccNat
      <3>3. Occurrences(FreeClass(c), x) = Occurrences(FreeAnnotations(c.annotations), x) + Occurrences(FreeValues(c.static_values), x) + Occurrences(FreeFields(c.static_fields), x) + Occurrences(FreeFields(c.instance_fields), x) + Occurrences(FreeMethods(c.direct_methods), x) + Occurrences(FreeMethods(c.virtual_methods), x) + Occurrences(FreeNames(c), x) + Occurrences(FreeStrstr(c.interfaces), x)
        BY ClassSum
      <3>4. Occurrences(FreeClass(d), x) = Occurrences(FreeAnnotations(d.annotations), x) + Occurrences(FreeValues(d.static_values), x) + Occurrences(FreeFields(d.static_fields), x) + Occurrences(FreeFields(d.instance_fields), x) + Occurrences(FreeMethods(d.direct_methods), x) + Occurrences(FreeMethods(d.virtual_methods), x) + Occurrences(FreeNames(d), x) + Occurrences(FreeStrstr(d.interfaces), x)
        BY <2>5, ClassSum
      <3>5. Occurrences(FreeClass(d), x) = Occurrences(FreeAnnotations(c.annotations), x) + Occurrences(FreeValues(c.static_values), x) + Occurrences(FreeFields(c.static_fields), x) + Occurrences(FreeFields(v), x) + Occurrences(FreeMethods(c.direct_methods), x) + Occurrences(FreeMethods(c.virtual_methods), x) + Occurrences(FreeNames(c), x) + Occurrences(FreeStrstr(c.interfaces), x)
        BY <3>4, <2>2, <2>6
      <3> DEFINE n0 == Occurrences(FreeAnnotations(c.annotations), x)
                 n1 == Occurrences(FreeValues(c.static_values), x)
                 n2 == Occurrences(FreeFields(c.static_fields), x)
                 n3 == Occurrences(FreeFields(c.instance_fields), x)
                 n4 == Occurrences(FreeMethods(c.direct_methods), x)
                 n5 == Occurrences(FreeMethods(c.virtual_methods), x)
                 n6 == Occurrences(FreeNames(c), x)
                 n7 == Occurrences(FreeStrstr(c.interfaces), x)
                 old == Occurrences(FreeClass(c), x)
                 new == Occurrences(FreeClass(d), x)
                 nv == Occurrences(FreeFields(v), x)
      <3>6. n0 \in Nat /\ n1 \in Nat /\ n2 \in Nat /\ n3 \in Nat /\ n4 \in Nat /\ n5 \in Nat /\ n6 \in Nat /\ n7 \in Nat /\ nv \in Nat
        BY <3>2
      <3>7. old = n0 + n1 + n2 + n3 + n4 + n5 + n6 + n7 /\ new = n0 + n1 + n2 + nv + n4 + n5 + n6 + n7
        BY <3>3, <3>5
      <3> HIDE DEF n0, n1, n2, n3, n4, n5, n6, n7, old, new, nv
      <3>8. new + n3 = old + nv
        BY <3>6, <3>7
      <3> QED
        BY <3>8 DEF n0, n1, n2, n3, n4, n5, n6, n7, old, new, nv
    <2>8. FreePart(part, c[part]) \in Seq(Tokens)
      BY <2>3 DEF ClassParts
    <2>9. d[part] = v /\ d.name = c.name /\ \A q \in PartNames \ {part} : d[q] = c[q]
      BY <2>2, <1>5 DEF PartNames, MemberLists
    <2> QED
      BY <2>3, <2>5, <2>7, <2>8, <2>9
  <1>6. CASE part = "direct_methods"
    <2> DEFINE d == [c EXCEPT !.direct_methods = v]
    <2>1. d = [name |-> c.name, super_class |-> c.super_class, source_file |-> c.source_file, interfaces |-> c.interfaces, annotations |-> c.annotations, static_values |-> c.static_values, static_fields |-> c.static_fields, instance_fields |-> c.instance_fields, direct_methods |-> v, virtual_methods |-> c.virtual_methods]
      <3> DEFINE f0 == c.name
                 f1 == c.super_class
                 f2 == c.source_file
                 f3 == c.interfaces
                 f4 == c.annotations
                 f5 == c.static_values
                 f6 == c.static_fields
                 f7 == c.instance_fields
                 f8 == c.direct_methods
                 f9 == c.virtual_methods
      <3>1. c = [name |-> f0, super_class |-> f1, source_file |-> f2, interfaces |-> f3, annotations |-> f4, static_values |-> f5, static_fields |-> f6, instance_fields |-> f7, direct_methods |-> f8, virtual_methods |-> f9]
        BY DEF ClassParts
      <3> HIDE DEF f0, f1, f2, f3, f4, f5, f6, f7, f8, f9
      <3>2. d = [name |-> f0, super_class |-> f1, source_file |-> f2, interfaces |-> f3, annotations |-> f4, static_values |-> f5, static_fields |-> f6, instance_fields |-> f7, direct_methods |-> v, virtual_methods |-> f9]
        BY <3>1
      <3> QED
        BY <3>2 DEF f0, f1, f2, f3, f4, f5, f6, f7, f8, f9
    <2>2. d.direct_methods = v /\ d.name = c.name /\ d.super_class = c.super_class /\ d.source_file = c.source_file /\ d.interfaces = c.interfaces /\ d.annotations = c.annotations /\ d.static_values = c.static_values /\ d.static_fields = c.static_fields /\ d.instance_fields = c.instance_fields /\ d.virtual_methods = c.virtual_methods
      BY <2>1
    <2>3. dd = d /\ FreePart(part, v) = FreeMethods(v) /\ FreePart(part, c[part]) = FreeMethods(c.direct_methods)
      BY <1>6 DEF FreePart, PartSet
    <2>4. d = [name |-> d.name, super_class |-> d.super_class, source_file |-> d.source_file, interfaces |-> d.interfaces, annotations |-> d.annotations, static_values |-> d.static_values, static_fields |-> d.static_fields, instance_fields |-> d.instance_fields, direct_methods |-> d.direct_methods, virtual_methods |-> d.virtual_methods]
      BY <2>1, <2>2
    <2> HIDE DEF d
    <2>5. ClassParts(d)
      BY <2>2, <2>3, <2>4 DEF ClassParts
    <2>6. FreeNames(d) = FreeNames(c)
      BY <2>2 DEF FreeNames
    <2>7. ASSUME NEW x
          PROVE  Occurrences(FreeClass(d), x) + Occurrences(FreeMethods(c.direct_methods), x)
                    = Occurrences(FreeClass(c), x) + Occurrences(FreeMethods(v), x)
      <3>1. /\ FreeMethods(c.direct_methods) \in Seq(Tokens) /\ FreeMethods(v) \in Seq(Tokens)
            /\ FreeAnnotations(c.annotations) \in Seq(Tokens) /\ FreeValues(c.static_values) \in Seq(Tokens) /\ FreeFields(c.static_fields) \in Seq(Tokens) /\ FreeFields(c.instance_fields) \in Seq(Tokens) /\ FreeMethods(c.direct_methods) \in Seq(Tokens) /\ FreeMethods(c.virtual_methods) \in Seq(Tokens) /\ FreeNames(c) \in Seq(Tokens) /\ FreeStrstr(c.interfaces) \in Seq(Tokens)
        BY <2>3, NamesTokens DEF ClassParts
      <3>2. /\ Occurrences(FreeMethods(v), x) \in Nat
            /\ Occurrences(FreeAnnotations(c.annotations), x) \in Nat
            /\ Occurrences(FreeValues(c.static_values), x) \in Nat
            /\ Occurrences(FreeFields(c.static_fields), x) \in Nat
            /\ Occurrences(FreeFields(c.instance_fields), x) \in Nat
            /\ Occurrences(FreeMethods(c.direct_methods), x) \in Nat
            /\ Occurrences(FreeMethods(c.virtual_methods), x) \in Nat
            /\ Occurrences(FreeNames(c), x) \in Nat
            /\ Occurrences(FreeStrstr(c.interfaces), x) \in Nat
        BY <3>1, OccNat
      <3>3. Occurrences(FreeClass(c), x) = Occurrences(FreeAnnotations(c.annotations), x) + Occurrences(FreeValues(c.static_values), x) + Occurrences(FreeFields(c.static_fields), x) + Occurrences(FreeFields(c.instance_fields), x) + Occurrences(FreeMethods(c.direct_methods), x) + Occurrences(FreeMethods(c.virtual_methods), x) + Occurrences(FreeNames(c), x) + Occurrences(FreeStrstr(c.interfaces), x)
        BY ClassSum
      <3>4. Occurrences(FreeClass(d), x) = Occurrences(FreeAnnotations(d.annotations), x) + Occurrences(FreeValues(d.static_values), x) + Occurrences(FreeFields(d.static_fields), x) + Occurrences(FreeFields(d.instance_fields), x) + Occurrences(FreeMethods(d.direct_methods), x) + Occurrences(FreeMethods(d.virtual_methods), x) + Occurrences(FreeNames(d), x) + Occurrences(FreeStrstr(d.interfaces), x)
        BY <2>5, ClassSum
      <3>5. Occurrences(FreeClass(d), x) = Occurrences(FreeAnnotations(c.annotations), x) + Occurrences(FreeValues(c.static_values), x) + Occurrences(FreeFields(c.static_fields), x) + Occurrences(FreeFields(c.instance_fields), x) + Occurrences(FreeMethods(v), x) + Occurrences(FreeMethods(c.virtual_methods), x) + Occurrences(FreeNames(c), x) + Occurrences(FreeStrstr(c.interfaces), x)
        BY <3>4, <2>2, <2>6
      <3> DEFINE n0 == Occurrences(FreeAnnotations(c.annotations), x)
                 n1 == Occurrences(FreeValues(c.static_values), x)
                 n2 == Occurrences(FreeFields(c.static_fields), x)
                 n3 == Occurrences(FreeFields(c.instance_fields), x)
                 n4 == Occurrences(FreeMethods(c.direct_methods), x)
                 n5 == Occurrences(FreeMethods(c.virtual_methods), x)
                 n6 == Occurrences(FreeNames(c), x)
                 n7 == Occurrences(FreeStrstr(c.interfaces), x)
                 old == Occurrences(FreeClass(c), x)
                 new == Occurrences(FreeClass(d), x)
                 nv == Occurrences(FreeMethods(v), x)
      <3>6. n0 \in Nat /\ n1 \in Nat /\ n2 \in Nat /\ n3 \in Nat /\ n4 \in Nat /\ n5 \in Nat /\ n6 \in Nat /\ n7 \in Nat /\ nv \in Nat
        BY <3>2
      <3>7. old = n0 + n1 + n2 + n3 + n4 + n5 + n6 + n7 /\ new = n0 + n1 + n2 + n3 + nv + n5 + n6 + n7
        BY <3>3, <3>5
      <3> HIDE DEF n0, n1, n2, n3, n4, n5, n6, n7, old, new, nv
      <3>8. new + n4 = old + nv
        BY <3>6, <3>7
      <3> QED
        BY <3>8 DEF n0, n1, n2, n3, n4, n5, n6, n7, old, new, nv
    <2>8. FreePart(part, c[part]) \in Seq(Tokens)
      BY <2>3 DEF ClassParts
    <2>9. d[part] = v /\ d.name = c.name /\ \A q \in PartNames \ {part} : d[q] = c[q]
      BY <2>2, <1>6 DEF PartNames, MemberLists
    <2> QED
      BY <2>3, <2>5, <2>7, <2>8, <2>9
  <1>7. CASE part = "virtual_methods"
    <2> DEFINE d == [c EXCEPT !.virtual_methods = v]
    <2>1. d = [name |-> c.name, super_class |-> c.super_class, source_file |-> c.source_file, interfaces |-> c.interfaces, annotations |-> c.annotations, static_values |-> c.static_values, static_fields |-> c.static_fields, instance_fields |-> c.instance_fields, direct_methods |-> c.direct_methods, virtual_methods |-> v]
      <3> DEFINE f0 == c.name
                 f1 == c.super_class
                 f2 == c.source_file
                 f3 == c.interfaces
                 f4 == c.annotations
                 f5 == c.static_values
                 f6 == c.static_fields
                 f7 == c.instance_fields
                 f8 == c.direct_methods
                 f9 == c.virtual_methods
      <3>1. c = [name |-> f0, super_class |-> f1, source_file |-> f2, interfaces |-> f3, annotations |-> f4, static_values |-> f5, static_fields |-> f6, instance_fields |-> f7, direct_methods |-> f8, virtual_methods |-> f9]
        BY DEF ClassParts
      <3> HIDE DEF f0, f1, f2, f3, f4, f5, f6, f7, f8, f9
      <3>2. d = [name |-> f0, super_class |-> f1, source_file |-> f2, interfaces |-> f3, annotations |-> f4, static_values |-> f5, static_fields |-> f6, instance_fields |-> f7, direct_methods |-> f8, virtual_methods |-> v]
        BY <3>1
      <3> QED
        BY <3>2 DEF f0, f1, f2, f3, f4, f5, f6, f7, f8, f9
    <2>2. d.virtual_methods = v /\ d.name = c.name /\ d.super_class = c.super_class /\ d.source_file = c.source_file /\ d.interfaces = c.interfaces /\ d.annotations = c.annotations /\ d.static_values = c.static_values /\ d.static_fields = c.static_fields /\ d.instance_fields = c.instance_fields /\ d.direct_methods = c.direct_methods
      BY <2>1
    <2>3. dd = d /\ FreePart(part, v) = FreeMethods(v) /\ FreePart(part, c[part]) = FreeMethods(c.virtual_methods)
      BY <1>7 DEF FreePart, PartSet
    <2>4. d = [name |-> d.name, super_class |-> d.super_class, source_file |-> d.source_file, interfaces |-> d.interfaces, annotations |-> d.annotations, static_values |-> d.static_values, static_fields |-> d.static_fields, instance_fields |-> d.instance_fields, direct_methods |-> d.direct_methods, virtual_methods |-> d.virtual_methods]
      BY <2>1, <2>2
    <2> HIDE DEF d
    <2>5. ClassParts(d)
      BY <2>2, <2>3, <2>4 DEF ClassParts
    <2>6. FreeNames(d) = FreeNames(c)
      BY <2>2 DEF FreeNames
    <2>7. ASSUME NEW x
          PROVE  Occurrences(FreeClass(d), x) + Occurrences(FreeMethods(c.virtual_methods), x)
                    = Occurrences(FreeClass(c), x) + Occurrences(FreeMethods(v), x)
      <3>1. /\ FreeMethods(c.virtual_methods) \in Seq(Tokens) /\ FreeMethods(v) \in Seq(Tokens)
            /\ FreeAnnotations(c.annotations) \in Seq(Tokens) /\ FreeValues(c.static_values) \in Seq(Tokens) /\ FreeFields(c.static_fields) \in Seq(Tokens) /\ FreeFields(c.instance_fields) \in Seq(Tokens) /\ FreeMethods(c.direct_methods) \in Seq(Tokens) /\ FreeMethods(c.virtual_methods) \in Seq(Tokens) /\ FreeNames(c) \in Seq(Tokens) /\ FreeStrstr(c.interfaces) \in Seq(Tokens)
        BY <2>3, NamesTokens DEF ClassParts
      <3>2. /\ Occurrences(FreeMethods(v), x) \in Nat
            /\ Occurrences(FreeAnnotations(c.annotations), x) \in Nat
            /\ Occurrences(FreeValues(c.static_values), x) \in Nat
            /\ Occurrences(FreeFields(c.static_fields), x) \in Nat
            /\ Occurrences(FreeFields(c.instance_fields), x) \in Nat
            /\ Occurrences(FreeMethods(c.direct_methods), x) \in Nat
            /\ Occurrences(FreeMethods(c.virtual_methods), x) \in Nat
            /\ Occurrences(FreeNames(c), x) \in Nat
            /\ Occurrences(FreeStrstr(c.interfaces), x) \in Nat
        BY <3>1, OccNat
      <3>3. Occurrences(FreeClass(c), x) = Occurrences(FreeAnnotations(c.annotations), x) + Occurrences(FreeValues(c.static_values), x) + Occurrences(FreeFields(c.static_fields), x) + Occurrences(FreeFields(c.instance_fields), x) + Occurrences(FreeMethods(c.direct_methods), x) + Occurrences(FreeMethods(c.virtual_methods), x) + Occurrences(FreeNames(c), x) + Occurrences(FreeStrstr(c.interfaces), x)
        BY ClassSum
      <3>4. Occurrences(FreeClass(d), x) = Occurrences(FreeAnnotations(d.annotations), x) + Occurrences(FreeValues(d.static_values), x) + Occurrences(FreeFields(d.static_fields), x) + Occurrences(FreeFields(d.instance_fields), x) + Occurrences(FreeMethods(d.direct_methods), x) + Occurrences(FreeMethods(d.virtual_methods), x) + Occurrences(FreeNames(d), x) + Occurrences(FreeStrstr(d.interfaces), x)
        BY <2>5, ClassSum
      <3>5. Occurrences(FreeClass(d), x) = Occurrences(FreeAnnotations(c.annotations), x) + Occurrences(FreeValues(c.static_values), x) + Occurrences(FreeFields(c.static_fields), x) + Occurrences(FreeFields(c.instance_fields), x) + Occurrences(FreeMethods(c.direct_methods), x) + Occurrences(FreeMethods(v), x) + Occurrences(FreeNames(c), x) + Occurrences(FreeStrstr(c.interfaces), x)
        BY <3>4, <2>2, <2>6
      <3> DEFINE n0 == Occurrences(FreeAnnotations(c.annotations), x)
                 n1 == Occurrences(FreeValues(c.static_values), x)
                 n2 == Occurrences(FreeFields(c.static_fields), x)
                 n3 == Occurrences(FreeFields(c.instance_fields), x)
                 n4 == Occurrences(FreeMethods(c.direct_methods), x)
                 n5 == Occurrences(FreeMethods(c.virtual_methods), x)
                 n6 == Occurrences(FreeNames(c), x)
                 n7 == Occurrences(FreeStrstr(c.interfaces), x)
                 old == Occurrences(FreeClass(c), x)
                 new == Occurrences(FreeClass(d), x)
                 nv == Occurrences(FreeMethods(v), x)
      <3>6. n0 \in Nat /\ n1 \in Nat /\ n2 \in Nat /\ n3 \in Nat /\ n4 \in Nat /\ n5 \in Nat /\ n6 \in Nat /\ n7 \in Nat /\ nv \in Nat
        BY <3>2
      <3>7. old = n0 + n1 + n2 + n3 + n4 + n5 + n6 + n7 /\ new = n0 + n1 + n2 + n3 + n4 + nv + n6 + n7
        BY <3>3, <3>5
      <3> HIDE DEF n0, n1, n2, n3, n4, n5, n6, n7, old, new, nv
      <3>8. new + n5 = old + nv
        BY <3>6, <3>7
      <3> QED
        BY <3>8 DEF n0, n1, n2, n3, n4, n5, n6, n7, old, new, nv
    <2>8. FreePart(part, c[part]) \in Seq(Tokens)
      BY <2>3 DEF ClassParts
    <2>9. d[part] = v /\ d.name = c.name /\ \A q \in PartNames \ {part} : d[q] = c[q]
      BY <2>2, <1>7 DEF PartNames, MemberLists
    <2> QED
      BY <2>3, <2>5, <2>7, <2>8, <2>9
  <1> QED
    BY <1>1, <1>2, <1>3, <1>4, <1>5, <1>6, <1>7 DEF PartNames, MemberLists

(* A part that has not been read holds nothing.                            *)
LEMMA PartNull ==
  ASSUME NEW part \in PartNames
  PROVE  FreePart(part, NULL) = << >>
  BY DEF PartNames, MemberLists, FreePart, FreeAnnotations, FreeValues, FreeValuesBy, FreeStrstr, FreeFields, FreeMethods,
         FreeArray

(* The arrays of the context, by their elements.                           *)
FreeClassArray(s) == FreeWhole(s, FreeClass, "classes")

(* The tables of members without their blocks.                             *)
FreeRawFieldArray(s) == FreeWhole(s, FreeRawField, "raw_fields")
FreeRawMethodArray(s) == FreeWhole(s, FreeRawMethod, "raw_methods")

(* t is s with new at j; z is n times v.                                   *)
Updated(s, t, j, new) ==
  /\ IsList(t) /\ Len(t) = Len(s) /\ t[j] = new
  /\ \A i \in 1..Len(s) : i # j => t[i] = s[i]

(* A list of n copies of v.                                                *)
Filled(z, n, v) == IsList(z) /\ Len(z) = n /\ \A i \in 1..n : z[i] = v

(* A list one element of which is replaced.                                *)
LEMMA UpdatedExcept ==
  ASSUME NEW s, IsList(s), NEW j \in 1..Len(s), NEW new
  PROVE  Updated(s, [s EXCEPT ![j] = new], j, new)
  <1> DEFINE t == [s EXCEPT ![j] = new]
  <1>1. DOMAIN s = 1..Len(s) /\ Len(s) \in Nat
    BY ListFacts
  <1>2. t = [i \in 1..Len(s) |-> t[i]] /\ t[j] = new /\ \A i \in 1..Len(s) : i # j => t[i] = s[i]
    BY <1>1
  <1> HIDE DEF t
  <1>3. IsList(t) /\ Len(t) = Len(s)
    BY <1>1, <1>2, ListOf
  <1>4. Updated(s, t, j, new)
    BY <1>2, <1>3 DEF Updated
  <1> QED
    BY <1>4 DEF t

(* A list filled with one element.                                         *)
LEMMA FilledFun ==
  ASSUME NEW n \in Nat, NEW v
  PROVE  Filled([i \in 1..n |-> v], n, v)
  <1> DEFINE z == [i \in 1..n |-> v]
  <1>1. IsList(z) /\ Len(z) = n /\ \A i \in 1..n : z[i] = v
    BY ListOf
  <1> HIDE DEF z
  <1>2. Filled(z, n, v)
    BY <1>1 DEF Filled
  <1> QED
    BY <1>2 DEF z

(* Parts that are all empty.                                               *)
LEMMA FlattenEmpty ==
  ASSUME NEW tt \in Seq(Seq(Tokens)), \A i \in 1..Len(tt) : tt[i] = << >>
  PROVE  FlattenSeq(tt) \in Seq(Tokens) /\ \A x : Occurrences(FlattenSeq(tt), x) = 0
  <1> DEFINE ss == << >>
  <1>1. ss \in Seq(Seq(Tokens))
    OBVIOUS
  <1>2. ASSUME NEW k \in Nat \ {0} PROVE Paid(PartOf(ss, k), PartOf(tt, k), TRUE)
    <2>1. PartOf(ss, k) = << >> /\ PartOf(tt, k) = << >>
      BY DEF PartOf
    <2> QED
      BY <2>1, NoTokens
  <1>3. Paid(FlattenSeq(ss), FlattenSeq(tt), TRUE)
    <2> HIDE DEF ss
    <2> QED
      BY <1>1, <1>2, FlattenPaid
  <1>4. FlattenSeq(ss) = << >>
    <2>1. ss \in Seq(Seq(Tokens)) /\ Len(ss) = 0
      BY <1>1
    <2> QED
      BY <2>1 DEF FlattenSeq
  <1>5. ASSUME NEW x PROVE Occurrences(FlattenSeq(tt), x) = 0
    BY <1>3, <1>4, OccEmpty DEF Paid
  <1> QED
    BY <1>3, <1>5 DEF Paid

(* An array of the context is freed by its size.                           *)
LEMMA ClassesFree ==
  ASSUME NullApart, NEW s, IsList(s), \A i \in 1..Len(s) : FreeClass(s[i]) \in Seq(Tokens)
  PROVE  LET tt == [i \in DOMAIN s |-> FreeClass(s[i])]
         IN  /\ FreeClassArray(s) = FlattenSeq(tt) \o <<Block("classes")>>
             /\ IsList(tt) /\ Len(tt) = Len(s) /\ tt \in Seq(Seq(Tokens))
             /\ \A i \in 1..Len(s) : tt[i] = FreeClass(s[i])
             /\ FreeClassArray(s) \in Seq(Tokens)
             /\ \A x : Occurrences(FreeClassArray(s), x)
                        = Occurrences(FlattenSeq(tt), x) + Occurrences(<<Block("classes")>>, x)
  <1> DEFINE tt == [i \in DOMAIN s |-> FreeClass(s[i])]
             ends == {i \in DOMAIN s : FALSE}
  <1>1. DOMAIN s = 1..Len(s) /\ Len(s) \in Nat /\ s # NULL
    BY ListFacts, NotNull
  <1>2. IsList(tt) /\ Len(tt) = Len(s) /\ \A i \in 1..Len(s) : tt[i] = FreeClass(s[i])
    BY <1>1, ListOf
  <1>3. tt \in Seq(Seq(Tokens))
    <2> HIDE DEF tt
    <2>1. \A i \in 1..Len(tt) : tt[i] \in Seq(Tokens)
      BY <1>2
    <2> QED
      BY <1>2, <2>1, ListIn
  <1>4. ends = {} /\ UpTo(tt, ends) = tt
    BY DEF UpTo
  <1>5. FreeClassArray(s) = FlattenSeq(tt) \o <<Block("classes")>>
    BY <1>1, <1>4 DEF FreeWhole, FreeArray, FreeClassArray
  <1> HIDE DEF tt
  <1>6. Block("classes") \in Tokens
    BY BlockToken DEF Kinds
  <1>7. FlattenSeq(tt) \in Seq(Tokens) /\ <<Block("classes")>> \in Seq(Tokens)
    <2>1. FlattenSeq(tt) \in Seq(Tokens)
      BY <1>3, OccFlatten
    <2>2. <<Block("classes")>> \in Seq(Tokens)
      BY <1>6
    <2> QED
      BY <2>1, <2>2
  <1>8. FlattenSeq(tt) \o <<Block("classes")>> \in Seq(Tokens)
        /\ \A x : Occurrences(FlattenSeq(tt) \o <<Block("classes")>>, x)
                   = Occurrences(FlattenSeq(tt), x) + Occurrences(<<Block("classes")>>, x)
    BY <1>7, OccSum
  <1> QED
    BY <1>2, <1>3, <1>5, <1>8 DEF tt

(* One class of the array is replaced.                                     *)
LEMMA ClassesChange ==
  ASSUME NullApart, NEW s, IsList(s), \A i \in 1..Len(s) : FreeClass(s[i]) \in Seq(Tokens),
         NEW j \in 1..Len(s), NEW new, FreeClass(new) \in Seq(Tokens), NEW t, Updated(s, t, j, new)
  PROVE      /\ FreeClassArray(t) \in Seq(Tokens)
             /\ \A x : Occurrences(FreeClassArray(t), x) + Occurrences(FreeClass(s[j]), x)
                        = Occurrences(FreeClassArray(s), x) + Occurrences(FreeClass(new), x)
  <1> DEFINE ss == [i \in DOMAIN s |-> FreeClass(s[i])]
             tt == [i \in DOMAIN t |-> FreeClass(t[i])]
  <1>1. DOMAIN s = 1..Len(s) /\ Len(s) \in Nat
    BY ListFacts
  <1>2. t[j] = new /\ \A i \in 1..Len(s) : i # j => t[i] = s[i]
    BY DEF Updated
  <1>3. IsList(t) /\ Len(t) = Len(s)
    BY DEF Updated
  <1>4. \A i \in 1..Len(t) : FreeClass(t[i]) \in Seq(Tokens)
    BY <1>2, <1>3
  <1>5. /\ IsList(ss) /\ Len(ss) = Len(s) /\ ss \in Seq(Seq(Tokens))
        /\ \A i \in 1..Len(s) : ss[i] = FreeClass(s[i])
        /\ \A x : Occurrences(FreeClassArray(s), x)
                        = Occurrences(FlattenSeq(ss), x) + Occurrences(<<Block("classes")>>, x)
    BY ClassesFree
  <1>6. /\ IsList(tt) /\ Len(tt) = Len(t) /\ tt \in Seq(Seq(Tokens))
        /\ \A i \in 1..Len(t) : tt[i] = FreeClass(t[i])
        /\ FreeClassArray(t) \in Seq(Tokens)
        /\ \A x : Occurrences(FreeClassArray(t), x)
                        = Occurrences(FlattenSeq(tt), x) + Occurrences(<<Block("classes")>>, x)
    BY <1>3, <1>4, ClassesFree
  <1> HIDE DEF ss, tt
  <1>7. DOMAIN ss = 1..Len(s) /\ DOMAIN tt = 1..Len(s)
    BY <1>3, <1>5, <1>6, ListFacts
  <1>8. \A i \in DOMAIN ss : i # j => tt[i] = ss[i]
    BY <1>2, <1>3, <1>5, <1>6, <1>7
  <1>9. ss[j] = FreeClass(s[j]) /\ tt[j] = FreeClass(new) /\ j \in DOMAIN ss
    BY <1>2, <1>3, <1>5, <1>6, <1>7
  <1>10. ASSUME NEW x
         PROVE  Occurrences(FreeClassArray(t), x) + Occurrences(FreeClass(s[j]), x)
                        = Occurrences(FreeClassArray(s), x) + Occurrences(FreeClass(new), x)
    <2>1. Occurrences(FlattenSeq(tt), x) + Occurrences(ss[j], x)
            = Occurrences(FlattenSeq(ss), x) + Occurrences(tt[j], x)
      BY <1>5, <1>6, <1>7, <1>8, <1>9, FlattenChange
    <2>2. FlattenSeq(tt) \in Seq(Tokens) /\ FlattenSeq(ss) \in Seq(Tokens)
          /\ ss[j] \in Seq(Tokens) /\ tt[j] \in Seq(Tokens)
      BY <1>5, <1>6, <1>9, OccFlatten
    <2>3. <<Block("classes")>> \in Seq(Tokens)
      BY BlockToken DEF Kinds
    <2> DEFINE a == Occurrences(FlattenSeq(tt), x)
               b == Occurrences(FlattenSeq(ss), x)
               d == Occurrences(ss[j], x)
               e == Occurrences(tt[j], x)
               f == Occurrences(<<Block("classes")>>, x)
    <2>4. a \in Nat /\ b \in Nat /\ d \in Nat /\ e \in Nat /\ f \in Nat
      BY <2>2, <2>3, OccNat
    <2>5. a + d = b + e
      BY <2>1
    <2> HIDE DEF a, b, d, e, f
    <2>6. (a + f) + d = (b + f) + e
      BY <2>4, <2>5
    <2> QED
      BY <2>6, <1>5, <1>6, <1>9 DEF a, b, d, e, f
  <1> QED
    BY <1>2, <1>3, <1>6, <1>10

(* An array of the context is freed by its size.                           *)
LEMMA RawFieldsFree ==
  ASSUME NullApart, NEW s, IsList(s), \A i \in 1..Len(s) : FreeRawField(s[i]) \in Seq(Tokens)
  PROVE  LET tt == [i \in DOMAIN s |-> FreeRawField(s[i])]
         IN  /\ FreeRawFieldArray(s) = FlattenSeq(tt) \o <<Block("raw_fields")>>
             /\ IsList(tt) /\ Len(tt) = Len(s) /\ tt \in Seq(Seq(Tokens))
             /\ \A i \in 1..Len(s) : tt[i] = FreeRawField(s[i])
             /\ FreeRawFieldArray(s) \in Seq(Tokens)
             /\ \A x : Occurrences(FreeRawFieldArray(s), x)
                        = Occurrences(FlattenSeq(tt), x) + Occurrences(<<Block("raw_fields")>>, x)
  <1> DEFINE tt == [i \in DOMAIN s |-> FreeRawField(s[i])]
             ends == {i \in DOMAIN s : FALSE}
  <1>1. DOMAIN s = 1..Len(s) /\ Len(s) \in Nat /\ s # NULL
    BY ListFacts, NotNull
  <1>2. IsList(tt) /\ Len(tt) = Len(s) /\ \A i \in 1..Len(s) : tt[i] = FreeRawField(s[i])
    BY <1>1, ListOf
  <1>3. tt \in Seq(Seq(Tokens))
    <2> HIDE DEF tt
    <2>1. \A i \in 1..Len(tt) : tt[i] \in Seq(Tokens)
      BY <1>2
    <2> QED
      BY <1>2, <2>1, ListIn
  <1>4. ends = {} /\ UpTo(tt, ends) = tt
    BY DEF UpTo
  <1>5. FreeRawFieldArray(s) = FlattenSeq(tt) \o <<Block("raw_fields")>>
    BY <1>1, <1>4 DEF FreeWhole, FreeArray, FreeRawFieldArray
  <1> HIDE DEF tt
  <1>6. Block("raw_fields") \in Tokens
    BY BlockToken DEF Kinds
  <1>7. FlattenSeq(tt) \in Seq(Tokens) /\ <<Block("raw_fields")>> \in Seq(Tokens)
    <2>1. FlattenSeq(tt) \in Seq(Tokens)
      BY <1>3, OccFlatten
    <2>2. <<Block("raw_fields")>> \in Seq(Tokens)
      BY <1>6
    <2> QED
      BY <2>1, <2>2
  <1>8. FlattenSeq(tt) \o <<Block("raw_fields")>> \in Seq(Tokens)
        /\ \A x : Occurrences(FlattenSeq(tt) \o <<Block("raw_fields")>>, x)
                   = Occurrences(FlattenSeq(tt), x) + Occurrences(<<Block("raw_fields")>>, x)
    BY <1>7, OccSum
  <1> QED
    BY <1>2, <1>3, <1>5, <1>8 DEF tt

(* One field of the array is replaced.                                     *)
LEMMA RawFieldsChange ==
  ASSUME NullApart, NEW s, IsList(s), \A i \in 1..Len(s) : FreeRawField(s[i]) \in Seq(Tokens),
         NEW j \in 1..Len(s), NEW new, FreeRawField(new) \in Seq(Tokens), NEW t, Updated(s, t, j, new)
  PROVE      /\ FreeRawFieldArray(t) \in Seq(Tokens)
             /\ \A x : Occurrences(FreeRawFieldArray(t), x) + Occurrences(FreeRawField(s[j]), x)
                        = Occurrences(FreeRawFieldArray(s), x) + Occurrences(FreeRawField(new), x)
  <1> DEFINE ss == [i \in DOMAIN s |-> FreeRawField(s[i])]
             tt == [i \in DOMAIN t |-> FreeRawField(t[i])]
  <1>1. DOMAIN s = 1..Len(s) /\ Len(s) \in Nat
    BY ListFacts
  <1>2. t[j] = new /\ \A i \in 1..Len(s) : i # j => t[i] = s[i]
    BY DEF Updated
  <1>3. IsList(t) /\ Len(t) = Len(s)
    BY DEF Updated
  <1>4. \A i \in 1..Len(t) : FreeRawField(t[i]) \in Seq(Tokens)
    BY <1>2, <1>3
  <1>5. /\ IsList(ss) /\ Len(ss) = Len(s) /\ ss \in Seq(Seq(Tokens))
        /\ \A i \in 1..Len(s) : ss[i] = FreeRawField(s[i])
        /\ \A x : Occurrences(FreeRawFieldArray(s), x)
                        = Occurrences(FlattenSeq(ss), x) + Occurrences(<<Block("raw_fields")>>, x)
    BY RawFieldsFree
  <1>6. /\ IsList(tt) /\ Len(tt) = Len(t) /\ tt \in Seq(Seq(Tokens))
        /\ \A i \in 1..Len(t) : tt[i] = FreeRawField(t[i])
        /\ FreeRawFieldArray(t) \in Seq(Tokens)
        /\ \A x : Occurrences(FreeRawFieldArray(t), x)
                        = Occurrences(FlattenSeq(tt), x) + Occurrences(<<Block("raw_fields")>>, x)
    BY <1>3, <1>4, RawFieldsFree
  <1> HIDE DEF ss, tt
  <1>7. DOMAIN ss = 1..Len(s) /\ DOMAIN tt = 1..Len(s)
    BY <1>3, <1>5, <1>6, ListFacts
  <1>8. \A i \in DOMAIN ss : i # j => tt[i] = ss[i]
    BY <1>2, <1>3, <1>5, <1>6, <1>7
  <1>9. ss[j] = FreeRawField(s[j]) /\ tt[j] = FreeRawField(new) /\ j \in DOMAIN ss
    BY <1>2, <1>3, <1>5, <1>6, <1>7
  <1>10. ASSUME NEW x
         PROVE  Occurrences(FreeRawFieldArray(t), x) + Occurrences(FreeRawField(s[j]), x)
                        = Occurrences(FreeRawFieldArray(s), x) + Occurrences(FreeRawField(new), x)
    <2>1. Occurrences(FlattenSeq(tt), x) + Occurrences(ss[j], x)
            = Occurrences(FlattenSeq(ss), x) + Occurrences(tt[j], x)
      BY <1>5, <1>6, <1>7, <1>8, <1>9, FlattenChange
    <2>2. FlattenSeq(tt) \in Seq(Tokens) /\ FlattenSeq(ss) \in Seq(Tokens)
          /\ ss[j] \in Seq(Tokens) /\ tt[j] \in Seq(Tokens)
      BY <1>5, <1>6, <1>9, OccFlatten
    <2>3. <<Block("raw_fields")>> \in Seq(Tokens)
      BY BlockToken DEF Kinds
    <2> DEFINE a == Occurrences(FlattenSeq(tt), x)
               b == Occurrences(FlattenSeq(ss), x)
               d == Occurrences(ss[j], x)
               e == Occurrences(tt[j], x)
               f == Occurrences(<<Block("raw_fields")>>, x)
    <2>4. a \in Nat /\ b \in Nat /\ d \in Nat /\ e \in Nat /\ f \in Nat
      BY <2>2, <2>3, OccNat
    <2>5. a + d = b + e
      BY <2>1
    <2> HIDE DEF a, b, d, e, f
    <2>6. (a + f) + d = (b + f) + e
      BY <2>4, <2>5
    <2> QED
      BY <2>6, <1>5, <1>6, <1>9 DEF a, b, d, e, f
  <1> QED
    BY <1>2, <1>3, <1>6, <1>10

(* An array of the context is freed by its size.                           *)
LEMMA RawMethodsFree ==
  ASSUME NullApart, NEW s, IsList(s), \A i \in 1..Len(s) : FreeRawMethod(s[i]) \in Seq(Tokens)
  PROVE  LET tt == [i \in DOMAIN s |-> FreeRawMethod(s[i])]
         IN  /\ FreeRawMethodArray(s) = FlattenSeq(tt) \o <<Block("raw_methods")>>
             /\ IsList(tt) /\ Len(tt) = Len(s) /\ tt \in Seq(Seq(Tokens))
             /\ \A i \in 1..Len(s) : tt[i] = FreeRawMethod(s[i])
             /\ FreeRawMethodArray(s) \in Seq(Tokens)
             /\ \A x : Occurrences(FreeRawMethodArray(s), x)
                        = Occurrences(FlattenSeq(tt), x) + Occurrences(<<Block("raw_methods")>>, x)
  <1> DEFINE tt == [i \in DOMAIN s |-> FreeRawMethod(s[i])]
             ends == {i \in DOMAIN s : FALSE}
  <1>1. DOMAIN s = 1..Len(s) /\ Len(s) \in Nat /\ s # NULL
    BY ListFacts, NotNull
  <1>2. IsList(tt) /\ Len(tt) = Len(s) /\ \A i \in 1..Len(s) : tt[i] = FreeRawMethod(s[i])
    BY <1>1, ListOf
  <1>3. tt \in Seq(Seq(Tokens))
    <2> HIDE DEF tt
    <2>1. \A i \in 1..Len(tt) : tt[i] \in Seq(Tokens)
      BY <1>2
    <2> QED
      BY <1>2, <2>1, ListIn
  <1>4. ends = {} /\ UpTo(tt, ends) = tt
    BY DEF UpTo
  <1>5. FreeRawMethodArray(s) = FlattenSeq(tt) \o <<Block("raw_methods")>>
    BY <1>1, <1>4 DEF FreeWhole, FreeArray, FreeRawMethodArray
  <1> HIDE DEF tt
  <1>6. Block("raw_methods") \in Tokens
    BY BlockToken DEF Kinds
  <1>7. FlattenSeq(tt) \in Seq(Tokens) /\ <<Block("raw_methods")>> \in Seq(Tokens)
    <2>1. FlattenSeq(tt) \in Seq(Tokens)
      BY <1>3, OccFlatten
    <2>2. <<Block("raw_methods")>> \in Seq(Tokens)
      BY <1>6
    <2> QED
      BY <2>1, <2>2
  <1>8. FlattenSeq(tt) \o <<Block("raw_methods")>> \in Seq(Tokens)
        /\ \A x : Occurrences(FlattenSeq(tt) \o <<Block("raw_methods")>>, x)
                   = Occurrences(FlattenSeq(tt), x) + Occurrences(<<Block("raw_methods")>>, x)
    BY <1>7, OccSum
  <1> QED
    BY <1>2, <1>3, <1>5, <1>8 DEF tt

(* One method of the array is replaced.                                    *)
LEMMA RawMethodsChange ==
  ASSUME NullApart, NEW s, IsList(s), \A i \in 1..Len(s) : FreeRawMethod(s[i]) \in Seq(Tokens),
         NEW j \in 1..Len(s), NEW new, FreeRawMethod(new) \in Seq(Tokens), NEW t, Updated(s, t, j, new)
  PROVE      /\ FreeRawMethodArray(t) \in Seq(Tokens)
             /\ \A x : Occurrences(FreeRawMethodArray(t), x) + Occurrences(FreeRawMethod(s[j]), x)
                        = Occurrences(FreeRawMethodArray(s), x) + Occurrences(FreeRawMethod(new), x)
  <1> DEFINE ss == [i \in DOMAIN s |-> FreeRawMethod(s[i])]
             tt == [i \in DOMAIN t |-> FreeRawMethod(t[i])]
  <1>1. DOMAIN s = 1..Len(s) /\ Len(s) \in Nat
    BY ListFacts
  <1>2. t[j] = new /\ \A i \in 1..Len(s) : i # j => t[i] = s[i]
    BY DEF Updated
  <1>3. IsList(t) /\ Len(t) = Len(s)
    BY DEF Updated
  <1>4. \A i \in 1..Len(t) : FreeRawMethod(t[i]) \in Seq(Tokens)
    BY <1>2, <1>3
  <1>5. /\ IsList(ss) /\ Len(ss) = Len(s) /\ ss \in Seq(Seq(Tokens))
        /\ \A i \in 1..Len(s) : ss[i] = FreeRawMethod(s[i])
        /\ \A x : Occurrences(FreeRawMethodArray(s), x)
                        = Occurrences(FlattenSeq(ss), x) + Occurrences(<<Block("raw_methods")>>, x)
    BY RawMethodsFree
  <1>6. /\ IsList(tt) /\ Len(tt) = Len(t) /\ tt \in Seq(Seq(Tokens))
        /\ \A i \in 1..Len(t) : tt[i] = FreeRawMethod(t[i])
        /\ FreeRawMethodArray(t) \in Seq(Tokens)
        /\ \A x : Occurrences(FreeRawMethodArray(t), x)
                        = Occurrences(FlattenSeq(tt), x) + Occurrences(<<Block("raw_methods")>>, x)
    BY <1>3, <1>4, RawMethodsFree
  <1> HIDE DEF ss, tt
  <1>7. DOMAIN ss = 1..Len(s) /\ DOMAIN tt = 1..Len(s)
    BY <1>3, <1>5, <1>6, ListFacts
  <1>8. \A i \in DOMAIN ss : i # j => tt[i] = ss[i]
    BY <1>2, <1>3, <1>5, <1>6, <1>7
  <1>9. ss[j] = FreeRawMethod(s[j]) /\ tt[j] = FreeRawMethod(new) /\ j \in DOMAIN ss
    BY <1>2, <1>3, <1>5, <1>6, <1>7
  <1>10. ASSUME NEW x
         PROVE  Occurrences(FreeRawMethodArray(t), x) + Occurrences(FreeRawMethod(s[j]), x)
                        = Occurrences(FreeRawMethodArray(s), x) + Occurrences(FreeRawMethod(new), x)
    <2>1. Occurrences(FlattenSeq(tt), x) + Occurrences(ss[j], x)
            = Occurrences(FlattenSeq(ss), x) + Occurrences(tt[j], x)
      BY <1>5, <1>6, <1>7, <1>8, <1>9, FlattenChange
    <2>2. FlattenSeq(tt) \in Seq(Tokens) /\ FlattenSeq(ss) \in Seq(Tokens)
          /\ ss[j] \in Seq(Tokens) /\ tt[j] \in Seq(Tokens)
      BY <1>5, <1>6, <1>9, OccFlatten
    <2>3. <<Block("raw_methods")>> \in Seq(Tokens)
      BY BlockToken DEF Kinds
    <2> DEFINE a == Occurrences(FlattenSeq(tt), x)
               b == Occurrences(FlattenSeq(ss), x)
               d == Occurrences(ss[j], x)
               e == Occurrences(tt[j], x)
               f == Occurrences(<<Block("raw_methods")>>, x)
    <2>4. a \in Nat /\ b \in Nat /\ d \in Nat /\ e \in Nat /\ f \in Nat
      BY <2>2, <2>3, OccNat
    <2>5. a + d = b + e
      BY <2>1
    <2> HIDE DEF a, b, d, e, f
    <2>6. (a + f) + d = (b + f) + e
      BY <2>4, <2>5
    <2> QED
      BY <2>6, <1>5, <1>6, <1>9 DEF a, b, d, e, f
  <1> QED
    BY <1>2, <1>3, <1>6, <1>10

(* A field of zeros holds nothing and is the sentinel.                     *)
LEMMA ZeroFieldFree ==
  ASSUME NullApart
  PROVE  FreeField(ZeroField) = << >> /\ ZeroField.name = NULL
  <1>1. FreeRefs(<<NULL, NULL>>) = << >>
    <2>1. FreeRef(NULL) = << >> /\ << >> \o << >> = << >>
      BY FreeRefFacts
    <2> QED
      BY <2>1, FreeRefsTwo
  <1>2. FreeAnnotations(NULL) = << >> /\ FreeParameterAnnotations(NULL) = << >>
    BY DEF FreeAnnotations, FreeParameterAnnotations, FreeArray
  <1> QED
    BY <1>1, <1>2 DEF ZeroField, FreeField

(* The loop over a list of members frees those that have been read.        *)
LEMMA FieldsFree ==
  ASSUME NullApart, NEW s, NEW n, FieldList(s, n)
  PROVE  LET tt == [i \in DOMAIN s |-> FreeField(s[i])]
         IN  /\ IsList(tt) /\ Len(tt) = Len(s) /\ tt \in Seq(Seq(Tokens))
             /\ \A i \in 1..Len(s) : tt[i] = FreeField(s[i])
             /\ FreeFields(s) \in Seq(Tokens)
             /\ \A x : Occurrences(FreeFields(s), x)
                        = Occurrences(FlattenSeq(tt), x) + Occurrences(<<Block("fields")>>, x)
  <1> DEFINE tt == [i \in DOMAIN s |-> FreeField(s[i])]
             ends == {i \in DOMAIN s : s[i].name = NULL}
  <1>0. IsList(s) /\ n \in 0..Len(s)
    BY DEF FieldList
  <1>1. DOMAIN s = 1..Len(s) /\ Len(s) \in Nat /\ s # NULL
    BY <1>0, ListFacts, NotNull
  <1>2. IsList(tt) /\ Len(tt) = Len(s) /\ \A i \in 1..Len(s) : tt[i] = FreeField(s[i])
    BY <1>1, ListOf
  <1>3. FreeFields(s) = FlattenSeq(UpTo(tt, ends)) \o <<Block("fields")>>
    BY <1>1 DEF FreeFields, FreeArray
  <1>4. ASSUME NEW i \in 1..Len(s)
        PROVE  /\ tt[i] \in Seq(Tokens)
               /\ s[i].name = NULL => ~(i <= n)
               /\ ~(i <= n) => tt[i] = << >>
    <2>1. CASE i <= n
      BY <1>2, <2>1 DEF FieldList
    <2>2. CASE ~(i <= n)
      <3>1. s[i] = ZeroField
        BY <2>2 DEF FieldList
      <3> QED
        BY <2>2, <3>1, <1>2, ZeroFieldFree, NoTokens
    <2> QED
      BY <2>1, <2>2
  <1>5. DOMAIN tt = 1..Len(s) /\ ends \in SUBSET DOMAIN tt
    BY <1>1
  <1>6. \A e \in ends : ~(e <= n) /\ e \in 1..Len(s)
    BY <1>1, <1>4
  <1> HIDE DEF tt, ends
  <1>7. tt \in Seq(Seq(Tokens))
    <2>1. \A i \in 1..Len(tt) : tt[i] \in Seq(Tokens)
      BY <1>2, <1>4
    <2> QED
      BY <1>2, <2>1, ListIn
  <1>8. \A e \in ends : \A k \in DOMAIN tt : e <= k => tt[k] = << >>
    BY <1>0, <1>1, <1>4, <1>5, <1>6
  <1>9. Paid(FlattenSeq(tt), FlattenSeq(UpTo(tt, ends)), TRUE)
    BY <1>5, <1>7, <1>8, FlattenStop
  <1>10. <<Block("fields")>> \in Seq(Tokens)
    BY BlockToken DEF Kinds
  <1>11. ASSUME NEW x
         PROVE  Occurrences(FreeFields(s), x)
                        = Occurrences(FlattenSeq(tt), x) + Occurrences(<<Block("fields")>>, x)
    <2>1. FlattenSeq(UpTo(tt, ends)) \in Seq(Tokens)
          /\ Occurrences(FlattenSeq(UpTo(tt, ends)), x) = Occurrences(FlattenSeq(tt), x)
      BY <1>9 DEF Paid
    <2>2. Occurrences(FlattenSeq(UpTo(tt, ends)) \o <<Block("fields")>>, x)
            = Occurrences(FlattenSeq(UpTo(tt, ends)), x) + Occurrences(<<Block("fields")>>, x)
      BY <1>10, <2>1, OccSum
    <2> QED
      BY <1>3, <2>1, <2>2
  <1>12. FreeFields(s) \in Seq(Tokens)
    BY <1>3, <1>9, <1>10, OccSum DEF Paid
  <1> QED
    BY <1>2, <1>7, <1>11, <1>12 DEF tt

(* One more member.                                                        *)
LEMMA FieldsGrow ==
  ASSUME NullApart, NEW s, NEW n, FieldList(s, n), n < Len(s), NEW new, new.name # NULL,
         FreeField(new) \in Seq(Tokens), NEW t, Updated(s, t, n + 1, new)
  PROVE      /\ FieldList(t, n + 1) /\ Len(t) = Len(s)
             /\ FreeFields(t) \in Seq(Tokens)
             /\ \A x : Occurrences(FreeFields(t), x) = Occurrences(FreeFields(s), x) + Occurrences(FreeField(new), x)
  <1> DEFINE ss == [i \in DOMAIN s |-> FreeField(s[i])]
             tt == [i \in DOMAIN t |-> FreeField(t[i])]
             j == n + 1
  <1>0. IsList(s) /\ n \in 0..Len(s)
    BY DEF FieldList
  <1>1. DOMAIN s = 1..Len(s) /\ Len(s) \in Nat /\ n \in Nat
    BY <1>0, ListFacts
  <1>2. j \in 1..Len(s)
    BY <1>1
  <1>3. t[j] = new /\ \A i \in 1..Len(s) : i # j => t[i] = s[i]
    BY DEF Updated
  <1>4. IsList(t) /\ Len(t) = Len(s)
    BY DEF Updated
  <1>5. ASSUME NEW i \in 1..Len(s)
        PROVE  IF i <= n + 1 THEN t[i].name # NULL /\ FreeField(t[i]) \in Seq(Tokens) ELSE t[i] = ZeroField
    <2>1. CASE i = n + 1
      BY <1>1, <1>3, <2>1
    <2>2. CASE i # n + 1
      <3>1. t[i] = s[i]
        BY <1>3, <2>2
      <3>2. IF i <= n THEN s[i].name # NULL /\ FreeField(s[i]) \in Seq(Tokens) ELSE s[i] = ZeroField
        BY DEF FieldList
      <3>3. i <= n + 1 <=> i <= n
        BY <1>1, <2>2
      <3> QED
        BY <3>1, <3>2, <3>3
    <2> QED
      BY <2>1, <2>2
  <1>6. FieldList(t, n + 1)
    <2>1. n + 1 \in 0..Len(t)
      BY <1>1, <1>4
    <2> QED
      BY <1>4, <1>5, <2>1 DEF FieldList
  <1>7. /\ IsList(ss) /\ Len(ss) = Len(s) /\ ss \in Seq(Seq(Tokens))
        /\ \A i \in 1..Len(s) : ss[i] = FreeField(s[i])
        /\ \A x : Occurrences(FreeFields(s), x)
                        = Occurrences(FlattenSeq(ss), x) + Occurrences(<<Block("fields")>>, x)
    BY FieldsFree
  <1>8. /\ IsList(tt) /\ Len(tt) = Len(t) /\ tt \in Seq(Seq(Tokens))
        /\ \A i \in 1..Len(t) : tt[i] = FreeField(t[i])
        /\ FreeFields(t) \in Seq(Tokens)
        /\ \A x : Occurrences(FreeFields(t), x)
                        = Occurrences(FlattenSeq(tt), x) + Occurrences(<<Block("fields")>>, x)
    BY <1>6, FieldsFree
  <1>9. s[j] = ZeroField
    BY <1>1, <1>2 DEF FieldList
  <1> HIDE DEF ss, tt, j
  <1>10. DOMAIN ss = 1..Len(s) /\ DOMAIN tt = 1..Len(s)
    BY <1>4, <1>7, <1>8, ListFacts
  <1>11. \A i \in DOMAIN ss : i # j => tt[i] = ss[i]
    BY <1>3, <1>4, <1>7, <1>8, <1>10
  <1>12. ss[j] = << >> /\ tt[j] = FreeField(new) /\ j \in DOMAIN ss
    BY <1>2, <1>3, <1>4, <1>7, <1>8, <1>9, <1>10, ZeroFieldFree
  <1>13. ASSUME NEW x
         PROVE  Occurrences(FreeFields(t), x) = Occurrences(FreeFields(s), x) + Occurrences(FreeField(new), x)
    <2>1. Occurrences(FlattenSeq(tt), x) + Occurrences(ss[j], x)
            = Occurrences(FlattenSeq(ss), x) + Occurrences(tt[j], x)
      BY <1>7, <1>8, <1>10, <1>11, <1>12, FlattenChange
    <2>2. FlattenSeq(tt) \in Seq(Tokens) /\ FlattenSeq(ss) \in Seq(Tokens)
          /\ tt[j] \in Seq(Tokens)
      BY <1>7, <1>8, <1>12, OccFlatten
    <2>3. <<Block("fields")>> \in Seq(Tokens)
      BY BlockToken DEF Kinds
    <2> DEFINE a == Occurrences(FlattenSeq(tt), x)
               b == Occurrences(FlattenSeq(ss), x)
               e == Occurrences(tt[j], x)
               f == Occurrences(<<Block("fields")>>, x)
    <2>4. a \in Nat /\ b \in Nat /\ e \in Nat /\ f \in Nat
      BY <2>2, <2>3, OccNat
    <2>5. a = b + e
      BY <2>1, <2>4, <1>12, OccEmpty
    <2> HIDE DEF a, b, e, f
    <2>6. a + f = (b + f) + e
      BY <2>4, <2>5
    <2> QED
      BY <2>6, <1>7, <1>8, <1>12 DEF a, b, e, f
  <1> QED
    BY <1>4, <1>6, <1>8, <1>13 DEF j

(* The array of zeros that a list of members begins as.                    *)
LEMMA FieldsOpen ==
  ASSUME NullApart, NEW n \in Nat, NEW z, Filled(z, n, ZeroField)
  PROVE      /\ FieldList(z, 0) /\ Len(z) = n /\ FreeFields(z) \in Seq(Tokens)
             /\ \A x : Occurrences(FreeFields(z), x) = Occurrences(<<Block("fields")>>, x)
  <1> DEFINE tt == [i \in DOMAIN z |-> FreeField(z[i])]
  <1>1. IsList(z) /\ Len(z) = n /\ \A i \in 1..n : z[i] = ZeroField
    BY DEF Filled
  <1>2. FieldList(z, 0)
    <2>1. 0 \in 0..Len(z)
      BY <1>1
    <2>2. \A i \in 1..Len(z) : ~(i <= 0)
      BY <1>1
    <2> QED
      BY <1>1, <2>1, <2>2 DEF FieldList
  <1>3. /\ Len(tt) = Len(z) /\ tt \in Seq(Seq(Tokens))
        /\ \A i \in 1..Len(z) : tt[i] = FreeField(z[i])
        /\ FreeFields(z) \in Seq(Tokens)
        /\ \A x : Occurrences(FreeFields(z), x)
                        = Occurrences(FlattenSeq(tt), x) + Occurrences(<<Block("fields")>>, x)
    BY <1>2, FieldsFree
  <1> HIDE DEF tt
  <1>4. \A i \in 1..Len(tt) : tt[i] = << >>
    BY <1>1, <1>3, ZeroFieldFree
  <1>5. \A x : Occurrences(FlattenSeq(tt), x) = 0
    BY <1>3, <1>4, FlattenEmpty
  <1>6. <<Block("fields")>> \in Seq(Tokens)
    BY BlockToken DEF Kinds
  <1>7. ASSUME NEW x PROVE Occurrences(FreeFields(z), x) = Occurrences(<<Block("fields")>>, x)
    <2>1. Occurrences(<<Block("fields")>>, x) \in Nat
      BY <1>6, OccNat
    <2> QED
      BY <1>3, <1>5, <2>1
  <1> QED
    BY <1>1, <1>2, <1>3, <1>7

(* A method of zeros holds nothing and is the sentinel.                    *)
LEMMA ZeroMethodFree ==
  ASSUME NullApart
  PROVE  FreeMethod(ZeroMethod) = << >> /\ ZeroMethod.prototype = NULL
  <1>1. FreeRefs(<<NULL, NULL>>) = << >>
    <2>1. FreeRef(NULL) = << >> /\ << >> \o << >> = << >>
      BY FreeRefFacts
    <2> QED
      BY <2>1, FreeRefsTwo
  <1>2. FreeAnnotations(NULL) = << >> /\ FreeParameterAnnotations(NULL) = << >>
    BY DEF FreeAnnotations, FreeParameterAnnotations, FreeArray
  <1> QED
    BY <1>1, <1>2 DEF ZeroMethod, FreeMethod

(* The loop over a list of members frees those that have been read.        *)
LEMMA MethodsFree ==
  ASSUME NullApart, NEW s, NEW n, MethodList(s, n)
  PROVE  LET tt == [i \in DOMAIN s |-> FreeMethod(s[i])]
         IN  /\ IsList(tt) /\ Len(tt) = Len(s) /\ tt \in Seq(Seq(Tokens))
             /\ \A i \in 1..Len(s) : tt[i] = FreeMethod(s[i])
             /\ FreeMethods(s) \in Seq(Tokens)
             /\ \A x : Occurrences(FreeMethods(s), x)
                        = Occurrences(FlattenSeq(tt), x) + Occurrences(<<Block("methods")>>, x)
  <1> DEFINE tt == [i \in DOMAIN s |-> FreeMethod(s[i])]
             ends == {i \in DOMAIN s : s[i].prototype = NULL}
  <1>0. IsList(s) /\ n \in 0..Len(s)
    BY DEF MethodList
  <1>1. DOMAIN s = 1..Len(s) /\ Len(s) \in Nat /\ s # NULL
    BY <1>0, ListFacts, NotNull
  <1>2. IsList(tt) /\ Len(tt) = Len(s) /\ \A i \in 1..Len(s) : tt[i] = FreeMethod(s[i])
    BY <1>1, ListOf
  <1>3. FreeMethods(s) = FlattenSeq(UpTo(tt, ends)) \o <<Block("methods")>>
    BY <1>1 DEF FreeMethods, FreeArray
  <1>4. ASSUME NEW i \in 1..Len(s)
        PROVE  /\ tt[i] \in Seq(Tokens)
               /\ s[i].prototype = NULL => ~(i <= n)
               /\ ~(i <= n) => tt[i] = << >>
    <2>1. CASE i <= n
      BY <1>2, <2>1 DEF MethodList
    <2>2. CASE ~(i <= n)
      <3>1. s[i] = ZeroMethod
        BY <2>2 DEF MethodList
      <3> QED
        BY <2>2, <3>1, <1>2, ZeroMethodFree, NoTokens
    <2> QED
      BY <2>1, <2>2
  <1>5. DOMAIN tt = 1..Len(s) /\ ends \in SUBSET DOMAIN tt
    BY <1>1
  <1>6. \A e \in ends : ~(e <= n) /\ e \in 1..Len(s)
    BY <1>1, <1>4
  <1> HIDE DEF tt, ends
  <1>7. tt \in Seq(Seq(Tokens))
    <2>1. \A i \in 1..Len(tt) : tt[i] \in Seq(Tokens)
      BY <1>2, <1>4
    <2> QED
      BY <1>2, <2>1, ListIn
  <1>8. \A e \in ends : \A k \in DOMAIN tt : e <= k => tt[k] = << >>
    BY <1>0, <1>1, <1>4, <1>5, <1>6
  <1>9. Paid(FlattenSeq(tt), FlattenSeq(UpTo(tt, ends)), TRUE)
    BY <1>5, <1>7, <1>8, FlattenStop
  <1>10. <<Block("methods")>> \in Seq(Tokens)
    BY BlockToken DEF Kinds
  <1>11. ASSUME NEW x
         PROVE  Occurrences(FreeMethods(s), x)
                        = Occurrences(FlattenSeq(tt), x) + Occurrences(<<Block("methods")>>, x)
    <2>1. FlattenSeq(UpTo(tt, ends)) \in Seq(Tokens)
          /\ Occurrences(FlattenSeq(UpTo(tt, ends)), x) = Occurrences(FlattenSeq(tt), x)
      BY <1>9 DEF Paid
    <2>2. Occurrences(FlattenSeq(UpTo(tt, ends)) \o <<Block("methods")>>, x)
            = Occurrences(FlattenSeq(UpTo(tt, ends)), x) + Occurrences(<<Block("methods")>>, x)
      BY <1>10, <2>1, OccSum
    <2> QED
      BY <1>3, <2>1, <2>2
  <1>12. FreeMethods(s) \in Seq(Tokens)
    BY <1>3, <1>9, <1>10, OccSum DEF Paid
  <1> QED
    BY <1>2, <1>7, <1>11, <1>12 DEF tt

(* One more member.                                                        *)
LEMMA MethodsGrow ==
  ASSUME NullApart, NEW s, NEW n, MethodList(s, n), n < Len(s), NEW new, new.prototype # NULL,
         FreeMethod(new) \in Seq(Tokens), NEW t, Updated(s, t, n + 1, new)
  PROVE      /\ MethodList(t, n + 1) /\ Len(t) = Len(s)
             /\ FreeMethods(t) \in Seq(Tokens)
             /\ \A x : Occurrences(FreeMethods(t), x) = Occurrences(FreeMethods(s), x) + Occurrences(FreeMethod(new), x)
  <1> DEFINE ss == [i \in DOMAIN s |-> FreeMethod(s[i])]
             tt == [i \in DOMAIN t |-> FreeMethod(t[i])]
             j == n + 1
  <1>0. IsList(s) /\ n \in 0..Len(s)
    BY DEF MethodList
  <1>1. DOMAIN s = 1..Len(s) /\ Len(s) \in Nat /\ n \in Nat
    BY <1>0, ListFacts
  <1>2. j \in 1..Len(s)
    BY <1>1
  <1>3. t[j] = new /\ \A i \in 1..Len(s) : i # j => t[i] = s[i]
    BY DEF Updated
  <1>4. IsList(t) /\ Len(t) = Len(s)
    BY DEF Updated
  <1>5. ASSUME NEW i \in 1..Len(s)
        PROVE  IF i <= n + 1 THEN t[i].prototype # NULL /\ FreeMethod(t[i]) \in Seq(Tokens) ELSE t[i] = ZeroMethod
    <2>1. CASE i = n + 1
      BY <1>1, <1>3, <2>1
    <2>2. CASE i # n + 1
      <3>1. t[i] = s[i]
        BY <1>3, <2>2
      <3>2. IF i <= n THEN s[i].prototype # NULL /\ FreeMethod(s[i]) \in Seq(Tokens) ELSE s[i] = ZeroMethod
        BY DEF MethodList
      <3>3. i <= n + 1 <=> i <= n
        BY <1>1, <2>2
      <3> QED
        BY <3>1, <3>2, <3>3
    <2> QED
      BY <2>1, <2>2
  <1>6. MethodList(t, n + 1)
    <2>1. n + 1 \in 0..Len(t)
      BY <1>1, <1>4
    <2> QED
      BY <1>4, <1>5, <2>1 DEF MethodList
  <1>7. /\ IsList(ss) /\ Len(ss) = Len(s) /\ ss \in Seq(Seq(Tokens))
        /\ \A i \in 1..Len(s) : ss[i] = FreeMethod(s[i])
        /\ \A x : Occurrences(FreeMethods(s), x)
                        = Occurrences(FlattenSeq(ss), x) + Occurrences(<<Block("methods")>>, x)
    BY MethodsFree
  <1>8. /\ IsList(tt) /\ Len(tt) = Len(t) /\ tt \in Seq(Seq(Tokens))
        /\ \A i \in 1..Len(t) : tt[i] = FreeMethod(t[i])
        /\ FreeMethods(t) \in Seq(Tokens)
        /\ \A x : Occurrences(FreeMethods(t), x)
                        = Occurrences(FlattenSeq(tt), x) + Occurrences(<<Block("methods")>>, x)
    BY <1>6, MethodsFree
  <1>9. s[j] = ZeroMethod
    BY <1>1, <1>2 DEF MethodList
  <1> HIDE DEF ss, tt, j
  <1>10. DOMAIN ss = 1..Len(s) /\ DOMAIN tt = 1..Len(s)
    BY <1>4, <1>7, <1>8, ListFacts
  <1>11. \A i \in DOMAIN ss : i # j => tt[i] = ss[i]
    BY <1>3, <1>4, <1>7, <1>8, <1>10
  <1>12. ss[j] = << >> /\ tt[j] = FreeMethod(new) /\ j \in DOMAIN ss
    BY <1>2, <1>3, <1>4, <1>7, <1>8, <1>9, <1>10, ZeroMethodFree
  <1>13. ASSUME NEW x
         PROVE  Occurrences(FreeMethods(t), x) = Occurrences(FreeMethods(s), x) + Occurrences(FreeMethod(new), x)
    <2>1. Occurrences(FlattenSeq(tt), x) + Occurrences(ss[j], x)
            = Occurrences(FlattenSeq(ss), x) + Occurrences(tt[j], x)
      BY <1>7, <1>8, <1>10, <1>11, <1>12, FlattenChange
    <2>2. FlattenSeq(tt) \in Seq(Tokens) /\ FlattenSeq(ss) \in Seq(Tokens)
          /\ tt[j] \in Seq(Tokens)
      BY <1>7, <1>8, <1>12, OccFlatten
    <2>3. <<Block("methods")>> \in Seq(Tokens)
      BY BlockToken DEF Kinds
    <2> DEFINE a == Occurrences(FlattenSeq(tt), x)
               b == Occurrences(FlattenSeq(ss), x)
               e == Occurrences(tt[j], x)
               f == Occurrences(<<Block("methods")>>, x)
    <2>4. a \in Nat /\ b \in Nat /\ e \in Nat /\ f \in Nat
      BY <2>2, <2>3, OccNat
    <2>5. a = b + e
      BY <2>1, <2>4, <1>12, OccEmpty
    <2> HIDE DEF a, b, e, f
    <2>6. a + f = (b + f) + e
      BY <2>4, <2>5
    <2> QED
      BY <2>6, <1>7, <1>8, <1>12 DEF a, b, e, f
  <1> QED
    BY <1>4, <1>6, <1>8, <1>13 DEF j

(* The array of zeros that a list of members begins as.                    *)
LEMMA MethodsOpen ==
  ASSUME NullApart, NEW n \in Nat, NEW z, Filled(z, n, ZeroMethod)
  PROVE      /\ MethodList(z, 0) /\ Len(z) = n /\ FreeMethods(z) \in Seq(Tokens)
             /\ \A x : Occurrences(FreeMethods(z), x) = Occurrences(<<Block("methods")>>, x)
  <1> DEFINE tt == [i \in DOMAIN z |-> FreeMethod(z[i])]
  <1>1. IsList(z) /\ Len(z) = n /\ \A i \in 1..n : z[i] = ZeroMethod
    BY DEF Filled
  <1>2. MethodList(z, 0)
    <2>1. 0 \in 0..Len(z)
      BY <1>1
    <2>2. \A i \in 1..Len(z) : ~(i <= 0)
      BY <1>1
    <2> QED
      BY <1>1, <2>1, <2>2 DEF MethodList
  <1>3. /\ Len(tt) = Len(z) /\ tt \in Seq(Seq(Tokens))
        /\ \A i \in 1..Len(z) : tt[i] = FreeMethod(z[i])
        /\ FreeMethods(z) \in Seq(Tokens)
        /\ \A x : Occurrences(FreeMethods(z), x)
                        = Occurrences(FlattenSeq(tt), x) + Occurrences(<<Block("methods")>>, x)
    BY <1>2, MethodsFree
  <1> HIDE DEF tt
  <1>4. \A i \in 1..Len(tt) : tt[i] = << >>
    BY <1>1, <1>3, ZeroMethodFree
  <1>5. \A x : Occurrences(FlattenSeq(tt), x) = 0
    BY <1>3, <1>4, FlattenEmpty
  <1>6. <<Block("methods")>> \in Seq(Tokens)
    BY BlockToken DEF Kinds
  <1>7. ASSUME NEW x PROVE Occurrences(FreeMethods(z), x) = Occurrences(<<Block("methods")>>, x)
    <2>1. Occurrences(<<Block("methods")>>, x) \in Nat
      BY <1>6, OccNat
    <2> QED
      BY <1>3, <1>5, <2>1
  <1> QED
    BY <1>1, <1>2, <1>3, <1>7

(* A class of which nothing has been read.                                 *)
LEMMA ZeroClassFree ==
  ASSUME NullApart
  PROVE  ClassParts(ZeroClass) /\ FreeClass(ZeroClass) = << >>
  <1>1. FreeRefs(<<NULL, NULL, NULL>>) = << >>
    <2>1. FreeRef(NULL) = << >> /\ (<< >> \o << >>) \o << >> = << >>
      BY FreeRefFacts
    <2> QED
      BY <2>1, FreeRefsThree
  <1>2. /\ FreeAnnotations(NULL) = << >> /\ FreeValues(NULL) = << >> /\ FreeStrstr(NULL) = << >>
        /\ FreeFields(NULL) = << >> /\ FreeMethods(NULL) = << >>
    BY DEF FreeAnnotations, FreeValues, FreeValuesBy, FreeStrstr, FreeFields, FreeMethods, FreeArray
  <1>3. ClassParts(ZeroClass)
    BY <1>2, NoTokens DEF ZeroClass, ClassParts
  <1>4. << >> \o << >> = << >>
    OBVIOUS
  <1>5. FreeClass(ZeroClass) = << >>
    BY <1>1, <1>2, <1>4 DEF ZeroClass, FreeClass
  <1> QED
    BY <1>3, <1>5

(* The array of zeros that the classes begin as.                           *)
LEMMA ClassesOpen ==
  ASSUME NullApart, NEW n \in Nat, NEW z, Filled(z, n, ZeroClass)
  PROVE      /\ IsList(z) /\ Len(z) = n /\ FreeClassArray(z) \in Seq(Tokens)
             /\ \A x : Occurrences(FreeClassArray(z), x)
                        = Occurrences(<<Block("classes")>>, x)
  <1> DEFINE tt == [i \in DOMAIN z |-> FreeClass(z[i])]
  <1>1. IsList(z) /\ Len(z) = n /\ \A i \in 1..n : z[i] = ZeroClass
    BY DEF Filled
  <1>2. \A i \in 1..Len(z) : FreeClass(z[i]) \in Seq(Tokens)
    BY <1>1, ZeroClassFree, NoTokens
  <1>3. /\ Len(tt) = Len(z) /\ tt \in Seq(Seq(Tokens))
        /\ \A i \in 1..Len(z) : tt[i] = FreeClass(z[i])
        /\ FreeClassArray(z) \in Seq(Tokens)
        /\ \A x : Occurrences(FreeClassArray(z), x)
                        = Occurrences(FlattenSeq(tt), x) + Occurrences(<<Block("classes")>>, x)
    BY <1>1, <1>2, ClassesFree
  <1> HIDE DEF tt
  <1>4. \A i \in 1..Len(tt) : tt[i] = << >>
    BY <1>1, <1>3, ZeroClassFree
  <1>5. \A x : Occurrences(FlattenSeq(tt), x) = 0
    BY <1>3, <1>4, FlattenEmpty
  <1>6. <<Block("classes")>> \in Seq(Tokens)
    BY BlockToken DEF Kinds
  <1>7. ASSUME NEW x PROVE Occurrences(FreeClassArray(z), x) = Occurrences(<<Block("classes")>>, x)
    <2>1. Occurrences(<<Block("classes")>>, x) \in Nat
      BY <1>6, OccNat
    <2> QED
      BY <1>3, <1>5, <2>1
  <1> QED
    BY <1>1, <1>3, <1>7

(* What the steps of a class change in the context.                        *)
Changing(c, x) ==
  Occurrences(FreeRawFields(c), x) + Occurrences(FreeRawMethods(c), x) + Occurrences(FreeClasses(c), x)

(* What d owes for its classes and members is what c owes and took (at     *)
(* most that, if not exact).                                               *)
ChangesBy(c, d, took, exact) ==
  /\ \A x : Changing(d, x) <= Changing(c, x) + Occurrences(took, x)
  /\ exact => \A x : Changing(d, x) = Changing(c, x) + Occurrences(took, x)
GrowsBy(old, new, took, exact) ==
  /\ \A x : Occurrences(new, x) <= Occurrences(old, x) + Occurrences(took, x)
  /\ exact => \A x : Occurrences(new, x) = Occurrences(old, x) + Occurrences(took, x)

(* A table of classes that can be freed.                                   *)
ClassList(cs) == IsList(cs) /\ \A i \in 1..Len(cs) : ClassParts(cs[i])
SameTables(c, d) == d.strs = c.strs /\ d.types = c.types /\ d.protos = c.protos

(* A step that changes the classes and the entries of the sections by what *)
(* it acquired keeps the debt covered.                                     *)
LEMMA ContextChange ==
  ASSUME NEW exact, NEW c, NEW data, NEW prs, NEW bag, Parts(c, data, prs),
         Owes(Debt(c, data, prs), bag, exact), NEW took \in Seq(Tokens),
         NEW d, SameTables(c, d), FreeRawFields(d) \in Seq(Tokens), FreeRawMethods(d) \in Seq(Tokens),
         FreeClasses(d) \in Seq(Tokens), ChangesBy(c, d, took, exact)
  PROVE  Parts(d, data, prs) /\ Owes(Debt(d, data, prs), bag (+) BagOf(took), exact)
  <1>1. FreeStrs(d) = FreeStrs(c) /\ FreeTypes(d) = FreeTypes(c) /\ FreeProtos(d) = FreeProtos(c)
    BY DEF SameTables, FreeStrs, FreeTypes, FreeProtos
  <1>2. Parts(d, data, prs)
    BY <1>1 DEF Parts
  <1>3. ASSUME NEW x
        PROVE  /\ Weight(d, data, prs, x) <= Weight(c, data, prs, x) + Occurrences(took, x)
               /\ exact => Weight(d, data, prs, x) = Weight(c, data, prs, x) + Occurrences(took, x)
    <2> DEFINE s == Occurrences(FreeStrs(c), x)
               t == Occurrences(FreeTypes(c), x)
               p == Occurrences(FreeProtos(c), x)
               f == Occurrences(FreeRawFields(c), x)
               m == Occurrences(FreeRawMethods(c), x)
               k == Occurrences(FreeClasses(c), x)
               f2 == Occurrences(FreeRawFields(d), x)
               m2 == Occurrences(FreeRawMethods(d), x)
               k2 == Occurrences(FreeClasses(d), x)
               e == Occurrences(<<EmptyStr>>, x)
               o == Occurrences(FreeOdexData(data), x)
               q == Occurrences(ContentsOf(prs, DOMAIN prs), x)
               a == Occurrences(took, x)
    <2>1. /\ s \in Nat /\ t \in Nat /\ p \in Nat /\ f \in Nat /\ m \in Nat /\ k \in Nat
          /\ o \in Nat /\ q \in Nat
      BY OccNat DEF Parts
    <2>2. f2 \in Nat /\ m2 \in Nat /\ k2 \in Nat /\ e \in Nat /\ a \in Nat
      BY OccNat, EmptyStrToken
    <2>3. Weight(c, data, prs, x) = (s + t + p + f + m + k) + e + o + q
      BY DEF Weight, TablesWeight
    <2>4. Weight(d, data, prs, x) = (s + t + p + f2 + m2 + k2) + e + o + q
      BY <1>1 DEF Weight, TablesWeight
    <2>5. f2 + m2 + k2 <= (f + m + k) + a /\ (exact => f2 + m2 + k2 = (f + m + k) + a)
      BY DEF Changing, ChangesBy
    <2> HIDE DEF s, t, p, f, m, k, f2, m2, k2, e, o, q, a
    <2>6. /\ (s + t + p + f2 + m2 + k2) + e + o + q <= ((s + t + p + f + m + k) + e + o + q) + a
          /\ exact => (s + t + p + f2 + m2 + k2) + e + o + q = ((s + t + p + f + m + k) + e + o + q) + a
      BY <2>1, <2>2, <2>5
    <2> QED
      BY <2>3, <2>4, <2>6 DEF a
  <1>4. /\ \A x : Weight(d, data, prs, x) <= Weight(c, data, prs, x) + Occurrences(took, x)
        /\ exact => \A x : Weight(d, data, prs, x) = Weight(c, data, prs, x) + Occurrences(took, x)
    BY <1>3
  <1> QED
    BY <1>2, <1>4, StepOwes

(* A class of the context becomes new, with what new acquired.             *)
ClassSet(c, d, j, new) == d = [c EXCEPT !.classes[j] = new]
(* A context one class of which is replaced.                               *)
LEMMA ClassSetFacts ==
  ASSUME NEW c, Context(c), NEW j, NEW new, NEW d, ClassSet(c, d, j, new)
  PROVE  /\ Context(d) /\ SameTables(c, d) /\ d.fields = c.fields /\ d.methods = c.methods
         /\ d.classes = [c.classes EXCEPT ![j] = new]
  <1> DEFINE cs == c.classes
             ds == [cs EXCEPT ![j] = new]
             f1 == c.strs
             f2 == c.types
             f3 == c.protos
             f4 == c.fields
             f5 == c.methods
  <1>1. c = [strs |-> f1, types |-> f2, protos |-> f3, fields |-> f4, methods |-> f5, classes |-> cs]
    BY DEF Context
  <1>2. d = [c EXCEPT !.classes[j] = new]
    BY DEF ClassSet
  <1> HIDE DEF f1, f2, f3, f4, f5, cs
  <1>3. d = [strs |-> f1, types |-> f2, protos |-> f3, fields |-> f4, methods |-> f5, classes |-> ds]
    BY <1>1, <1>2
  <1> HIDE DEF ds
  <1>4. /\ d.strs = f1 /\ d.types = f2 /\ d.protos = f3 /\ d.fields = f4 /\ d.methods = f5
        /\ d.classes = ds
    BY <1>3
  <1>5. d = [strs |-> d.strs, types |-> d.types, protos |-> d.protos, fields |-> d.fields,
             methods |-> d.methods, classes |-> d.classes]
    BY <1>3, <1>4
  <1> QED
    BY <1>4, <1>5 DEF Context, SameTables, f1, f2, f3, f4, f5, cs, ds

(* A class that grows by what was acquired keeps the debt covered.         *)
LEMMA SetClassOwes ==
  ASSUME NullApart, NEW exact, NEW c, NEW data, NEW prs, NEW bag, Parts(c, data, prs),
         Owes(Debt(c, data, prs), bag, exact), NEW took \in Seq(Tokens),
         Context(c), ClassList(c.classes),
         NEW j \in 1..Len(c.classes), NEW new, ClassParts(new),
         GrowsBy(FreeClass(c.classes[j]), FreeClass(new), took, exact),
         NEW d, ClassSet(c, d, j, new)
  PROVE  /\ Parts(d, data, prs) /\ Owes(Debt(d, data, prs), bag (+) BagOf(took), exact)
         /\ Context(d) /\ SameTables(c, d) /\ d.fields = c.fields /\ d.methods = c.methods
         /\ IsList(d.classes) /\ Len(d.classes) = Len(c.classes)
         /\ d.classes[j] = new /\ \A i \in 1..Len(c.classes) : i # j => d.classes[i] = c.classes[i]
  <1> DEFINE cs == c.classes
             ds == [cs EXCEPT ![j] = new]
  <1>0. IsList(cs) /\ (\A i \in 1..Len(cs) : ClassParts(cs[i])) /\ j \in 1..Len(cs)
    BY DEF ClassList
  <1>2. /\ Context(d) /\ SameTables(c, d) /\ d.fields = c.fields /\ d.methods = c.methods
        /\ d.classes = ds
    BY ClassSetFacts
  <1>3. \A i \in 1..Len(cs) : FreeClass(cs[i]) \in Seq(Tokens)
    BY <1>0, ClassSum
  <1>4. FreeClass(new) \in Seq(Tokens)
    BY ClassSum
  <1>5. /\ IsList(ds) /\ Len(ds) = Len(cs) /\ ds[j] = new
        /\ \A i \in 1..Len(cs) : i # j => ds[i] = cs[i]
        /\ FreeClassArray(ds) \in Seq(Tokens)
        /\ \A x : Occurrences(FreeClassArray(ds), x) + Occurrences(FreeClass(cs[j]), x)
                   = Occurrences(FreeClassArray(cs), x) + Occurrences(FreeClass(new), x)
    <2>1. Updated(cs, ds, j, new)
      BY <1>0, UpdatedExcept
    <2>2. IsList(ds) /\ Len(ds) = Len(cs) /\ ds[j] = new /\ \A i \in 1..Len(cs) : i # j => ds[i] = cs[i]
      BY <2>1 DEF Updated
    <2> HIDE DEF cs, ds
    <2> QED
      BY <1>0, <1>3, <1>4, <2>1, <2>2, ClassesChange, SMTT(20)
  <1> HIDE DEF ds
  <1>6. FreeClasses(d) = FreeClassArray(ds) /\ FreeClasses(c) = FreeClassArray(cs)
    BY <1>2 DEF FreeClasses, FreeClassArray
  <1>7. FreeRawFields(d) = FreeRawFields(c) /\ FreeRawMethods(d) = FreeRawMethods(c)
    BY <1>2 DEF FreeRawFields, FreeRawMethods
  <1>8. ASSUME NEW x
        PROVE  /\ Changing(d, x) <= Changing(c, x) + Occurrences(took, x)
               /\ exact => Changing(d, x) = Changing(c, x) + Occurrences(took, x)
    <2> DEFINE f == Occurrences(FreeRawFields(c), x)
               m == Occurrences(FreeRawMethods(c), x)
               k == Occurrences(FreeClasses(c), x)
               k2 == Occurrences(FreeClasses(d), x)
               a == Occurrences(took, x)
               u == Occurrences(FreeClass(cs[j]), x)
               v == Occurrences(FreeClass(new), x)
    <2>1. /\ f \in Nat /\ m \in Nat /\ k \in Nat /\ k2 \in Nat /\ a \in Nat /\ u \in Nat /\ v \in Nat
      BY <1>3, <1>4, <1>5, <1>6, OccNat DEF Parts
    <2>2. Changing(c, x) = f + m + k /\ Changing(d, x) = f + m + k2
      BY <1>7 DEF Changing
    <2>3. k2 + u = k + v /\ v <= u + a /\ (exact => v = u + a)
      BY <1>5, <1>6 DEF GrowsBy
    <2> HIDE DEF f, m, k, k2, a, u, v
    <2>4. f + m + k2 <= (f + m + k) + a
      BY <2>1, <2>3
    <2>5. k2 + u = k + v /\ v = u + a => f + m + k2 = (f + m + k) + a
      BY <2>1
    <2>6. exact => f + m + k2 = (f + m + k) + a
      BY <2>3, <2>5
    <2> QED
      BY <2>2, <2>4, <2>6 DEF a
  <1>9. ChangesBy(c, d, took, exact)
    BY <1>8 DEF ChangesBy
  <1>10. FreeRawFields(d) \in Seq(Tokens) /\ FreeRawMethods(d) \in Seq(Tokens) /\ FreeClasses(d) \in Seq(Tokens)
    BY <1>5, <1>6, <1>7 DEF Parts
  <1>11. Parts(d, data, prs) /\ Owes(Debt(d, data, prs), bag (+) BagOf(took), exact)
    BY <1>2, <1>9, <1>10, ContextChange
  <1> QED
    BY <1>2, <1>5, <1>11

-----------------------------------------------------------------------------
(* The invariant after a step, by the kind of the step.                    *)

(* What the invariant says of a read that failed.                          *)
LEMMA AtFailed ==
  ASSUME NEW exact, pc' = "failed", Common', AtReading(exact)', ProtosNamed'
  PROVE  IInv(exact)'
  BY DEF IInv, Phase, ClassSteps, MemberLists, Endings

(* What the invariant says within a class.                                 *)
LEMMA AtClassStep ==
  ASSUME NEW exact, pc' \in ClassSteps, Common', AtReading(exact)', ProtosNamed', AtClass(exact)',
         pc' \in MemberLists => AtMember'
  PROVE  IInv(exact)'
  BY DEF IInv, Phase, ClassSteps, MemberLists, Endings

(* What the invariant says when all classes have been read.                *)
LEMMA AtMoveStep ==
  ASSUME NEW exact, pc' = "move", Common', AtReading(exact)', ProtosNamed', AtMove'
  PROVE  IInv(exact)'
  BY DEF IInv, Phase, ClassSteps, MemberLists, Endings

(* The invariant, within a class.                                          *)
LEMMA ClassFacts ==
  ASSUME NEW exact, IInv(exact), pc \in ClassSteps
  PROVE  Common /\ AtReading(exact) /\ ProtosNamed /\ AtClass(exact) /\ (pc \in MemberLists => AtMember)
  BY DEF IInv, Phase, ClassSteps, MemberLists, Endings

(* The next class has more entries behind it.                              *)
LEMMA NamesMore ==
  ASSUME NEW c, NEW f, NEW n \in Int, SlotsNamed(c, f, n), NEW m \in Int, n <= m, Len(f.classes) \in Nat
  PROVE  SlotsNamed(c, f, m)
  <1>1. ASSUME NEW part, NEW i, Names(f, n, part, i) PROVE Names(f, m, part, i)
    BY <1>1 DEF Names
  <1> QED
    BY <1>1 DEF SlotsNamed

(* What the steps of a class leave alone, and what a step acquires.        *)
ReadFrame == UNCHANGED <<file, protos, metadata>>
HoldsMore(took) == held' = held (+) BagOf(took)

(* The class being read grows by what was acquired.                        *)
LEMMA SetThis ==
  ASSUME NullApart, NEW exact, AtReading(exact), ProtosNamed, AtClass(exact), Context(ctx),
         NEW new, ClassParts(new), NEW took \in Seq(Tokens),
         GrowsBy(FreeClass(This), FreeClass(new), took, exact),
         ClassSet(ctx, ctx', class, new), HoldsMore(took), ReadFrame
  PROVE  /\ AtReading(exact)' /\ ProtosNamed' /\ Context(ctx') /\ IsABag(held')
         /\ SameTables(ctx, ctx') /\ ctx'.fields = ctx.fields /\ ctx'.methods = ctx.methods
         /\ Loaded(ctx', file)
         /\ IsList(ctx'.classes) /\ Len(ctx'.classes) = Len(file.classes)
         /\ ctx'.classes[class] = new
         /\ \A i \in 1..Len(file.classes) : i # class => ctx'.classes[i] = ctx.classes[i]
  <1>1. /\ Loaded(ctx, file) /\ class \in 1..Len(file.classes) /\ Len(ctx.classes) = Len(file.classes)
        /\ ClassList(ctx.classes)
    BY DEF AtClass, ClassesRead, ClassList
  <1>2. Parts(ctx, metadata, protos) /\ Owes(Debt(ctx, metadata, protos), held, exact)
    BY DEF AtReading
  <1>3. class \in 1..Len(ctx.classes) /\ GrowsBy(FreeClass(ctx.classes[class]), FreeClass(new), took, exact)
    BY <1>1 DEF This
  <1> DEFINE d == ctx'
             b == held (+) BagOf(took)
  <1>4. ClassSet(ctx, d, class, new) /\ held' = b
    BY DEF HoldsMore
  <1> HIDE DEF d
  <1>5. /\ Parts(d, metadata, protos) /\ Owes(Debt(d, metadata, protos), b, exact)
        /\ Context(d) /\ SameTables(ctx, d) /\ d.fields = ctx.fields /\ d.methods = ctx.methods
        /\ IsList(d.classes) /\ Len(d.classes) = Len(ctx.classes)
        /\ d.classes[class] = new /\ \A i \in 1..Len(ctx.classes) : i # class => d.classes[i] = ctx.classes[i]
    BY <1>1, <1>2, <1>3, <1>4, SetClassOwes
  <1>6. Loaded(d, file)
    BY <1>1, <1>5 DEF Loaded, SameTables
  <1>7. IsABag(b)
    BY <1>5 DEF Owes
  <1>8. AtReading(exact)'
    BY <1>4, <1>5 DEF AtReading, ReadFrame, d
  <1>9. ProtosNamed'
    BY <1>5 DEF ProtosNamed, ReadFrame, SameTables, d
  <1> QED
    BY <1>1, <1>4, <1>5, <1>6, <1>7, <1>8, <1>9 DEF d

(* The part of the invariant that all steps have in common.                *)
LEMMA CommonStep ==
  ASSUME Common, ReadFrame, pc' \in Steps \cup MemberLists, Context(ctx'), IsABag(held'),
         class' \in 0..Len(file.classes) + 1, members' \in Nat, idx' \in Nat
  PROVE  Common'
  <1>1. pc' \in Steps \cup ToSet(Lists) \cup (Endings \ {"crashed"})
    BY DEF MemberLists, Lists, ToSet
  <1> QED
    BY <1>1 DEF Common, ReadFrame

(* A step within a class.                                                  *)
LEMMA ClassStep ==
  ASSUME NullApart, NEW exact, IInv(exact), pc \in ClassSteps,
         NEW new, ClassParts(new), new.name # NULL, NEW took \in Seq(Tokens),
         GrowsBy(FreeClass(This), FreeClass(new), took, exact),
         ClassSet(ctx, ctx', class, new), HoldsMore(took), ReadFrame, class' = class,
         members' \in Nat, idx' \in Nat,
         pc' = "failed" \/ pc' \in ClassSteps \ {"class"},
         pc' \in ClassSteps => \A part \in Unread(pc') : new[part] = NULL,
         pc' = "directory" => pc = "class",
         pc' \in MemberLists => AtMember'
  PROVE  IInv(exact)'
  <1>1. Common /\ AtReading(exact) /\ ProtosNamed /\ AtClass(exact)
    BY ClassFacts
  <1>2. Context(ctx)
    BY <1>1 DEF Common
  <1>3. /\ AtReading(exact)' /\ ProtosNamed' /\ Context(ctx') /\ IsABag(held')
        /\ SameTables(ctx, ctx') /\ ctx'.fields = ctx.fields /\ ctx'.methods = ctx.methods
        /\ Loaded(ctx', file)
        /\ IsList(ctx'.classes) /\ Len(ctx'.classes) = Len(file.classes)
        /\ ctx'.classes[class] = new
        /\ \A i \in 1..Len(file.classes) : i # class => ctx'.classes[i] = ctx.classes[i]
    BY <1>1, <1>2, SetThis
  <1>4. class \in 1..Len(file.classes) /\ Len(file.classes) \in Nat /\ Len(ctx.classes) = Len(file.classes)
    <2>1. class \in 1..Len(file.classes) /\ IsList(ctx.classes) /\ Len(ctx.classes) = Len(file.classes)
      BY <1>1 DEF AtClass, ClassesRead
    <2> QED
      BY <2>1 DEF IsList
  <1>5. Common'
    <2>1. pc' \in Steps \cup MemberLists
      BY DEF Steps, ClassSteps, MemberLists
    <2> QED
      BY <1>1, <1>3, <1>4, <2>1, CommonStep
  <1>6. CASE pc' = "failed"
    BY <1>3, <1>5, <1>6, AtFailed
  <1>7. CASE pc' \in ClassSteps \ {"class"}
    <2>1. ClassesRead(ctx'.classes, class, Len(file.classes))
      <3>1. ClassesRead(ctx.classes, class, Len(file.classes))
        BY <1>1 DEF AtClass
      <3>2. ASSUME NEW i \in 1..Len(file.classes)
            PROVE  ClassParts(ctx'.classes[i]) /\ (i < class => ctx'.classes[i].name # NULL)
                   /\ (class < i => ctx'.classes[i] = ZeroClass)
        <4>1. CASE i = class
          BY <1>3, <1>4, <4>1
        <4>2. CASE i # class
          BY <1>3, <1>4, <3>1, <4>2 DEF ClassesRead
        <4> QED
          BY <4>1, <4>2
      <3> QED
        BY <1>3, <3>2 DEF ClassesRead
    <2>2. exact => SlotsNamed(ctx, file, IF pc' \in {"class", "directory"} THEN class - 1 ELSE class)
      <3>1. exact => SlotsNamed(ctx, file, IF pc \in {"class", "directory"} THEN class - 1 ELSE class)
        BY <1>1 DEF AtClass
      <3>2. CASE pc' = "directory"
        BY <3>1, <3>2
      <3>3. CASE pc' # "directory" /\ pc \in {"class", "directory"}
        <4>1. exact => SlotsNamed(ctx, file, class - 1)
          BY <3>1, <3>3
        <4>2. SlotsNamed(ctx, file, class - 1) => SlotsNamed(ctx, file, class)
          <5>1. class - 1 \in Int /\ class \in Int /\ class - 1 <= class
            BY <1>4
          <5> QED
            BY <1>4, <5>1, NamesMore
        <4> QED
          BY <1>7, <3>3, <4>1, <4>2
      <3>4. CASE pc' # "directory" /\ pc \notin {"class", "directory"}
        BY <1>7, <3>1, <3>4
      <3> QED
        BY <3>2, <3>3, <3>4
    <2>3. exact => SlotsNamed(ctx', file, IF pc' \in {"class", "directory"} THEN class - 1 ELSE class)
      BY <1>3, <2>2 DEF SlotsNamed
    <2>4. This' = new
      BY <1>3 DEF This
    <2>5. AtClass(exact)'
      BY <1>3, <1>4, <1>7, <2>1, <2>3, <2>4 DEF AtClass, ReadFrame
    <2> QED
      BY <1>3, <1>5, <1>7, <2>5, AtClassStep
  <1> QED
    BY <1>6, <1>7

(* A step that acquires for a part of a class that has not been read.      *)
LEMMA PartOwes ==
  ASSUME NullApart, NEW exact, NEW c, ClassParts(c), NEW part \in PartNames, c[part] = NULL,
         NEW v, NEW took, Paid(took, FreePart(part, v), exact), NEW d, PartSet(c, d, part, v)
  PROVE  /\ ClassParts(d) /\ d[part] = v /\ d.name = c.name
         /\ \A p \in PartNames \ {part} : d[p] = c[p]
         /\ took \in Seq(Tokens)
         /\ GrowsBy(FreeClass(c), FreeClass(d), took, exact)
  <1>1. FreePart(part, v) \in Seq(Tokens) /\ took \in Seq(Tokens)
    BY DEF Paid
  <1>2. /\ ClassParts(d)
        /\ d[part] = v /\ d.name = c.name
        /\ \A p \in PartNames \ {part} : d[p] = c[p]
        /\ \A x : Occurrences(FreeClass(d), x) + Occurrences(FreePart(part, c[part]), x)
                    = Occurrences(FreeClass(c), x) + Occurrences(FreePart(part, v), x)
    BY <1>1, PartChange
  <1>3. FreePart(part, c[part]) = << >>
    BY PartNull
  <1>4. ASSUME NEW x
        PROVE  /\ Occurrences(FreeClass(d), x) <= Occurrences(FreeClass(c), x) + Occurrences(took, x)
               /\ exact => Occurrences(FreeClass(d), x) = Occurrences(FreeClass(c), x) + Occurrences(took, x)
    <2> DEFINE n == Occurrences(FreeClass(d), x)
               o == Occurrences(FreeClass(c), x)
               t == Occurrences(took, x)
               p == Occurrences(FreePart(part, v), x)
    <2>1. n \in Nat /\ o \in Nat /\ t \in Nat /\ p \in Nat
      BY <1>1, <1>2, ClassSum, OccNat
    <2>2. n = o + p
      BY <1>2, <1>3, <2>1, OccEmpty
    <2>3. p <= t /\ (exact => p = t)
      BY DEF Paid
    <2> HIDE DEF n, o, t, p
    <2>4. n <= o + t
      BY <2>1, <2>2, <2>3
    <2>5. p = t => n = o + t
      BY <2>2
    <2> QED
      BY <2>3, <2>4, <2>5 DEF n, o, t
  <1>5. GrowsBy(FreeClass(c), FreeClass(d), took, exact)
    BY <1>4 DEF GrowsBy
  <1> QED
    BY <1>1, <1>2, <1>5

(* What the file says, with the values V that it has.                      *)
FileHolds(V, exact) ==
  /\ FileShape(file, V) /\ FileSurvives(file) /\ FreeValue(ZeroValue) = << >>
  /\ \A v \in V : ValuePays(ctx, v, exact)
  /\ exact => EachCode(file, CodeClean) /\ NamedOnce(file)

(* What has been loaded is a context that references are read from.        *)
LEMMA LoadedCtx ==
  ASSUME NEW c, NEW f, Loaded(c, f)
  PROVE  Ctx(c)
  BY DEF Loaded, Ctx, StrList, RawFieldParts, RawMethodParts

(* The sizes of the sections that were read are those of the file.         *)
LEMMA ReadableLoaded ==
  ASSUME NEW c, NEW f, Loaded(c, f), IsList(f.strings), IsList(f.types), IsList(f.fields),
         IsList(f.methods), NEW R, Readable(Sections(f), R)
  PROVE  Readable(c, R)
  <1> DEFINE s == Sections(f)
  <1>1. s.strs = f.strings /\ s.types = f.types /\ s.fields = f.fields /\ s.methods = f.methods
    BY DEF Sections
  <1>2. /\ IsList(c.strs) /\ Len(c.strs) = Len(f.strings) /\ IsList(c.types) /\ Len(c.types) = Len(f.types)
        /\ IsList(c.fields) /\ Len(c.fields) = Len(f.fields)
        /\ IsList(c.methods) /\ Len(c.methods) = Len(f.methods)
    BY DEF Loaded, StrList
  <1>3. /\ DOMAIN c.strs = DOMAIN s.strs /\ DOMAIN c.types = DOMAIN s.types
        /\ DOMAIN c.fields = DOMAIN s.fields /\ DOMAIN c.methods = DOMAIN s.methods
        /\ Len(c.strs) = Len(s.strs) /\ Len(c.types) = Len(s.types)
    BY <1>1, <1>2, ListFacts
  <1> HIDE DEF s
  <1>4. ASSUME NEW section \in RefTypes
        PROVE  Indexes(c, section) = Indexes(s, section)
    BY <1>3 DEF Indexes, RefTypes
  <1>5. Readable(s, R)
    BY DEF s
  <1> QED
    BY <1>3, <1>4, <1>5 DEF Readable

(* The values of the file pay in the context that has been loaded.         *)
LEMMA FileValues ==
  ASSUME NullApart, NEW exact, Valued(file), FileSurvives(file), exact => Clean(file), Loaded(ctx, file)
  PROVE  Ctx(ctx) /\ \E V : FileHolds(V, exact)
  <1>1. Ctx(ctx)
    BY LoadedCtx
  <1>2. CASE exact
    <2>1. PICK V, Depth, R : ValuesShape(V, Depth) /\ ValueCode(V) /\ FileShape(file, V) /\ FileClean(file, V, R)
      BY <1>2 DEF Clean
    <2>2. Readable(Sections(file), R) /\ R \subseteq V
          /\ \A v \in V : v.type \in {"array", "annotation"} => v \in R
      BY <2>1 DEF FileClean
    <2>3. Readable(ctx, R)
      <3>1. IsList(file.strings) /\ IsList(file.types) /\ IsList(file.fields) /\ IsList(file.methods)
        BY <2>1 DEF FileShape
      <3> QED
        BY <2>2, <3>1, ReadableLoaded
    <2>4. FreeValue(ZeroValue) = << >>
      BY <2>1, ZeroValueFree DEF ValueCode
    <2>5. \A v \in V : ValuePays(ctx, v, exact)
      BY <1>1, <2>1, <2>2, <2>3, ValuesPay
    <2>6. EachCode(file, CodeClean) /\ NamedOnce(file)
      BY <2>1 DEF FileClean
    <2> QED
      BY <1>1, <2>1, <2>4, <2>5, <2>6 DEF FileHolds
  <1>3. CASE ~exact
    <2>1. PICK V, Depth : ValuesShape(V, Depth) /\ ValueCode(V) /\ FileShape(file, V)
      BY DEF Valued
    <2>2. Readable(ctx, {})
      BY DEF Readable
    <2>3. FreeValue(ZeroValue) = << >>
      BY <2>1, ZeroValueFree DEF ValueCode
    <2>4. \A v \in V : ValuePays(ctx, v, exact)
      BY <1>1, <1>3, <2>1, <2>2, ValuesPay
    <2> QED
      BY <1>1, <1>3, <2>1, <2>3, <2>4 DEF FileHolds
  <1> QED
    BY <1>2, <1>3

-----------------------------------------------------------------------------
(* A step that reads one part of the class.                                *)
LEMMA ReadPart ==
  ASSUME NullApart, NEW exact, IInv(exact), pc \in ClassSteps \ {"class"},
         NEW part \in PartNames, part \in Unread(pc),
         NEW v, NEW took, Paid(took, FreePart(part, v), exact), NEW new, PartSet(This, new, part, v),
         ClassSet(ctx, ctx', class, new), HoldsMore(took), ReadFrame, class' = class,
         members' \in Nat, idx' \in Nat,
         pc' = "failed" \/ pc' \in ClassSteps \ {"class", "directory"},
         pc' \in ClassSteps => Unread(pc') \subseteq Unread(pc) \ {part} /\ Unread(pc') \subseteq PartNames,
         pc' \in MemberLists => AtMember'
  PROVE  IInv(exact)'
  <1>1. AtClass(exact)
    BY ClassFacts
  <1>2. ClassParts(This) /\ This.name # NULL /\ \A p \in Unread(pc) : This[p] = NULL
    <2>1. class \in 1..Len(file.classes) /\ ClassesRead(ctx.classes, class, Len(file.classes))
      BY <1>1 DEF AtClass
    <2>2. ClassParts(This)
      BY <2>1 DEF ClassesRead, This
    <2> QED
      BY <1>1, <2>2 DEF AtClass
  <1>3. This[part] = NULL
    BY <1>2
  <1>4. /\ ClassParts(new) /\ new[part] = v /\ new.name = This.name
        /\ \A p \in PartNames \ {part} : new[p] = This[p]
        /\ took \in Seq(Tokens)
        /\ GrowsBy(FreeClass(This), FreeClass(new), took, exact)
    BY <1>2, <1>3, PartOwes
  <1>5. pc' \in ClassSteps => \A p \in Unread(pc') : new[p] = NULL
    <2> SUFFICES ASSUME pc' \in ClassSteps, NEW p \in Unread(pc') PROVE new[p] = NULL
      OBVIOUS
    <2>1. p \in Unread(pc) /\ p \in PartNames \ {part}
      OBVIOUS
    <2> QED
      BY <1>2, <1>4, <2>1
  <1>6. new.name # NULL /\ (pc' = "directory" => pc = "class")
    BY <1>2, <1>4 
  <1>7. pc' = "failed" \/ pc' \in ClassSteps \ {"class"}
    OBVIOUS
  <1> QED
    BY <1>4, <1>5, <1>6, <1>7, ClassStep

(* The lists that a class gets when the file has none.                     *)
LEMMA EmptyParts ==
  ASSUME NullApart
  PROVE  /\ FreeAnnotations(<< >>) = <<Block("annotations")>>
         /\ FreeParameterAnnotations(<< >>) = <<Block("parameter_annotations")>>
         /\ FreeValues(<< >>) = <<Block("values")>>
         /\ FreeFields(<< >>) = <<Block("fields")>> /\ FreeMethods(<< >>) = <<Block("methods")>>
         /\ \A kind \in {"annotations", "parameter_annotations", "values", "fields", "methods"} :
              <<Block(kind)>> \in Seq(Tokens)
  <1>1. << >> # NULL
    <2>1. IsList(<< >>)
      BY EmptyList
    <2> QED
      BY <2>1, NotNull
  <1>2. UpTo(<< >>, {}) = << >>
    BY DEF UpTo
  <1>3. DOMAIN << >> = {} /\ FlattenSeq(<< >>) = << >>
    BY DEF FlattenSeq
  <1>9. \A kind \in {"annotations", "parameter_annotations", "values", "fields", "methods"} :
              <<Block(kind)>> \in Seq(Tokens)
    BY BlockToken DEF Kinds
  <1>4. FreeAnnotations(<< >>) = <<Block("annotations")>>
    <2> DEFINE f == [i \in DOMAIN << >> |-> FreeAnnotation(<< >>[i])]
               ends == {i \in DOMAIN << >> : << >>[i].parameters = NULL}
    <2>1. FreeAnnotations(<< >>) = FlattenSeq(UpTo(f, ends)) \o <<Block("annotations")>>
      BY <1>1 DEF FreeAnnotations, FreeArray
    <2>2. f = << >> /\ ends = {}
      BY <1>3
    <2> HIDE DEF f, ends
    <2> QED
      BY <1>2, <1>3, <2>1, <2>2, <1>9
  <1>5. FreeParameterAnnotations(<< >>) = <<Block("parameter_annotations")>>
    <2> DEFINE f == [i \in DOMAIN << >> |-> FreeAnnotations(<< >>[i])]
               ends == {i \in DOMAIN << >> : << >>[i] = NULL}
    <2>1. FreeParameterAnnotations(<< >>) = FlattenSeq(UpTo(f, ends)) \o <<Block("parameter_annotations")>>
      BY <1>1 DEF FreeParameterAnnotations, FreeArray
    <2>2. f = << >> /\ ends = {}
      BY <1>3
    <2> HIDE DEF f, ends
    <2> QED
      BY <1>2, <1>3, <2>1, <2>2, <1>9
  <1>6. FreeValues(<< >>) = <<Block("values")>>
    <2> DEFINE f == [i \in DOMAIN << >> |-> FreeValue(<< >>[i])]
               ends == {i \in DOMAIN << >> : << >>[i].type = "sentinel"}
    <2>1. FreeValues(<< >>) = FlattenSeq(UpTo(f, ends)) \o <<Block("values")>>
      BY <1>1 DEF FreeValues, FreeValuesBy, FreeArray
    <2>2. f = << >> /\ ends = {}
      BY <1>3
    <2> HIDE DEF f, ends
    <2> QED
      BY <1>2, <1>3, <2>1, <2>2, <1>9
  <1>7. FreeFields(<< >>) = <<Block("fields")>>
    <2> DEFINE f == [i \in DOMAIN << >> |-> FreeField(<< >>[i])]
               ends == {i \in DOMAIN << >> : << >>[i].name = NULL}
    <2>1. FreeFields(<< >>) = FlattenSeq(UpTo(f, ends)) \o <<Block("fields")>>
      BY <1>1 DEF FreeFields, FreeArray
    <2>2. f = << >> /\ ends = {}
      BY <1>3
    <2> HIDE DEF f, ends
    <2> QED
      BY <1>2, <1>3, <2>1, <2>2, <1>9
  <1>8. FreeMethods(<< >>) = <<Block("methods")>>
    <2> DEFINE f == [i \in DOMAIN << >> |-> FreeMethod(<< >>[i])]
               ends == {i \in DOMAIN << >> : << >>[i].prototype = NULL}
    <2>1. FreeMethods(<< >>) = FlattenSeq(UpTo(f, ends)) \o <<Block("methods")>>
      BY <1>1 DEF FreeMethods, FreeArray
    <2>2. f = << >> /\ ends = {}
      BY <1>3
    <2> HIDE DEF f, ends
    <2> QED
      BY <1>2, <1>3, <2>1, <2>2, <1>9
  <1> QED
    BY <1>4, <1>5, <1>6, <1>7, <1>8, <1>9

(* Nothing is acquired.                                                    *)
LEMMA NothingRead ==
  ASSUME NEW exact, AtReading(exact), ProtosNamed, ctx' = ctx, ReadFrame, held' = held \/ HoldsMore(<< >>)
  PROVE  AtReading(exact)' /\ ProtosNamed' /\ IsABag(held')
  <1>1. Owes(Debt(ctx, metadata, protos), held', exact)
    <2>0. Owes(Debt(ctx, metadata, protos), held, exact)
      BY DEF AtReading
    <2>1. CASE held' = held
      BY <2>0, <2>1
    <2>2. CASE HoldsMore(<< >>)
      <3> DEFINE debt == Debt(ctx, metadata, protos)
      <3>1. debt \in Seq(Tokens)
        BY <2>0 DEF Owes
      <3>2. ASSUME NEW x
            PROVE  Occurrences(debt, x) = Occurrences(debt, x) + Occurrences(<< >>, x)
                   /\ Occurrences(debt, x) <= Occurrences(debt, x) + Occurrences(<< >>, x)
        <4>1. Occurrences(debt, x) \in Nat /\ Occurrences(<< >>, x) = 0
          BY <3>1, OccNat, OccEmpty
        <4> HIDE DEF debt
        <4> QED
          BY <4>1
      <3> HIDE DEF debt
      <3>3. Owes(debt, held (+) BagOf(<< >>), exact)
        BY <2>0, <3>1, <3>2, NoTokens, OwesMore DEF debt
      <3> QED
        BY <2>2, <3>3 DEF HoldsMore, debt
    <2> QED
      BY <2>1, <2>2
  <1>2. AtReading(exact)'
    BY <1>1 DEF AtReading, ReadFrame
  <1>3. ProtosNamed'
    BY DEF ProtosNamed, ReadFrame
  <1> QED
    BY <1>1, <1>2, <1>3 DEF Owes
=============================================================================
