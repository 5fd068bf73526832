---------------------------- MODULE Layout_proofs ----------------------------
(***************************************************************************)
(* The file that Layout makes is the graph of its data items: for every    *)
(* list of items whose references are those of the writer, every checksum  *)
(* and every order of items with equal checksums.                          *)
(*                                                                         *)
(* First the lists: the sections in their order, the items of each section *)
(* by type, by checksum and without duplicates; TypeOK and the parts of    *)
(* the invariant on the cursors and the lists are kept.  Then the plan:    *)
(* what a step leaves, places and drops.  Then the parts of the invariant  *)
(* on offsets and copies, and the properties.                              *)
(***************************************************************************)
EXTENDS LayoutInv, Common_proofs, FiniteSetTheorems, FunctionTheorems, SequenceTheorems, TLAPS

(* Where a concatenation has what.                                         *)
LEMMA ConcatAt ==
  ASSUME NEW T, NEW s \in Seq(T), NEW t \in Seq(T)
  PROVE  /\ Len(s \o t) = Len(s) + Len(t)
         /\ \A k \in 1..Len(s) : (s \o t)[k] = s[k]
         /\ \A k \in 1..Len(t) : (s \o t)[Len(s) + k] = t[k]
  BY ConcatProperties, LenProperties

(* The sections, one by one.                                               *)
LEMMA IdTypeSet ==
  /\ Len(IdTypes) = 6
  /\ ToSet(IdTypes) = {"string_id", "type_id", "proto_id", "field_id", "method_id", "class_def"}
  <1>1. DOMAIN IdTypes = 1..6
    BY DEF IdTypes
  <1> QED
    BY <1>1 DEF ToSet, IdTypes

(* The types of data items, in the order of resolve_order.                 *)
LEMMA DataTypeSet ==
  /\ Len(resolve_order) = 10
  /\ ToSet(resolve_order) =
       {"string_data", "type_list", "debug_info", "code", "class_data", "annotation",
        "annotation_set", "annotation_set_ref_list", "encoded_array", "annotations_directory"}
  <1>1. DOMAIN resolve_order = 1..10
    BY DEF resolve_order
  <1> QED
    BY <1>1 DEF ToSet, resolve_order

(* The sections: the types of ids, then those of data items.               *)
LEMMA SectionLists ==
  /\ Len(Sections) = 16
  /\ \A s \in 1..6 : Sections[s] = IdTypes[s]
  /\ \A s \in 1..10 : Sections[6 + s] = resolve_order[s]
  <1>1. IdTypes \in Seq(Types) /\ resolve_order \in Seq(Types)
    BY IdTypeSet, DataTypeSet DEF IdTypes, resolve_order, Types
  <1>2. /\ Len(Sections) = Len(IdTypes) + Len(resolve_order)
        /\ \A s \in 1..Len(IdTypes) : Sections[s] = IdTypes[s]
        /\ \A s \in 1..Len(resolve_order) : Sections[Len(IdTypes) + s] = resolve_order[s]
    BY <1>1, ConcatAt DEF Sections
  <1> QED
    BY <1>2, IdTypeSet, DataTypeSet

(* The place of every section.                                             *)
LEMMA SectionNames ==
  /\ Sections[1] = "string_id" /\ Sections[2] = "type_id" /\ Sections[3] = "proto_id"
  /\ Sections[4] = "field_id" /\ Sections[5] = "method_id" /\ Sections[6] = "class_def"
  /\ Sections[7] = "string_data" /\ Sections[8] = "type_list" /\ Sections[9] = "debug_info"
  /\ Sections[10] = "code" /\ Sections[11] = "class_data" /\ Sections[12] = "annotation"
  /\ Sections[13] = "annotation_set" /\ Sections[14] = "annotation_set_ref_list"
  /\ Sections[15] = "encoded_array" /\ Sections[16] = "annotations_directory"
  <1>1. /\ Sections[1] = IdTypes[1] /\ Sections[2] = IdTypes[2] /\ Sections[3] = IdTypes[3]
        /\ Sections[4] = IdTypes[4] /\ Sections[5] = IdTypes[5] /\ Sections[6] = IdTypes[6]
    BY SectionLists
  <1>2. /\ Sections[6 + 1] = resolve_order[1] /\ Sections[6 + 2] = resolve_order[2]
        /\ Sections[6 + 3] = resolve_order[3] /\ Sections[6 + 4] = resolve_order[4]
        /\ Sections[6 + 5] = resolve_order[5] /\ Sections[6 + 6] = resolve_order[6]
        /\ Sections[6 + 7] = resolve_order[7] /\ Sections[6 + 8] = resolve_order[8]
        /\ Sections[6 + 9] = resolve_order[9] /\ Sections[6 + 10] = resolve_order[10]
    BY SectionLists
  <1> QED
    BY <1>1, <1>2 DEF IdTypes, resolve_order

(* Each type has one place in the order of the sections.                   *)
LEMMA RankSections ==
  /\ \A s \in 1..16 : Sections[s] \in Types /\ Rank[Sections[s]] = s
  /\ \A t \in Types : Rank[t] \in 1..16 /\ Sections[Rank[t]] = t
  <1>1. Types = {Sections[s] : s \in 1..16}
    BY SectionNames, IdTypeSet, DataTypeSet DEF Types
  <1>2. \A s, r \in 1..16 : Sections[s] = Sections[r] => s = r
    BY SectionNames
  <1>3. \A t \in Types : Rank[t] \in 1..16 /\ Sections[Rank[t]] = t
    BY <1>1, SectionLists DEF Rank
  <1> QED
    BY <1>1, <1>2, <1>3

(* The ids come first, and then the sections in resolve_order.             *)
LEMMA RankParts ==
  /\ \A t \in Types : /\ t \in ToSet(IdTypes) <=> Rank[t] <= 6
                      /\ t \in ToSet(resolve_order) <=> Rank[t] > 6
  /\ \A s \in 1..6 : IdTypes[s] \in Types /\ Rank[IdTypes[s]] = s
  /\ \A s \in 1..10 : resolve_order[s] \in Types /\ Rank[resolve_order[s]] = 6 + s
  /\ Rank["code"] = 10
  <1>1. /\ \A s \in 1..6 : IdTypes[s] \in Types /\ Rank[IdTypes[s]] = s
        /\ \A s \in 1..10 : resolve_order[s] \in Types /\ Rank[resolve_order[s]] = 6 + s
    <2>1. \A s \in 1..10 : 6 + s \in 1..16
      OBVIOUS
    <2> QED
      BY <2>1, SectionLists, RankSections
  <1>2. \A t \in Types : /\ t \in ToSet(IdTypes) <=> Rank[t] <= 6
                         /\ t \in ToSet(resolve_order) <=> Rank[t] > 6
    <2>1. ToSet(IdTypes) = {IdTypes[s] : s \in 1..6}
      BY IdTypeSet DEF ToSet, IdTypes
    <2>2. ToSet(resolve_order) = {resolve_order[s] : s \in 1..10}
      BY DataTypeSet DEF ToSet, resolve_order
    <2>3. \A t \in Types : (\E s \in 1..6 : t = IdTypes[s]) <=> Rank[t] <= 6
      BY <1>1, RankSections, SectionLists
    <2>4. \A t \in Types : (\E s \in 1..10 : t = resolve_order[s]) <=> Rank[t] > 6
      <3>1. ASSUME NEW t \in Types, Rank[t] > 6
            PROVE  t = resolve_order[Rank[t] - 6] /\ Rank[t] - 6 \in 1..10
        BY <3>1, RankSections, SectionLists
      <3> QED
        BY <3>1, <1>1
    <2> QED
      BY <2>1, <2>2, <2>3, <2>4
  <1>3. Rank["code"] = 10
    BY SectionNames, RankSections
  <1> QED
    BY <1>1, <1>2, <1>3

(* References lead to data items, and those of a data item to a type that  *)
(* is placed before: the order of resolve_order is a topological one.      *)
LEMMA RefersBack ==
  ASSUME NEW t \in Types, NEW u \in RefersTo[t]
  PROVE  /\ u \in Types /\ Rank[u] > 6
         /\ Rank[t] > 6 => Rank[u] < Rank[t]
  <1>1. /\ Rank["string_id"] = 1 /\ Rank["proto_id"] = 3 /\ Rank["class_def"] = 6
        /\ Rank["string_data"] = 7 /\ Rank["type_list"] = 8 /\ Rank["debug_info"] = 9
        /\ Rank["code"] = 10 /\ Rank["class_data"] = 11 /\ Rank["annotation"] = 12
        /\ Rank["annotation_set"] = 13 /\ Rank["annotation_set_ref_list"] = 14
        /\ Rank["encoded_array"] = 15 /\ Rank["annotations_directory"] = 16
    BY SectionNames, RankSections
  <1>2. {"string_data", "type_list", "debug_info", "code", "class_data", "annotation",
         "annotation_set", "annotation_set_ref_list", "encoded_array",
         "annotations_directory"} \subseteq Types
    BY DataTypeSet DEF Types
  <1> QED
    BY <1>1, <1>2 DEF RefersTo

(* Items are aligned to words or to bytes.                                 *)
LEMMA AlignmentRange ==
  ASSUME NEW t \in Types
  PROVE  alignment_mp[t] \in {1, 4}
  BY DEF alignment_mp

(* AlignUp: the first multiple of algn that is not below n.                *)
LEMMA AlignUpFacts ==
  ASSUME NEW n \in Nat, NEW algn \in {1, 4}
  PROVE  /\ AlignUp(n, algn) \in n..n + algn - 1
         /\ AlignUp(n, algn) % algn = 0
         /\ AlignUp(HeaderSize + n, algn) = HeaderSize + AlignUp(n, algn)
  <1>1. CASE algn = 1
    BY <1>1 DEF AlignUp, HeaderSize
  <1>2. CASE algn = 4
    BY <1>2 DEF AlignUp, HeaderSize
  <1> QED
    BY <1>1, <1>2

(* What DataAssumption says of the current list.                           *)
LEMMA ItemFacts ==
  ASSUME dat \in DataLists
  PROVE  /\ Len(dat) \in Nat
         /\ \A i \in Items :
              /\ dat[i].type \in Types
              /\ dat[i].size \in Nat \ {0}
              /\ Len(dat[i].refs) \in Nat
              /\ \A r \in 1..Len(dat[i].refs) :
                   /\ dat[i].refs[r].index \in Items
                   /\ dat[i].refs[r].uleb \in BOOLEAN
                   /\ dat[dat[i].refs[r].index].type \in RefersTo[dat[i].type]
  <1>1. \A i \in Items : dat[i].refs \in Seq([index : Items, uleb : BOOLEAN])
    BY DataAssumption DEF Items
  <1>2. \A i \in Items : Len(dat[i].refs) \in Nat
    BY <1>1
  <1>3. \A i \in Items : \A r \in 1..Len(dat[i].refs) : dat[i].refs[r] \in [index : Items, uleb : BOOLEAN]
    BY <1>1, ElementOfSeq
  <1> QED
    BY <1>2, <1>3, DataAssumption DEF Items

(* A remainder.                                                            *)
LEMMA ModIn ==
  ASSUME NEW n \in Nat \ {0}, NEW x \in Int
  PROVE  x % n \in 0..n - 1
  OBVIOUS

(* A function on 1..n is a sequence.                                       *)
LEMMA FunIsSeq ==
  ASSUME NEW S, NEW n \in Nat, NEW f \in [1..n -> S]
  PROVE  f \in Seq(S) /\ Len(f) = n
  OBVIOUS

(* The value of a reference is an offset, or an offset in four bytes.      *)
LEMMA ResolveType ==
  ASSUME TypeOK, NEW i \in Items
  PROVE  Resolve(i) \in Seq(Int) /\ Len(Resolve(i)) = Len(dat[i].refs)
  <1>1. Len(dat[i].refs) \in Nat
    BY ItemFacts DEF TypeOK
  <1>2. ASSUME NEW r \in 1..Len(dat[i].refs)
        PROVE  /\ offsets[dat[i].refs[r].index] \in Int
               /\ offsets[dat[i].refs[r].index] % UlebLimit \in Int
    <2>1. dat[i].refs[r].index \in Items
      BY ItemFacts DEF TypeOK
    <2>2. offsets \in [Items -> Nat \cup {-1}]
      BY DEF TypeOK
    <2>3. offsets[dat[i].refs[r].index] \in Int
      BY <2>1, <2>2
    <2>4. \A x \in Int : x % UlebLimit \in Int
      BY UlebAssumption, ModIn
    <2> QED
      BY <2>3, <2>4
  <1>3. Resolve(i) \in [1..Len(dat[i].refs) -> Int]
    BY <1>2 DEF Resolve
  <1> QED
    BY <1>1, <1>3, FunIsSeq

-----------------------------------------------------------------------------
(* The elements of a sequence.                                             *)
LEMMA ToSetSeq ==
  ASSUME NEW T, NEW s \in Seq(T)
  PROVE  /\ Len(s) \in Nat
         /\ ToSet(s) = {s[k] : k \in 1..Len(s)}
         /\ ToSet(s) \subseteq T
         /\ \A k \in 1..Len(s) : s[k] \in T
         /\ s = << >> <=> Len(s) = 0
         /\ s = << >> <=> ToSet(s) = {}
  <1>1. Len(s) \in Nat /\ DOMAIN s = 1..Len(s) /\ \A k \in 1..Len(s) : s[k] \in T
    BY LenProperties
  <1>2. ToSet(s) = {s[k] : k \in 1..Len(s)}
    BY <1>1 DEF ToSet
  <1>3. s = << >> <=> Len(s) = 0
    BY EmptySeq
  <1>4. Len(s) # 0 => 1 \in 1..Len(s)
    BY <1>1
  <1> QED
    BY <1>1, <1>2, <1>3, <1>4

(* An element is appended.                                                 *)
LEMMA AppendFacts ==
  ASSUME NEW T, NEW s \in Seq(T), NEW x \in T
  PROVE  /\ Append(s, x) \in Seq(T)
         /\ Len(Append(s, x)) = Len(s) + 1
         /\ \A k \in 1..Len(s) : Append(s, x)[k] = s[k]
         /\ Append(s, x)[Len(s) + 1] = x
         /\ ToSet(Append(s, x)) = ToSet(s) \cup {x}
         /\ Injective(s) /\ x \notin ToSet(s) => Injective(Append(s, x))
  <1>1. /\ Append(s, x) \in Seq(T)
        /\ Len(Append(s, x)) = Len(s) + 1
        /\ \A k \in 1..Len(s) : Append(s, x)[k] = s[k]
        /\ Append(s, x)[Len(s) + 1] = x
    OBVIOUS
  <1>2. ToSet(Append(s, x)) = ToSet(s) \cup {x}
    <2>1. Len(s) \in Nat
      OBVIOUS
    <2>2. 1..Len(s) + 1 = 1..Len(s) \cup {Len(s) + 1}
      BY <2>1
    <2>3. ToSet(Append(s, x)) = {Append(s, x)[k] : k \in 1..Len(Append(s, x))}
      BY <1>1, ToSetSeq
    <2>4. ToSet(s) = {s[k] : k \in 1..Len(s)}
      BY ToSetSeq
    <2> QED
      BY <1>1, <2>2, <2>3, <2>4
  <1>3. ASSUME Injective(s), x \notin ToSet(s) PROVE Injective(Append(s, x))
    <2>1. \A k \in 1..Len(s) : s[k] # x
      BY <1>3, ToSetSeq
    <2>2. \A k \in 1..Len(s) + 1 : k \in 1..Len(s) \/ k = Len(s) + 1
      BY ToSetSeq
    <2> QED
      BY <1>1, <1>3, <2>1, <2>2 DEF Injective
  <1> QED
    BY <1>1, <1>2, <1>3

(* The beginning of a sequence.                                            *)
LEMMA PrefixFacts ==
  ASSUME NEW T, NEW s \in Seq(T), NEW n \in 0..Len(s)
  PROVE  /\ SubSeq(s, 1, n) \in Seq(T)
         /\ Len(SubSeq(s, 1, n)) = n
         /\ \A k \in 1..n : SubSeq(s, 1, n)[k] = s[k]
         /\ n < Len(s) => SubSeq(s, 1, n + 1) = Append(SubSeq(s, 1, n), s[n + 1])
         /\ n = Len(s) => SubSeq(s, 1, n) = s
  <1>0. Len(s) \in Nat /\ \A k \in 1..Len(s) : s[k] \in T
    BY LenProperties
  <1>1. \A m \in 0..Len(s) : /\ SubSeq(s, 1, m) \in Seq(T)
                             /\ Len(SubSeq(s, 1, m)) = m
                             /\ \A k \in 1..m : SubSeq(s, 1, m)[k] = s[k]
    <2> SUFFICES ASSUME NEW m \in 0..Len(s)
                 PROVE  /\ SubSeq(s, 1, m) \in Seq(T)
                        /\ Len(SubSeq(s, 1, m)) = m
                        /\ \A k \in 1..m : SubSeq(s, 1, m)[k] = s[k]
      OBVIOUS
    <2>1. m \in Int /\ \A k \in 1..m : s[k] \in T
      BY <1>0
    <2> QED
      BY <1>0, <2>1, SubSeqProperties
  <1>2. ASSUME n < Len(s)
        PROVE  SubSeq(s, 1, n + 1) = Append(SubSeq(s, 1, n), s[n + 1])
    <2>1. n + 1 \in 0..Len(s) /\ n + 1 \in 1..Len(s)
      BY <1>0, <1>2
    <2>2. s[n + 1] \in T
      BY <1>0, <2>1
    <2>3. /\ Append(SubSeq(s, 1, n), s[n + 1]) \in Seq(T)
          /\ Len(Append(SubSeq(s, 1, n), s[n + 1])) = n + 1
          /\ \A k \in 1..n : Append(SubSeq(s, 1, n), s[n + 1])[k] = s[k]
          /\ Append(SubSeq(s, 1, n), s[n + 1])[n + 1] = s[n + 1]
      BY <1>1, <2>2, AppendFacts
    <2>4. \A k \in 1..n + 1 : SubSeq(s, 1, n + 1)[k] = Append(SubSeq(s, 1, n), s[n + 1])[k]
      BY <1>1, <2>1, <2>3
    <2> QED
      BY <1>1, <2>1, <2>3, <2>4, SeqEqual
  <1>3. n = Len(s) => SubSeq(s, 1, n) = s
    BY SubSeqFull
  <1> QED
    BY <1>1, <1>2, <1>3

(* There are n numbers from 1 to n.                                        *)
LEMMA IntervalCard ==
  ASSUME NEW n \in Nat
  PROVE  IsFiniteSet(1..n) /\ Cardinality(1..n) = n
  BY FS_Interval

(* A sequence without repetitions is as long as its set is large.          *)
LEMMA InjectiveCard ==
  ASSUME NEW T, NEW s \in Seq(T), Injective(s)
  PROVE  IsFiniteSet(ToSet(s)) /\ Cardinality(ToSet(s)) = Len(s)
  <1>1. Len(s) \in Nat /\ ToSet(s) = {s[k] : k \in 1..Len(s)} /\ s \in [1..Len(s) -> ToSet(s)]
    BY ToSetSeq, LenProperties
  <1>2. s \in Bijection(1..Len(s), ToSet(s))
    BY <1>1, Fun_IsBij DEF Injective
  <1>3. IsFiniteSet(1..Len(s)) /\ Cardinality(1..Len(s)) = Len(s)
    BY <1>1, IntervalCard
  <1>4. ExistsBijection(1..Len(s), ToSet(s))
    BY <1>2, Fun_ExistsBij
  <1> QED
    BY <1>3, <1>4, FS_Bijection

(* A sequence of numbers up to n without repetitions has at most n         *)
(* entries.                                                                *)
LEMMA InjectiveShort ==
  ASSUME NEW n \in Nat, NEW s \in Seq(1..n), Injective(s)
  PROVE  Len(s) <= n
  <1>1. ToSet(s) \in SUBSET (1..n)
    BY ToSetSeq
  <1> QED
    BY <1>1, IntervalCard, InjectiveCard, FS_Subset

(* The orders of a finite set: each has every element once.                *)
LEMMA OrderOfSet ==
  ASSUME NEW S, IsFiniteSet(S), NEW s \in SetToSeqs(S)
  PROVE  s \in Seq(S) /\ Injective(s) /\ ToSet(s) = S
  <1>1. Cardinality(S) \in Nat
    BY FS_CardinalityType
  <1>2. s \in [1..Cardinality(S) -> S]
        /\ \A m, n \in 1..Cardinality(S) : m # n => s[m] # s[n]
    BY DEF SetToSeqs
  <1>3. s \in Seq(S) /\ Len(s) = Cardinality(S)
    BY <1>1, <1>2, FunIsSeq
  <1>4. Injective(s)
    BY <1>2, <1>3 DEF Injective
  <1>5. ToSet(s) \in SUBSET S
    BY <1>3, ToSetSeq
  <1> QED
    BY <1>3, <1>4, <1>5, InjectiveCard, FS_Subset

-----------------------------------------------------------------------------
(* The lists of a section are no longer than ctx->dat.                     *)
LEMMA ListsShort ==
  ASSUME TypeOK, ListsInv
  PROVE  /\ Len(dat) \in Nat
         /\ \A t \in Types : Len(type_map[t]) \in 0..Len(dat)
         /\ pc \in {"merge", "place"} => Len(data_ord) \in 0..Len(dat)
  <1>1. Len(dat) \in Nat
    BY ItemFacts DEF TypeOK
  <1>2. ASSUME NEW t \in Types PROVE Len(type_map[t]) \in 0..Len(dat)
    <2>1. type_map[t] \in Seq(1..Len(dat)) /\ Injective(type_map[t])
      BY DEF TypeOK, ListsInv, Items
    <2> QED
      BY <1>1, <2>1, InjectiveShort, LenProperties
  <1>3. ASSUME pc \in {"merge", "place"} PROVE Len(data_ord) \in 0..Len(dat)
    <2>1. data_ord \in Seq(1..Len(dat)) /\ Injective(data_ord)
      BY <1>3 DEF TypeOK, ListsInv, Items
    <2> QED
      BY <1>1, <2>1, InjectiveShort, LenProperties
  <1> QED
    BY <1>1, <1>2, <1>3

(* The section that is worked on.                                          *)
LEMMA CurrentFacts ==
  ASSUME CursorInv, Sorting
  PROVE  /\ iter \in 1..10 /\ Current \in Types
         /\ Rank[Current] = 6 + iter /\ Reached = 6 + iter
         /\ Current \in ToSet(resolve_order) /\ Current \notin ToSet(IdTypes)
         /\ Current \notin LaidTypes
  <1>1. iter \in 1..10
    BY IdTypeSet, DataTypeSet DEF CursorInv
  <1>2. Current \in Types /\ Rank[Current] = 6 + iter
    BY <1>1, RankParts DEF Current
  <1>3. Reached = 6 + iter
    BY IdTypeSet DEF Reached, Sorting
  <1> QED
    BY <1>1, <1>2, <1>3, RankParts DEF LaidTypes

(* An item that is a duplicate has the item that it is a duplicate of as   *)
(* its offset, and that one is kept.                                       *)
LEMMA DropFacts ==
  ASSUME TypeOK, CursorInv, ListsInv, MergeInv, DropItem
  PROVE  /\ data_ord[j] \in Items /\ dat[data_ord[j]].type = Current
         /\ offsets[data_ord[j]] \in ToSet(kept)
         /\ offsets[data_ord[j]] \in Items
         /\ dat[offsets[data_ord[j]]].type = Current
         /\ SameBytes(offsets[data_ord[j]], data_ord[j])
  <1>1. pc = "place" /\ j \in 1..Len(data_ord) /\ offsets[data_ord[j]] # -1
    <2>1. j \in Nat /\ j >= 1
      BY ItemFacts DEF TypeOK
    <2> QED
      BY <2>1, LenProperties DEF DropItem, TypeOK
  <1>2. \A m \in 1..Len(data_ord) : data_ord[m] \in Items /\ dat[data_ord[m]].type = Current
    <2>1. data_ord \in Seq(Items) /\ ToSet(data_ord) = {i \in Items : dat[i].type = Current}
      BY <1>1 DEF ListsInv, TypeOK
    <2> QED
      BY <2>1, ToSetSeq
  <1>3. PICK n \in 1..j - 1 : /\ SameAsEarlier(j, n)
                              /\ IF n < j THEN data_ord[n] \in ToSet(kept) ELSE Waiting(n)
    BY <1>1 DEF MergeInv, Waiting
  <1>4. n < j /\ n \in 1..Len(data_ord)
    BY <1>1, <1>3
  <1> QED
    BY <1>1, <1>2, <1>3, <1>4 DEF SameAsEarlier

(* Planning an item keeps the types.                                       *)
LEMMA PlanType ==
  ASSUME TypeOK, NEW i \in Items, Plan(i)
  PROVE  /\ offsets' \in [Items -> Nat \cup {-1}]
         /\ off' \in Nat /\ off' >= HeaderSize
         /\ offsets'[i] \in Nat /\ offsets'[i] >= off
         /\ offsets'[i] = AlignUp(off, Align(i)) /\ off' = offsets'[i] + dat[i].size
         /\ \A k \in Items : k # i => offsets'[k] = offsets[k]
  <1>1. dat[i].type \in Types /\ dat[i].size \in Nat
    BY ItemFacts DEF TypeOK
  <1>2. off \in Nat /\ off >= HeaderSize /\ HeaderSize \in Nat /\ offsets \in [Items -> Nat \cup {-1}]
    BY DEF TypeOK, HeaderSize
  <1>3. AlignUp(off, Align(i)) \in off..off + Align(i) - 1 /\ Align(i) \in {1, 4}
    BY <1>1, <1>2, AlignmentRange, AlignUpFacts DEF Align
  <1>4. AlignUp(off, Align(i)) \in Nat /\ AlignUp(off, Align(i)) >= off
    BY <1>2, <1>3
  <1>5. /\ offsets' = [offsets EXCEPT ![i] = AlignUp(off, Align(i))]
        /\ off' = AlignUp(off, Align(i)) + dat[i].size
    BY DEF Plan, Align
  <1> QED
    BY <1>1, <1>2, <1>4, <1>5

(* So does copying one.                                                    *)
LEMMA CopyType ==
  ASSUME TypeOK, NEW i \in Items, Copy(i)
  PROVE  /\ at' \in [Items -> Nat \cup {-1}] /\ file_sz' \in Nat /\ freed' \in [Items -> Nat]
         /\ at'[i] = AlignUp(file_sz, Align(i)) /\ at'[i] \in Nat /\ at'[i] >= file_sz
         /\ file_sz' = at'[i] + dat[i].size
         /\ \A k \in Items : k # i => at'[k] = at[k] /\ freed'[k] = freed[k]
         /\ freed'[i] = freed[i] + 1
  <1>1. dat[i].type \in Types /\ dat[i].size \in Nat
    BY ItemFacts DEF TypeOK
  <1>2. at \in [Items -> Nat \cup {-1}] /\ file_sz \in Nat /\ freed \in [Items -> Nat]
    BY DEF TypeOK
  <1>3. AlignUp(file_sz, Align(i)) \in file_sz..file_sz + Align(i) - 1 /\ Align(i) \in {1, 4}
    BY <1>1, <1>2, AlignmentRange, AlignUpFacts DEF Align
  <1>4. AlignUp(file_sz, Align(i)) \in Nat /\ AlignUp(file_sz, Align(i)) >= file_sz
    BY <1>2, <1>3
  <1>5. /\ at' = [at EXCEPT ![i] = AlignUp(file_sz, Align(i))]
        /\ file_sz' = AlignUp(file_sz, Align(i)) + dat[i].size
        /\ freed' = [freed EXCEPT ![i] = @ + 1]
    BY DEF Copy, Align
  <1> QED
    BY <1>1, <1>2, <1>4, <1>5

(* Every action keeps the types of the variables.                          *)
LEMMA NextTypeOK ==
  ASSUME TypeOK, CursorInv, ListsInv, MergeInv, PlanInv, [Next]_vars
  PROVE  TypeOK'
  <1>dat. dat \in DataLists /\ dat' = dat /\ Items' = Items
    BY DEF TypeOK, Next, vars, Collect, CollectEnd, PlanId, PlanIdsEnd, SkipSection, ResolveSection,
           SortSection, MergeOne, MergeEnd, PlaceItem, DropItem, SectionEnd, ResolveIds,
           MapSection, MapEnd, CopyItem, CopyEnd, Done, Items
  <1>len. Len(dat) \in Nat
    BY ListsShort
  <1>j. j \in 1..Len(dat) + 1
    BY DEF TypeOK
  <1>iter. iter \in 1..17 /\ Len(Sections) = 16 /\ Len(IdTypes) = 6 /\ Len(resolve_order) = 10
    BY SectionLists, IdTypeSet, DataTypeSet DEF TypeOK
  <1>off. offsets \in [Items -> Nat \cup {-1}] /\ off \in Nat /\ off >= HeaderSize
    BY DEF TypeOK
  <1>map. type_map \in [Types -> Seq(Items)]
    BY DEF TypeOK
  <1>ord. data_ord \in Seq(Items) /\ kept \in Seq(Items)
    BY DEF TypeOK
  <1>short. /\ \A t \in Types : Len(type_map[t]) \in 0..Len(dat)
            /\ pc \in {"merge", "place"} => Len(data_ord) \in 0..Len(dat)
    BY ListsShort
  <1>1. CASE Collect
    <2>1. j \in 1..Len(dat)
      BY <1>1, <1>j, <1>len DEF Collect
    <2>2. j \in Items /\ dat[j].type \in Types
      BY <1>dat, <2>1, ItemFacts DEF Items
    <2>3. /\ type_map' \in [Types -> Seq(Items)]
          /\ type_map'[dat[j].type] = Append(type_map[dat[j].type], j)
          /\ \A t \in Types : t # dat[j].type => type_map'[t] = type_map[t]
      BY <1>1, <1>map, <2>2 DEF Collect
    <2>4. \A t \in Types : \A k \in 1..Len(type_map'[t]) : dat[type_map'[t][k]].type = t
      <3>1. SUFFICES ASSUME NEW t \in Types, NEW k \in 1..Len(type_map'[t])
                     PROVE  dat[type_map'[t][k]].type = t
        OBVIOUS
      <3>2. \A n \in 1..Len(type_map[t]) : dat[type_map[t][n]].type = t
        BY DEF TypeOK
      <3>3. CASE t # dat[j].type
        BY <2>3, <3>2, <3>3
      <3>4. CASE t = dat[j].type
        <4>1. type_map[t] \in Seq(Items) /\ Len(type_map[t]) \in Nat
          BY <1>map, LenProperties
        <4>2. type_map'[t] = Append(type_map[t], j)
          BY <2>3, <3>4
        <4>3. CASE k \in 1..Len(type_map[t])
          BY <2>2, <3>2, <4>1, <4>2, <4>3, AppendFacts
        <4>4. CASE k = Len(type_map[t]) + 1
          BY <2>2, <3>4, <4>1, <4>2, <4>4, AppendFacts
        <4>5. Len(type_map'[t]) = Len(type_map[t]) + 1
          BY <2>2, <4>1, <4>2, AppendFacts
        <4> QED
          BY <3>1, <4>1, <4>3, <4>4, <4>5
      <3> QED
        BY <3>3, <3>4
    <2>5. j' \in 1..Len(dat) + 1
      BY <1>1, <1>len, <2>1 DEF Collect
    <2>6. UNCHANGED <<pc, iter, off, offsets, resolved, data_ord, kept, map, at, file_sz, freed>>
      BY <1>1 DEF Collect
    <2>7. type_map' \in [Types -> Seq(Items)]
      BY <2>3
    <2> QED
      BY <1>dat, <2>4, <2>5, <2>6, <2>7 DEF TypeOK
  <1>2. CASE CollectEnd
    <2>1. pc' = "ids" /\ j' \in 1..Len(dat) + 1
      BY <1>2, <1>len DEF CollectEnd
    <2>2. UNCHANGED <<iter, off, offsets, resolved, type_map, data_ord, kept, map, at, file_sz, freed>>
      BY <1>2 DEF CollectEnd
    <2> QED
      BY <1>dat, <2>1, <2>2 DEF TypeOK
  <1>3. CASE PlanId
    <2> DEFINE section == type_map[IdTypes[iter]]
    <2>1. iter \in 1..6
      BY <1>3, <1>iter DEF PlanId
    <2>2. section \in Seq(Items) /\ Len(section) \in 0..Len(dat)
      BY <1>map, <1>short, <2>1, RankParts
    <2>3. CASE j <= Len(section)
      <3>1. j \in 1..Len(section) /\ j + 1 \in 1..Len(dat) + 1
        BY <1>len, <1>j, <2>2, <2>3
      <3>2. section[j] \in Items /\ Plan(section[j]) /\ j' = j + 1 /\ iter' = iter
        BY <1>3, <2>2, <2>3, <3>1, ToSetSeq DEF PlanId
      <3>3. offsets' \in [Items -> Nat \cup {-1}] /\ off' \in Nat /\ off' >= HeaderSize
        BY <3>2, PlanType
      <3> QED
        BY <1>3, <1>dat, <3>1, <3>2, <3>3 DEF PlanId, TypeOK
    <2>4. CASE ~(j <= Len(section))
      <3>1. iter' = iter + 1 /\ j' = 1 /\ UNCHANGED <<off, offsets>>
        BY <1>3, <2>4 DEF PlanId
      <3>2. iter' \in 1..Len(Sections) + 1 /\ j' \in 1..Len(dat) + 1
        BY <1>len, <1>iter, <2>1, <3>1
      <3> QED
        BY <1>3, <1>dat, <3>1, <3>2 DEF PlanId, TypeOK
    <2> QED
      BY <2>3, <2>4
  <1>4. CASE PlanIdsEnd
    BY <1>4, <1>dat, <1>iter DEF PlanIdsEnd, TypeOK
  <1>5. CASE SkipSection
    <2>1. iter' \in 1..Len(Sections) + 1
      BY <1>5, <1>iter DEF SkipSection
    <2> QED
      BY <1>5, <1>dat, <2>1 DEF SkipSection, TypeOK
  <1>6. CASE ResolveSection
    <2> DEFINE section == ToSet(type_map[resolve_order[iter]])
    <2>1. \A i \in Items : Resolve(i) \in Seq(Int) /\ Len(Resolve(i)) = Len(dat[i].refs)
      BY ResolveType
    <2>2. /\ resolved' = [i \in Items |-> IF i \in section THEN Resolve(i) ELSE resolved[i]]
          /\ offsets' = [i \in Items |-> IF i \in section THEN -1 ELSE offsets[i]]
      BY <1>6 DEF ResolveSection
    <2>3. \A i \in Items : resolved[i] \in Seq(Int) /\ Len(resolved[i]) = Len(dat[i].refs)
      BY DEF TypeOK
    <2> HIDE DEF section
    <2>4. resolved' \in [Items -> Seq(Int)] /\ \A i \in Items : Len(resolved'[i]) = Len(dat[i].refs)
      BY <2>1, <2>2, <2>3
    <2>5. offsets' \in [Items -> Nat \cup {-1}]
      BY <1>off, <2>2
    <2> QED
      BY <1>6, <1>dat, <2>4, <2>5 DEF ResolveSection, TypeOK
  <1>7. CASE SortSection
    <2>1. Sorting /\ pc = "sort"
      BY <1>7 DEF SortSection, Sorting
    <2>2. type_map[Current] \in Seq(Items) /\ Injective(type_map[Current])
      BY <1>map, <2>1, CurrentFacts DEF ListsInv
    <2>3. IsFiniteSet(ToSet(type_map[Current])) /\ ToSet(type_map[Current]) \subseteq Items
      BY <2>2, InjectiveCard, ToSetSeq
    <2>4. data_ord' \in SetToSeqs(ToSet(type_map[Current]))
      BY <1>7 DEF SortSection, Current
    <2>5. data_ord' \in Seq(Items)
      BY <2>3, <2>4, OrderOfSet, SeqMonotonic
    <2>6. kept' \in Seq(Items) /\ j' \in 1..Len(dat) + 1 /\ pc' \in {"place", "merge"}
      BY <1>7, <1>len DEF SortSection
    <2>7. UNCHANGED <<dat, iter, off, offsets, resolved, type_map, map, at, file_sz, freed>>
      BY <1>7 DEF SortSection
    <2> QED
      BY <1>dat, <2>5, <2>6, <2>7 DEF TypeOK
  <1>8. CASE MergeOne
    <2> DEFINE same == IF offsets[data_ord[j]] = -1 THEN Duplicates(data_ord, j) ELSE {}
    <2>1. j \in 1..Len(data_ord) /\ Len(data_ord) \in 0..Len(dat)
      BY <1>8, <1>j, <1>short, <1>len DEF MergeOne
    <2>2. data_ord[j] \in Nat
      BY <1>ord, <1>len, <2>1, ToSetSeq DEF Items
    <2>3. offsets' = [i \in Items |-> IF i \in same THEN data_ord[j] ELSE offsets[i]]
      BY <1>8 DEF MergeOne
    <2> HIDE DEF same
    <2>4. offsets' \in [Items -> Nat \cup {-1}]
      BY <1>off, <2>2, <2>3
    <2>5. j' \in 1..Len(dat) + 1
      BY <1>8, <1>len, <2>1 DEF MergeOne
    <2> QED
      BY <1>8, <1>dat, <2>4, <2>5 DEF MergeOne, TypeOK
  <1>9. CASE MergeEnd
    BY <1>9, <1>dat, <1>len DEF MergeEnd, TypeOK
  <1>10. CASE PlaceItem
    <2>1. j \in 1..Len(data_ord) /\ Len(data_ord) \in 0..Len(dat)
      BY <1>10, <1>j, <1>short, <1>len DEF PlaceItem
    <2>2. data_ord[j] \in Items
      BY <1>ord, <2>1, ToSetSeq
    <2>3. offsets' \in [Items -> Nat \cup {-1}] /\ off' \in Nat /\ off' >= HeaderSize
      BY <1>10, <2>2, PlanType DEF PlaceItem
    <2>4. j' \in 1..Len(dat) + 1
      BY <1>10, <1>len, <2>1 DEF PlaceItem
    <2>5. kept' \in Seq(Items)
      BY <1>10, <1>ord, <2>2, AppendFacts DEF PlaceItem
    <2> QED
      BY <1>10, <1>dat, <2>3, <2>4, <2>5 DEF PlaceItem, TypeOK
  <1>11. CASE DropItem
    <2> DEFINE i == data_ord[j]
    <2>1. i \in Items /\ offsets[i] \in Items
      BY <1>11, DropFacts
    <2>2. /\ offsets' = [offsets EXCEPT ![i] = offsets[offsets[i]]]
          /\ freed' = [freed EXCEPT ![i] = @ + 1]
      BY <1>11 DEF DropItem
    <2>3. freed \in [Items -> Nat]
      BY DEF TypeOK
    <2> HIDE DEF i
    <2>4. offsets' \in [Items -> Nat \cup {-1}] /\ freed' \in [Items -> Nat]
      BY <1>off, <2>1, <2>2, <2>3
    <2>5. j' \in 1..Len(dat) + 1
      BY <1>11, <1>j, <1>short, <1>len DEF DropItem
    <2> QED
      BY <1>11, <1>dat, <2>4, <2>5 DEF DropItem, TypeOK
  <1>12. CASE SectionEnd
    <2>1. pc = "place" /\ Sorting
      BY <1>12 DEF SectionEnd, Sorting
    <2>2. iter \in 1..10 /\ Current \in Types
      BY <2>1, CurrentFacts
    <2>3. type_map' = [type_map EXCEPT ![Current] = kept]
      BY <1>12 DEF SectionEnd, Current
    <2>4. \A k \in 1..Len(kept) : dat[kept[k]].type = Current
      <3>1. ToSet(kept) \subseteq Passed /\ ToSet(data_ord) = {i \in Items : dat[i].type = Current}
        BY <2>1 DEF ListsInv
      <3>2. Passed \subseteq ToSet(data_ord)
        <4>1. j - 1 <= Len(data_ord)
          BY <1>j, <1>len, <1>short, <2>1 DEF CursorInv
        <4>2. 1..j - 1 \subseteq 1..Len(data_ord)
          BY <1>j, <1>len, <1>short, <2>1, <4>1
        <4>3. ToSet(data_ord) = {data_ord[k] : k \in 1..Len(data_ord)}
          BY <1>ord, ToSetSeq
        <4> QED
          BY <2>1, <4>2, <4>3 DEF Passed
      <3>3. ToSet(kept) = {kept[k] : k \in 1..Len(kept)}
        BY <1>ord, ToSetSeq
      <3> QED
        BY <3>1, <3>2, <3>3
    <2>5. type_map' \in [Types -> Seq(Items)]
      BY <1>map, <1>ord, <2>2, <2>3
    <2>6. \A t \in Types : \A k \in 1..Len(type_map[t]) : dat[type_map[t][k]].type = t
      BY DEF TypeOK
    <2>7. \A t \in Types : \A k \in 1..Len(type_map'[t]) : dat[type_map'[t][k]].type = t
      <3>1. SUFFICES ASSUME NEW t \in Types
                     PROVE  \A k \in 1..Len(type_map'[t]) : dat[type_map'[t][k]].type = t
        OBVIOUS
      <3>2. type_map'[t] = IF t = Current THEN kept ELSE type_map[t]
        BY <1>map, <2>2, <2>3
      <3> QED
        BY <2>4, <2>6, <3>2
    <2>8. iter' \in 1..Len(Sections) + 1
      BY <1>12, <1>iter, <2>2 DEF SectionEnd
    <2> QED
      BY <1>12, <1>dat, <2>5, <2>7, <2>8 DEF SectionEnd, TypeOK
  <1>13. CASE ResolveIds
    <2>1. \A i \in Items : Resolve(i) \in Seq(Int) /\ Len(Resolve(i)) = Len(dat[i].refs)
      BY ResolveType
    <2>2. \A i \in Items : resolved[i] \in Seq(Int) /\ Len(resolved[i]) = Len(dat[i].refs)
      BY DEF TypeOK
    <2>3. resolved' = [i \in Items |-> IF dat[i].type \in ToSet(IdTypes) THEN Resolve(i) ELSE resolved[i]]
      BY <1>13 DEF ResolveIds
    <2>4. resolved' \in [Items -> Seq(Int)] /\ \A i \in Items : Len(resolved'[i]) = Len(dat[i].refs)
      BY <2>1, <2>2, <2>3
    <2>5. off' \in Nat /\ off' >= HeaderSize
      <3>1. AlignUp(off, 4) \in off..off + 4 - 1 /\ off' = AlignUp(off, 4)
        BY <1>13, <1>off, AlignUpFacts DEF ResolveIds
      <3> QED
        BY <1>off, <3>1 DEF HeaderSize
    <2>6. map' \in Seq([type : Types \cup {"header", "map_list"}, offset : Nat, size : Nat])
      BY <1>13 DEF ResolveIds
    <2> QED
      BY <1>13, <1>dat, <2>4, <2>5, <2>6 DEF ResolveIds, TypeOK
  <1>14. CASE MapSection
    <2> DEFINE t == Sections[iter]
               MapEntries == [type : Types \cup {"header", "map_list"}, offset : Nat, size : Nat]
    <2>1. iter \in 1..16 /\ pc = "map"
      BY <1>14, <1>iter DEF MapSection
    <2>2. t \in Types /\ Rank[t] = iter
      BY <2>1, RankSections
    <2>3. ASSUME type_map[t] # << >>
          PROVE  MapEntry(t) \in MapEntries
      <3>1. Rank[t] < Reached
        BY <1>iter, <2>1, <2>2 DEF Reached
      <3>2. type_map[t] \in Seq(Items) /\ Len(type_map[t]) \in Nat /\ Len(type_map[t]) # 0
        BY <1>map, <2>2, <2>3, ToSetSeq
      <3>3. 1 \in 1..Len(type_map[t])
        BY <3>2
      <3>4. type_map[t][1] \in Items /\ dat[type_map[t][1]].type = t
        BY <2>2, <3>2, <3>3, ToSetSeq DEF TypeOK
      <3>5. Planned(t) = type_map[t] /\ type_map[t][1] \in ToSet(type_map[t])
        BY <3>1, <3>2, <3>3, ToSetSeq DEF Planned
      <3>6. type_map[t][1] \in Placed
        BY <3>4, <3>5 DEF Placed
      <3>7. offsets[type_map[t][1]] >= HeaderSize
        BY <3>6 DEF PlanInv
      <3>8. offsets[type_map[t][1]] \in Nat
        BY <1>off, <3>4, <3>7 DEF HeaderSize
      <3> QED
        BY <2>2, <3>2, <3>8 DEF MapEntry
    <2>4. map \in Seq(MapEntries)
      BY DEF TypeOK
    <2>5. map' = IF type_map[t] = << >> THEN map ELSE Append(map, MapEntry(t))
      BY <1>14 DEF MapSection
    <2>6. iter' \in 1..Len(Sections) + 1
      BY <1>14, <1>iter, <2>1 DEF MapSection
    <2>7. map' \in Seq(MapEntries)
      <3> HIDE DEF MapEntries, t
      <3> QED
        BY <2>3, <2>4, <2>5, AppendFacts
    <2> QED
      BY <1>14, <1>dat, <2>6, <2>7 DEF MapSection, TypeOK
  <1>15. CASE MapEnd
    <2> DEFINE MapEntries == [type : Types \cup {"header", "map_list"}, offset : Nat, size : Nat]
    <2>1. [type |-> "map_list", offset |-> off, size |-> 1] \in MapEntries
      BY <1>off
    <2>2. map' = Append(map, [type |-> "map_list", offset |-> off, size |-> 1])
      BY <1>15 DEF MapEnd
    <2>3. map \in Seq(MapEntries)
      BY DEF TypeOK
    <2>4. map' \in Seq(MapEntries)
      <3> HIDE DEF MapEntries
      <3> QED
        BY <2>1, <2>2, <2>3, AppendFacts
    <2> QED
      BY <1>15, <1>dat, <1>iter, <1>len, <2>4 DEF MapEnd, TypeOK
  <1>16. CASE CopyItem
    <2> DEFINE section == type_map[Sections[iter]]
    <2>1. iter \in 1..16 /\ Sections[iter] \in Types
      <3>1. iter \in 1..16
        BY <1>16, <1>iter DEF CopyItem
      <3> QED
        BY <3>1, RankSections
    <2>2. section \in Seq(Items) /\ Len(section) \in 0..Len(dat)
      BY <1>map, <1>short, <2>1
    <2>3. CASE j <= Len(section)
      <3>1. j \in 1..Len(section) /\ j + 1 \in 1..Len(dat) + 1
        BY <1>len, <1>j, <2>2, <2>3
      <3>2. section[j] \in Items /\ Copy(section[j]) /\ j' = j + 1 /\ iter' = iter
        BY <1>16, <2>2, <2>3, <3>1, ToSetSeq DEF CopyItem
      <3>3. at' \in [Items -> Nat \cup {-1}] /\ file_sz' \in Nat /\ freed' \in [Items -> Nat]
        BY <3>2, CopyType
      <3> QED
        BY <1>16, <1>dat, <3>1, <3>2, <3>3 DEF CopyItem, TypeOK
    <2>4. CASE ~(j <= Len(section))
      <3>1. iter' = iter + 1 /\ j' = 1 /\ UNCHANGED <<at, file_sz, freed>>
        BY <1>16, <2>4 DEF CopyItem
      <3>2. iter' \in 1..Len(Sections) + 1 /\ j' \in 1..Len(dat) + 1
        BY <1>len, <1>iter, <2>1, <3>1
      <3> QED
        BY <1>16, <1>dat, <3>1, <3>2 DEF CopyItem, TypeOK
    <2> QED
      BY <2>3, <2>4
  <1>17. CASE CopyEnd
    <2>1. file_sz \in Nat
      BY DEF TypeOK
    <2>2. AlignUp(file_sz, 4) \in file_sz..file_sz + 4 - 1
      BY <2>1, AlignUpFacts
    <2>3. file_sz' \in Nat
      BY <1>17, <2>1, <2>2 DEF CopyEnd
    <2> QED
      BY <1>17, <1>dat, <2>3 DEF CopyEnd, TypeOK
  <1>18. CASE UNCHANGED vars
    BY <1>18 DEF vars, Items, TypeOK
  <1> QED
    BY <1>1, <1>2, <1>3, <1>4, <1>5, <1>6, <1>7, <1>8, <1>9, <1>10, <1>11, <1>12, <1>13,
       <1>14, <1>15, <1>16, <1>17, <1>18 DEF Next, Done

-----------------------------------------------------------------------------
(* The list of items never changes.                                        *)
LEMMA SameItems ==
  ASSUME [Next]_vars
  PROVE  dat' = dat /\ Items' = Items
  BY DEF Next, vars, Collect, CollectEnd, PlanId, PlanIdsEnd, SkipSection, ResolveSection,
         SortSection, MergeOne, MergeEnd, PlaceItem, DropItem, SectionEnd, ResolveIds,
         MapSection, MapEnd, CopyItem, CopyEnd, Done, Items

(* The cursors stay inside of the lists.                                   *)
LEMMA NextCursorInv ==
  ASSUME TypeOK, TypeOK', CursorInv, [Next]_vars
  PROVE  CursorInv'
  <1>iter. iter \in 1..17 /\ Len(Sections) = 16 /\ Len(IdTypes) = 6 /\ Len(resolve_order) = 10
    BY SectionLists, IdTypeSet, DataTypeSet DEF TypeOK
  <1>j. j \in Nat /\ j >= 1
    BY ItemFacts DEF TypeOK
  <1>len. /\ \A t \in Types : Len(type_map[t]) \in Nat
          /\ Len(data_ord) \in Nat /\ Len(data_ord') \in Nat
    BY LenProperties DEF TypeOK
  <1> USE DEF CursorInv, Sorting
  <1>1. CASE Collect
    BY <1>1 DEF Collect
  <1>2. CASE CollectEnd
    BY <1>2, <1>iter DEF CollectEnd
  <1>3. CASE PlanId
    <2> DEFINE section == type_map[IdTypes[iter]]
    <2>1. iter \in 1..6 /\ pc = "ids" /\ pc' = "ids" /\ type_map' = type_map
      BY <1>3, <1>iter DEF PlanId
    <2>2. Len(section) \in Nat
      BY <1>len, <2>1, RankParts
    <2>3. CASE j <= Len(section)
      <3>1. j' = j + 1 /\ iter' = iter
        BY <1>3, <2>3 DEF PlanId
      <3> QED
        BY <1>j, <1>iter, <2>1, <2>2, <2>3, <3>1
    <2>4. CASE ~(j <= Len(section))
      <3>1. iter' = iter + 1 /\ j' = 1
        BY <1>3, <2>4 DEF PlanId
      <3> QED
        BY <1>iter, <2>1, <3>1
    <2> QED
      BY <2>3, <2>4
  <1>4. CASE PlanIdsEnd
    BY <1>4, <1>iter DEF PlanIdsEnd
  <1>5. CASE SkipSection
    BY <1>5, <1>iter DEF SkipSection
  <1>6. CASE ResolveSection
    BY <1>6, <1>iter DEF ResolveSection
  <1>7. CASE SortSection
    <2>1. pc = "sort" /\ iter' = iter /\ j' = 1 /\ pc' \in {"place", "merge"}
      BY <1>7 DEF SortSection
    <2> QED
      BY <1>len, <2>1
  <1>8. CASE MergeOne
    <2>1. pc = "merge" /\ j <= Len(data_ord) /\ UNCHANGED <<pc, iter, data_ord>> /\ j' = j + 1
      BY <1>8 DEF MergeOne
    <2> QED
      BY <1>len, <1>j, <2>1
  <1>9. CASE MergeEnd
    BY <1>9, <1>len DEF MergeEnd
  <1>10. CASE PlaceItem
    <2>1. pc = "place" /\ j <= Len(data_ord) /\ UNCHANGED <<pc, iter, data_ord>> /\ j' = j + 1
      BY <1>10 DEF PlaceItem
    <2> QED
      BY <1>len, <1>j, <2>1
  <1>11. CASE DropItem
    <2>1. pc = "place" /\ j <= Len(data_ord) /\ UNCHANGED <<pc, iter, data_ord>> /\ j' = j + 1
      BY <1>11 DEF DropItem
    <2> QED
      BY <1>len, <1>j, <2>1
  <1>12. CASE SectionEnd
    BY <1>12, <1>iter DEF SectionEnd
  <1>13. CASE ResolveIds
    BY <1>13 DEF ResolveIds
  <1>14. CASE MapSection
    BY <1>14 DEF MapSection
  <1>15. CASE MapEnd
    BY <1>15 DEF MapEnd
  <1>16. CASE CopyItem
    <2> DEFINE section == type_map[Sections[iter]]
    <2>1. iter \in 1..16 /\ pc = "copy" /\ pc' = "copy" /\ type_map' = type_map
      BY <1>16, <1>iter DEF CopyItem
    <2>2. Len(section) \in Nat
      BY <1>len, <2>1, RankSections
    <2>3. CASE j <= Len(section)
      <3>1. j' = j + 1 /\ iter' = iter
        BY <1>16, <2>3 DEF CopyItem
      <3> QED
        BY <1>j, <1>iter, <2>1, <2>2, <2>3, <3>1
    <2>4. CASE ~(j <= Len(section))
      <3>1. iter' = iter + 1 /\ j' = 1
        BY <1>16, <2>4 DEF CopyItem
      <3> QED
        BY <1>iter, <2>1, <3>1
    <2> QED
      BY <2>3, <2>4
  <1>17. CASE CopyEnd
    BY <1>17 DEF CopyEnd
  <1>18. CASE UNCHANGED vars
    BY <1>18 DEF vars
  <1> QED
    BY <1>1, <1>2, <1>3, <1>4, <1>5, <1>6, <1>7, <1>8, <1>9, <1>10, <1>11, <1>12, <1>13,
       <1>14, <1>15, <1>16, <1>17, <1>18 DEF Next, Done

(* A section that was laid stays so.                                       *)
LEMMA LaidGrows ==
  ASSUME TypeOK, CursorInv, [Next]_vars
  PROVE  /\ Reached \in Nat /\ Reached' \in Nat /\ Reached <= Reached'
         /\ LaidTypes \subseteq LaidTypes'
  <1>1. iter \in 1..17 /\ Len(Sections) = 16 /\ Len(IdTypes) = 6 /\ Len(resolve_order) = 10
    BY SectionLists, IdTypeSet, DataTypeSet DEF TypeOK
  <1>2. pc \in {"collect", "ids", "sections", "sort", "merge", "place", "map", "copy", "done"}
    BY DEF TypeOK
  <1>3. /\ pc = "collect" => iter = 1
        /\ pc = "ids" => iter \in 1..7
        /\ pc = "sections" => iter \in 1..11
        /\ pc \in {"sort", "merge", "place"} => iter \in 1..10
    BY <1>1 DEF CursorInv, Sorting
  <1>4. \/ UNCHANGED <<pc, iter>>
        \/ pc = "collect" /\ pc' = "ids" /\ iter' = iter
        \/ pc = "ids" /\ pc' = "ids" /\ iter' = iter + 1
        \/ pc = "ids" /\ pc' = "sections" /\ iter > 6 /\ iter' = 1
        \/ pc = "sections" /\ pc' = "sections" /\ iter' = iter + 1 /\ iter <= 10
        \/ pc = "sections" /\ pc' = "sort" /\ iter' = iter
        \/ pc = "sort" /\ pc' \in {"merge", "place"} /\ iter' = iter
        \/ pc = "merge" /\ pc' = "place" /\ iter' = iter
        \/ pc = "place" /\ pc' = "sections" /\ iter' = iter + 1
        \/ pc = "sections" /\ pc' = "map" /\ iter > 10
        \/ pc = "map" /\ pc' \in {"map", "copy"}
        \/ pc = "copy" /\ pc' \in {"copy", "done"}
    BY <1>1, SMTT(30) DEF Next, vars, Collect, CollectEnd, PlanId, PlanIdsEnd, SkipSection, ResolveSection,
         SortSection, MergeOne, MergeEnd, PlaceItem, DropItem, SectionEnd, ResolveIds,
         MapSection, MapEnd, CopyItem, CopyEnd, Done
  <1>5. Reached \in Nat /\ Reached' \in Nat /\ Reached <= Reached'
    BY <1>1, <1>2, <1>3, <1>4 DEF Reached
  <1> QED
    BY <1>5, RankSections DEF LaidTypes

(* What a list that is not laid yet holds: the items of its type.          *)
LEMMA CurrentItems ==
  ASSUME TypeOK, CursorInv, ListsInv, (pc = "sections" /\ iter <= 10) \/ Sorting
  PROVE  ToSet(type_map[Current]) = {i \in Items : dat[i].type = Current}
  <1>1. iter \in 1..10
    BY SectionLists, DataTypeSet DEF TypeOK, CursorInv
  <1>2. Current \in Types /\ Rank[Current] = 6 + iter
    BY <1>1, RankParts DEF Current
  <1>3. Reached = 6 + iter /\ pc # "collect"
    BY IdTypeSet DEF Reached, Sorting
  <1>4. Current \notin LaidTypes
    BY <1>1, <1>2, <1>3 DEF LaidTypes
  <1> QED
    BY <1>2, <1>3, <1>4 DEF ListsInv

(* The lists hold what they hold.                                          *)
LEMMA NextListsInv ==
  ASSUME TypeOK, TypeOK', CursorInv, ListsInv, [Next]_vars
  PROVE  ListsInv'
  <1>dat. dat' = dat /\ Items' = Items
    BY SameItems
  <1>laid. LaidTypes \subseteq LaidTypes'
    BY LaidGrows
  <1>map. type_map \in [Types -> Seq(Items)]
    BY DEF TypeOK
  <1>j. j \in 1..Len(dat) + 1 /\ Len(dat) \in Nat
    BY ItemFacts DEF TypeOK
  <1>1. CASE Collect
    <2>1. pc = "collect" /\ pc' = "collect" /\ j \in 1..Len(dat) /\ j' = j + 1
      BY <1>1, <1>j DEF Collect
    <2>2. j \in Items /\ dat[j].type \in Types
      BY <2>1, ItemFacts DEF Items, TypeOK
    <2>3. \A t \in Types : type_map'[t] = IF t = dat[j].type THEN Append(type_map[t], j) ELSE type_map[t]
      BY <1>1, <1>map, <2>2 DEF Collect
    <2>4. ASSUME NEW t \in Types
          PROVE  Injective(type_map'[t]) /\ ToSet(type_map'[t]) = {i \in 1..j' - 1 : dat[i].type = t}
      <3>1. type_map[t] \in Seq(Items) /\ Injective(type_map[t])
            /\ ToSet(type_map[t]) = {i \in 1..j - 1 : dat[i].type = t}
        BY <1>map, <2>1 DEF ListsInv
      <3>2. j \notin ToSet(type_map[t])
        BY <1>j, <3>1
      <3>3. j' - 1 = j /\ 1..j = 1..j - 1 \cup {j}
        BY <1>j, <2>1
      <3>4. CASE t # dat[j].type
        BY <2>3, <3>1, <3>3, <3>4
      <3>5. CASE t = dat[j].type
        <4>1. Injective(type_map'[t]) /\ ToSet(type_map'[t]) = ToSet(type_map[t]) \cup {j}
          BY <2>2, <2>3, <3>1, <3>2, <3>5, AppendFacts
        <4> QED
          BY <3>1, <3>3, <3>5, <4>1
      <3> QED
        BY <3>4, <3>5
    <2> QED
      BY <1>dat, <2>1, <2>4 DEF ListsInv
  <1>2. CASE CollectEnd
    <2>1. pc = "collect" /\ pc' = "ids" /\ type_map' = type_map /\ j = Len(dat) + 1
      BY <1>2, <1>j DEF CollectEnd
    <2>2. 1..j - 1 = Items
      BY <1>j, <2>1 DEF Items
    <2> QED
      BY <1>dat, <2>1, <2>2 DEF ListsInv
  <1>3. CASE PlanId
    <2>1. pc = "ids" /\ pc' = "ids" /\ type_map' = type_map
      BY <1>3 DEF PlanId
    <2> QED
      BY <1>dat, <1>laid, <2>1 DEF ListsInv
  <1>4. CASE PlanIdsEnd
    <2>1. pc = "ids" /\ pc' = "sections" /\ type_map' = type_map
      BY <1>4 DEF PlanIdsEnd
    <2> QED
      BY <1>dat, <1>laid, <2>1 DEF ListsInv
  <1>5. CASE SkipSection
    <2>1. pc = "sections" /\ pc' = "sections" /\ type_map' = type_map
      BY <1>5 DEF SkipSection
    <2> QED
      BY <1>dat, <1>laid, <2>1 DEF ListsInv
  <1>6. CASE ResolveSection
    <2>1. pc = "sections" /\ pc' = "sort" /\ type_map' = type_map
      BY <1>6 DEF ResolveSection
    <2> QED
      BY <1>dat, <1>laid, <2>1 DEF ListsInv
  <1>7. CASE SortSection
    <2>1. /\ pc = "sort" /\ pc' \in {"merge", "place"} /\ type_map' = type_map
          /\ iter' = iter /\ j' = 1 /\ kept' = << >>
          /\ data_ord' \in SetToSeqs(ToSet(type_map[Current]))
      BY <1>7 DEF SortSection, Current
    <2>2. Sorting
      BY <2>1 DEF Sorting
    <2>3. type_map[Current] \in Seq(Items) /\ Injective(type_map[Current]) /\ Current' = Current
      BY <1>map, <2>1, <2>2, CurrentFacts DEF ListsInv, Current
    <2>4. Injective(data_ord') /\ ToSet(data_ord') = {i \in Items : dat[i].type = Current}
      <3>1. IsFiniteSet(ToSet(type_map[Current]))
        BY <2>3, InjectiveCard
      <3> QED
        BY <2>1, <2>2, <3>1, OrderOfSet, CurrentItems
    <2>5. << >> \in Seq(Items) /\ Injective(<< >>) /\ ToSet(<< >>) = {}
      BY EmptySeq, ToSetSeq DEF Injective
    <2>6. /\ \A t \in Types : Injective(type_map[t])
          /\ \A t \in Types : t \in ToSet(IdTypes) \/ t \notin LaidTypes' =>
               ToSet(type_map[t]) = {i \in Items : dat[i].type = t}
      BY <1>laid, <2>1 DEF ListsInv
    <2>7. pc' # "collect"
      BY <2>1
    <2> QED
      BY <1>dat, <2>1, <2>3, <2>4, <2>5, <2>6, <2>7 DEF ListsInv
  <1>8. CASE MergeOne
    <2>1. pc = "merge" /\ pc' = "merge" /\ UNCHANGED <<type_map, data_ord, kept, iter>>
      BY <1>8 DEF MergeOne
    <2> QED
      BY <1>dat, <1>laid, <2>1 DEF ListsInv, Current
  <1>9. CASE MergeEnd
    <2>1. pc = "merge" /\ pc' = "place" /\ UNCHANGED <<type_map, data_ord, kept, iter>>
      BY <1>9 DEF MergeEnd
    <2>2. kept = << >>
      BY <2>1 DEF ListsInv
    <2>3. << >> \in Seq(Items) /\ Injective(<< >>) /\ ToSet(<< >>) = {}
      BY EmptySeq, ToSetSeq DEF Injective
    <2> QED
      BY <1>dat, <1>laid, <2>1, <2>2, <2>3 DEF ListsInv, Current
  <1>10. CASE PlaceItem
    <2>1. /\ pc = "place" /\ pc' = "place" /\ UNCHANGED <<type_map, data_ord, iter>>
          /\ j <= Len(data_ord) /\ kept' = Append(kept, data_ord[j]) /\ j' = j + 1
      BY <1>10 DEF PlaceItem
    <2>2. data_ord \in Seq(Items) /\ kept \in Seq(Items) /\ Injective(data_ord) /\ Len(data_ord) \in Nat
      BY <2>1, LenProperties DEF ListsInv, TypeOK
    <2>3. j \in 1..Len(data_ord) /\ data_ord[j] \in Items
      BY <1>j, <2>1, <2>2, ToSetSeq
    <2>4. Passed = {data_ord[m] : m \in 1..j - 1} /\ Passed' = {data_ord[m] : m \in 1..j}
      BY <1>j, <2>1 DEF Passed
    <2>5. Injective(kept) /\ ToSet(kept) \subseteq Passed
      BY <2>1 DEF ListsInv
    <2>6. data_ord[j] \notin ToSet(kept)
      BY <2>2, <2>3, <2>4, <2>5 DEF Injective
    <2>7. Injective(kept') /\ ToSet(kept') = ToSet(kept) \cup {data_ord[j]}
      BY <2>1, <2>2, <2>3, <2>5, <2>6, AppendFacts
    <2>8. Passed \cup {data_ord[j]} \subseteq Passed'
      BY <2>3, <2>4
    <2>9. ToSet(kept') \subseteq Passed'
      BY <2>5, <2>7, <2>8
    <2> QED
      BY <1>dat, <1>laid, <2>1, <2>7, <2>9 DEF ListsInv, Current
  <1>11. CASE DropItem
    <2>1. /\ pc = "place" /\ pc' = "place" /\ UNCHANGED <<type_map, data_ord, iter, kept>>
          /\ j' = j + 1
      BY <1>11 DEF DropItem
    <2>2. Passed \subseteq Passed'
      BY <1>j, <2>1 DEF Passed
    <2> QED
      BY <1>dat, <1>laid, <2>1, <2>2 DEF ListsInv, Current
  <1>12. CASE SectionEnd
    <2>1. pc = "place" /\ pc' = "sections" /\ iter' = iter + 1 /\ Sorting
      BY <1>12 DEF SectionEnd, Sorting
    <2>2. type_map' = [type_map EXCEPT ![Current] = kept]
      BY <1>12 DEF SectionEnd, Current
    <2>3. iter \in 1..10 /\ Current \in Types /\ Rank[Current] = 6 + iter /\ Current \notin ToSet(IdTypes)
      BY <2>1, CurrentFacts
    <2>4. Reached' = 6 + iter + 1
      BY <2>1, <2>3, IdTypeSet DEF Reached
    <2>5. Current \in LaidTypes'
      BY <2>3, <2>4 DEF LaidTypes
    <2>6. \A t \in Types : type_map'[t] = IF t = Current THEN kept ELSE type_map[t]
      BY <1>map, <2>2
    <2>7. Injective(kept)
      BY <2>1 DEF ListsInv
    <2>8. /\ \A t \in Types : Injective(type_map'[t])
          /\ \A t \in Types : t \in ToSet(IdTypes) \/ t \notin LaidTypes' =>
               ToSet(type_map'[t]) = {i \in Items : dat[i].type = t}
      BY <1>laid, <2>1, <2>3, <2>5, <2>6, <2>7 DEF ListsInv
    <2> QED
      BY <1>dat, <2>1, <2>8 DEF ListsInv
  <1>13. CASE ResolveIds
    <2>1. pc = "sections" /\ pc' = "map" /\ type_map' = type_map
      BY <1>13 DEF ResolveIds
    <2> QED
      BY <1>dat, <1>laid, <2>1 DEF ListsInv
  <1>14. CASE MapSection
    <2>1. pc = "map" /\ pc' = "map" /\ type_map' = type_map
      BY <1>14 DEF MapSection
    <2> QED
      BY <1>dat, <1>laid, <2>1 DEF ListsInv
  <1>15. CASE MapEnd
    <2>1. pc = "map" /\ pc' = "copy" /\ type_map' = type_map
      BY <1>15 DEF MapEnd
    <2> QED
      BY <1>dat, <1>laid, <2>1 DEF ListsInv
  <1>16. CASE CopyItem
    <2>1. pc = "copy" /\ pc' = "copy" /\ type_map' = type_map
      BY <1>16 DEF CopyItem
    <2> QED
      BY <1>dat, <1>laid, <2>1 DEF ListsInv
  <1>17. CASE CopyEnd
    <2>1. pc = "copy" /\ pc' = "done" /\ type_map' = type_map
      BY <1>17 DEF CopyEnd
    <2> QED
      BY <1>dat, <1>laid, <2>1 DEF ListsInv
  <1>18. CASE UNCHANGED vars
    BY <1>18 DEF vars, ListsInv, Items, LaidTypes, Reached, Current, Passed
  <1> QED
    BY <1>1, <1>2, <1>3, <1>4, <1>5, <1>6, <1>7, <1>8, <1>9, <1>10, <1>11, <1>12, <1>13,
       <1>14, <1>15, <1>16, <1>17, <1>18 DEF Next, Done

(* The list by checksum is over items, each at one place.                  *)
LEMMA OrdFacts ==
  ASSUME TypeOK, ListsInv, pc \in {"merge", "place"}
  PROVE  /\ Len(data_ord) \in Nat
         /\ \A m \in 1..Len(data_ord) : data_ord[m] \in Items /\ dat[data_ord[m]].type = Current
         /\ \A m, n \in 1..Len(data_ord) : data_ord[m] = data_ord[n] => m = n
         /\ \A i \in Items : dat[i].type = Current => \E m \in 1..Len(data_ord) : data_ord[m] = i
         /\ offsets \in [Items -> Nat \cup {-1}]
         /\ j \in Nat /\ j >= 1
  <1>1. data_ord \in Seq(Items) /\ offsets \in [Items -> Nat \cup {-1}] /\ j \in Nat /\ j >= 1
    BY ItemFacts DEF TypeOK
  <1>2. Injective(data_ord) /\ ToSet(data_ord) = {i \in Items : dat[i].type = Current}
    BY DEF ListsInv
  <1> QED
    BY <1>1, <1>2, ToSetSeq DEF Injective

(* A duplicate is dropped after the item that it is a duplicate of was     *)
(* kept.                                                                   *)
LEMMA NextMergeInv ==
  ASSUME TypeOK, TypeOK', CursorInv, ListsInv, ListsInv', MergeInv, [Next]_vars
  PROVE  MergeInv'
  <1>dat. dat' = dat /\ Items' = Items
    BY SameItems
  <1>1. CASE ResolveSection
    <2>1. pc = "sections" /\ iter <= 10 /\ pc' = "sort" /\ iter' = iter
      BY <1>1, DataTypeSet DEF ResolveSection
    <2>2. ToSet(type_map[Current]) = {i \in Items : dat[i].type = Current}
      BY <2>1, CurrentItems
    <2>3. offsets' = [i \in Items |-> IF i \in ToSet(type_map[Current]) THEN -1 ELSE offsets[i]]
      BY <1>1 DEF ResolveSection, Current
    <2>4. \A i \in Items : dat[i].type = Current => offsets'[i] = -1
      BY <2>2, <2>3
    <2> QED
      BY <1>dat, <2>1, <2>4 DEF MergeInv, Current
  <1>2. CASE SortSection
    <2>1. pc = "sort" /\ pc' \in {"merge", "place"} /\ iter' = iter /\ offsets' = offsets /\ j' = 1
      BY <1>2 DEF SortSection
    <2>2. \A i \in Items : dat[i].type = Current => offsets'[i] = -1
      BY <2>1 DEF MergeInv
    <2>3. \A m \in 1..Len(data_ord') : data_ord'[m] \in Items /\ dat[data_ord'[m]].type = Current
      <3>1. data_ord' \in Seq(Items)
        BY <1>dat DEF TypeOK
      <3>2. ToSet(data_ord') = {i \in Items : dat[i].type = Current}
        BY <1>dat, <2>1 DEF ListsInv, Current
      <3> QED
        BY <3>1, <3>2, ToSetSeq
    <2>4. \A m \in 1..Len(data_ord') : Waiting(m)'
      BY <2>2, <2>3 DEF Waiting
    <2>5. pc' = "place" => \A m \in j'..Len(data_ord') : Waiting(m)'
      BY <2>1, <2>4
    <2>6. pc' # "sort"
      BY <2>1
    <2> QED
      BY <2>4, <2>5, <2>6 DEF MergeInv
  <1>3. CASE MergeOne
    <2> DEFINE same == IF Waiting(j) THEN Duplicates(data_ord, j) ELSE {}
    <2>1. /\ pc = "merge" /\ pc' = "merge" /\ j <= Len(data_ord) /\ j' = j + 1
          /\ UNCHANGED <<data_ord, resolved>>
          /\ offsets' = [i \in Items |-> IF i \in same THEN data_ord[j] ELSE offsets[i]]
      BY <1>3 DEF MergeOne, Waiting
    <2>2. /\ Len(data_ord) \in Nat
          /\ \A m \in 1..Len(data_ord) : data_ord[m] \in Items
          /\ \A m, n \in 1..Len(data_ord) : data_ord[m] = data_ord[n] => m = n
          /\ offsets \in [Items -> Nat \cup {-1}]
          /\ j \in Nat /\ j >= 1
      BY <2>1, OrdFacts
    <2>3. \A m \in 1..Len(data_ord) : data_ord[m] \in same =>
            Waiting(j) /\ m > j /\ SameBytes(data_ord[j], data_ord[m]) /\ Waiting(m)
      BY <2>2 DEF Duplicates, Waiting
    <2> HIDE DEF same
    <2>4. \A m \in 1..Len(data_ord) :
            offsets'[data_ord[m]] = IF data_ord[m] \in same THEN data_ord[j] ELSE offsets[data_ord[m]]
      BY <2>1, <2>2
    <2>5. ASSUME NEW m \in 1..Len(data_ord), ~Waiting(m)'
          PROVE  \E n \in 1..j : SameAsEarlier(m, n)' /\ Waiting(n)'
      <3>1. CASE data_ord[m] \in same
        <4>1. m > j /\ SameBytes(data_ord[j], data_ord[m]) /\ Waiting(j)
          BY <2>3, <3>1
        <4>2. PICK n \in 1..Len(data_ord) : n = j
          BY <2>1, <2>2
        <4>3. data_ord[n] \notin same
          BY <2>2, <2>3, <4>2
        <4>4. Waiting(n)'
          BY <2>1, <2>4, <4>1, <4>2, <4>3 DEF Waiting
        <4>5. offsets'[data_ord[m]] = data_ord[n]
          BY <2>4, <3>1, <4>2
        <4>6. SameAsEarlier(m, n)'
          BY <1>dat, <2>1, <4>1, <4>2, <4>5 DEF SameAsEarlier, SameBytes, Bytes
        <4> QED
          BY <2>2, <4>2, <4>4, <4>6
      <3>2. CASE data_ord[m] \notin same
        <4>1. ~Waiting(m)
          BY <2>1, <2>4, <2>5, <3>2 DEF Waiting
        <4>2. PICK n \in 1..j - 1 : SameAsEarlier(m, n) /\ Waiting(n)
          BY <2>1, <4>1 DEF MergeInv
        <4>3. n \in 1..Len(data_ord) /\ n < j /\ n \in 1..j
          BY <2>1, <2>2, <4>2
        <4>4. data_ord[n] \notin same
          BY <2>2, <2>3, <4>3
        <4>5. Waiting(n)'
          BY <2>1, <2>4, <4>2, <4>3, <4>4 DEF Waiting
        <4>6. SameAsEarlier(m, n)'
          BY <1>dat, <2>1, <2>4, <3>2, <4>2 DEF SameAsEarlier, SameBytes, Bytes
        <4> QED
          BY <4>3, <4>5, <4>6
      <3> QED
        BY <3>1, <3>2
    <2>6. j' - 1 = j
      BY <2>1, <2>2
    <2> QED
      BY <2>1, <2>5, <2>6 DEF MergeInv
  <1>4. CASE MergeEnd
    <2>1. /\ pc = "merge" /\ pc' = "place" /\ j > Len(data_ord) /\ j' = 1
          /\ UNCHANGED <<data_ord, resolved, offsets>>
      BY <1>4 DEF MergeEnd
    <2>2. Len(data_ord) \in Nat /\ j \in Nat
      BY <2>1, OrdFacts
    <2>3. ASSUME NEW m \in 1..Len(data_ord), ~Waiting(m)
          PROVE  \E n \in 1..m - 1 : SameAsEarlier(m, n) /\ Waiting(n) /\ ~(n < 1)
      <3>1. PICK n \in 1..j - 1 : SameAsEarlier(m, n) /\ Waiting(n)
        BY <2>1, <2>3 DEF MergeInv
      <3>2. n \in 1..m - 1 /\ ~(n < 1)
        BY <2>2, <3>1 DEF SameAsEarlier
      <3> QED
        BY <3>1, <3>2
    <2>4. \A m, n : (Waiting(m)' <=> Waiting(m)) /\ (SameAsEarlier(m, n)' <=> SameAsEarlier(m, n))
      BY <1>dat, <2>1 DEF Waiting, SameAsEarlier, SameBytes, Bytes
    <2> QED
      BY <2>1, <2>3, <2>4 DEF MergeInv
  <1>5. CASE PlaceItem \/ DropItem
    <2>1. /\ pc = "place" /\ pc' = "place" /\ j <= Len(data_ord) /\ j' = j + 1
          /\ UNCHANGED <<data_ord, resolved>>
      BY <1>5 DEF PlaceItem, DropItem
    <2>2. /\ Len(data_ord) \in Nat
          /\ \A m \in 1..Len(data_ord) : data_ord[m] \in Items
          /\ \A m, n \in 1..Len(data_ord) : data_ord[m] = data_ord[n] => m = n
          /\ offsets \in [Items -> Nat \cup {-1}]
          /\ j \in Nat /\ j >= 1
      BY <2>1, OrdFacts
    <2>3. \A m \in 1..Len(data_ord) : m # j => offsets'[data_ord[m]] = offsets[data_ord[m]]
      <3>1. CASE PlaceItem
        BY <2>1, <2>2, <3>1, PlanType DEF PlaceItem
      <3>2. CASE DropItem
        BY <2>1, <2>2, <3>2 DEF DropItem
      <3> QED
        BY <1>5, <3>1, <3>2
    <2>4. ToSet(kept) \subseteq ToSet(kept') /\ (Waiting(j) => data_ord[j] \in ToSet(kept'))
      <3>1. CASE PlaceItem
        <4>1. kept \in Seq(Items) /\ data_ord[j] \in Items
          BY <2>1, <2>2 DEF TypeOK
        <4> QED
          BY <3>1, <4>1, AppendFacts DEF PlaceItem
      <3>2. CASE DropItem
        BY <3>2 DEF DropItem, Waiting
      <3> QED
        BY <1>5, <3>1, <3>2
    <2>5. ASSUME NEW m \in j + 1..Len(data_ord), ~Waiting(m)'
          PROVE  \E n \in 1..m - 1 :
                   /\ SameAsEarlier(m, n)'
                   /\ IF n < j + 1 THEN data_ord[n] \in ToSet(kept') ELSE Waiting(n)'
      <3>1. m \in j..Len(data_ord) /\ m \in 1..Len(data_ord) /\ m # j
        BY <2>2
      <3>2. ~Waiting(m)
        BY <2>1, <2>3, <2>5, <3>1 DEF Waiting
      <3>3. PICK n \in 1..m - 1 : /\ SameAsEarlier(m, n)
                                  /\ IF n < j THEN data_ord[n] \in ToSet(kept) ELSE Waiting(n)
        BY <2>1, <3>1, <3>2 DEF MergeInv
      <3>4. SameAsEarlier(m, n)'
        BY <1>dat, <2>1, <2>3, <3>1, <3>3 DEF SameAsEarlier, SameBytes, Bytes
      <3>5. CASE n < j
        BY <2>2, <2>4, <3>3, <3>4, <3>5
      <3>6. CASE n = j
        BY <2>2, <2>4, <3>3, <3>4, <3>6
      <3>7. CASE n > j
        <4>1. n \in 1..Len(data_ord) /\ n # j /\ ~(n < j + 1) /\ ~(n < j)
          BY <2>2, <3>1, <3>7
        <4>2. Waiting(n)'
          BY <2>1, <2>3, <3>3, <4>1 DEF Waiting
        <4> QED
          BY <3>3, <3>4, <4>1, <4>2
      <3> QED
        BY <2>2, <3>5, <3>6, <3>7
    <2> QED
      BY <2>1, <2>5 DEF MergeInv
  <1>6. CASE UNCHANGED <<pc, dat, iter, j, offsets, resolved, data_ord, kept>>
    BY <1>6 DEF MergeInv, Items, Current, Waiting, SameAsEarlier, SameBytes, Bytes
  <1>7. CASE pc' \notin {"sort", "merge", "place"}
    BY <1>7 DEF MergeInv
  <1>8. \/ ResolveSection \/ SortSection \/ MergeOne \/ MergeEnd \/ PlaceItem \/ DropItem
        \/ UNCHANGED <<pc, dat, iter, j, offsets, resolved, data_ord, kept>>
        \/ pc' \notin {"sort", "merge", "place"}
    BY DEF Next, vars, Collect, CollectEnd, PlanId, PlanIdsEnd, SkipSection, SectionEnd, ResolveIds,
           MapSection, MapEnd, CopyItem, CopyEnd, Done
  <1> QED
    BY <1>1, <1>2, <1>3, <1>4, <1>5, <1>6, <1>7, <1>8
-----------------------------------------------------------------------------
(* The plan: every step leaves what is final as it is, or places one item  *)
(* behind all others, or drops one that has a duplicate.                   *)

(* The number of the section that the plan has reached.                    *)
LEMMA ReachedType ==
  ASSUME TypeOK
  PROVE  Reached \in Nat /\ Reached >= 1
  <1>1. iter \in 1..17 /\ Len(Sections) = 16 /\ Len(IdTypes) = 6
    BY SectionLists, IdTypeSet DEF TypeOK
  <1> QED
    BY <1>1 DEF Reached

(* What is planned is a list of items of the type.                         *)
LEMMA PlannedFacts ==
  ASSUME TypeOK, CursorInv, ListsInv
  PROVE  /\ \A t \in Types :
              /\ Planned(t) \in Seq(Items)
              /\ \A m \in 1..Len(Planned(t)) : Planned(t)[m] \in Items /\ dat[Planned(t)[m]].type = t
              /\ Rank[t] > Reached => Planned(t) = << >>
              /\ t \in LaidTypes => Planned(t) = type_map[t]
         /\ \A i \in Items : i \in Placed <=>
              \E m \in 1..Len(Planned(dat[i].type)) : i = Planned(dat[i].type)[m]
         /\ \A i \in Placed : i \in Items /\ dat[i].type \in Types /\ Rank[dat[i].type] <= Reached
  <1>map. type_map \in [Types -> Seq(Items)] /\ kept \in Seq(Items) /\ dat \in DataLists
    BY DEF TypeOK
  <1>typ. \A t \in Types : \A k \in 1..Len(type_map[t]) : dat[type_map[t][k]].type = t
    BY DEF TypeOK
  <1>r. /\ Reached \in Nat
        /\ \A t \in Types : Rank[t] \in 1..16
    BY ReachedType, RankSections
  <1>1. ASSUME NEW t \in Types
        PROVE  /\ Planned(t) \in Seq(Items)
               /\ \A m \in 1..Len(Planned(t)) : Planned(t)[m] \in Items /\ dat[Planned(t)[m]].type = t
               /\ Rank[t] > Reached => Planned(t) = << >>
               /\ t \in LaidTypes => Planned(t) = type_map[t]
    <2>1. type_map[t] \in Seq(Items) /\ Len(type_map[t]) \in Nat
          /\ \A k \in 1..Len(type_map[t]) : type_map[t][k] \in Items
      BY <1>map, ToSetSeq
    <2>2. CASE Rank[t] < Reached
      <3>1. Planned(t) = type_map[t]
        BY <2>2 DEF Planned
      <3> QED
        BY <1>r, <1>typ, <2>1, <2>2, <3>1, SMTT(30)
    <2>3. CASE Rank[t] = Reached /\ pc = "ids"
      <3>1. Planned(t) = SubSeq(type_map[t], 1, j - 1)
        <4>1. ~(Rank[t] < Reached)
          BY <1>r, <2>3
        <4> QED
          BY <2>3, <4>1 DEF Planned
      <3>2. j - 1 \in 0..Len(type_map[t])
        <4>1. j \in Nat /\ j >= 1
          BY ItemFacts DEF TypeOK
        <4>2. Rank[t] = iter
          BY <2>3 DEF Reached
        <4>3. CASE j > 1
          <5>1. iter \in 1..6 /\ j - 1 <= Len(type_map[IdTypes[iter]])
            BY <2>3, <4>3, IdTypeSet DEF CursorInv
          <5>2. IdTypes[iter] = t
            BY <4>2, <5>1, SectionLists, RankSections
          <5> QED
            BY <2>1, <4>1, <5>1, <5>2
        <4> QED
          BY <2>1, <4>1, <4>3
      <3>3. t \notin LaidTypes
        BY <1>r, <2>3 DEF LaidTypes
      <3> DEFINE s == SubSeq(type_map[t], 1, j - 1)
      <3>4. /\ s \in Seq(Items) /\ Len(s) = j - 1
            /\ \A k \in 1..j - 1 : s[k] = type_map[t][k] /\ k \in 1..Len(type_map[t])
        BY <2>1, <3>2, PrefixFacts
      <3> QED
        BY <1>r, <1>typ, <2>1, <2>3, <3>1, <3>3, <3>4
    <2>4. CASE Rank[t] = Reached /\ pc = "place"
      <3>1. Sorting
        BY <2>4 DEF Sorting
      <3>2. t = Current /\ t \notin LaidTypes
        BY <2>4, <3>1, CurrentFacts, RankSections
      <3>3. Planned(t) = kept
        BY <1>r, <2>4 DEF Planned
      <3>4. ToSet(kept) \subseteq Passed /\ Passed \subseteq ToSet(data_ord)
            /\ ToSet(data_ord) = {i \in Items : dat[i].type = Current}
        <4>1. Len(data_ord) \in Nat /\ j \in Nat /\ j >= 1
          BY <2>4, OrdFacts
        <4>2. j - 1 <= Len(data_ord)
          BY <2>4, <4>1 DEF CursorInv
        <4>3. 1..j - 1 \subseteq 1..Len(data_ord)
          BY <4>1, <4>2
        <4>4. ToSet(data_ord) = {data_ord[k] : k \in 1..Len(data_ord)}
          BY ToSetSeq DEF TypeOK
        <4> QED
          BY <2>4, <4>3, <4>4 DEF Passed, ListsInv
      <3>5. ToSet(kept) = {kept[k] : k \in 1..Len(kept)}
        BY <1>map, ToSetSeq
      <3> QED
        BY <1>map, <1>r, <2>4, <3>2, <3>3, <3>4, <3>5
    <2>5. CASE ~(Rank[t] < Reached) /\ ~(Rank[t] = Reached /\ pc \in {"ids", "place"})
      <3>1. Planned(t) = << >> /\ t \notin LaidTypes
        BY <2>5 DEF Planned, LaidTypes
      <3> QED
        BY <3>1, EmptySeq
    <2> QED
      BY <2>2, <2>3, <2>4, <2>5
  <1>2. \A i \in Items : dat[i].type \in Types
    BY <1>map, ItemFacts
  <1>3. \A i \in Items : i \in Placed <=>
          \E m \in 1..Len(Planned(dat[i].type)) : i = Planned(dat[i].type)[m]
    BY <1>1, <1>2, ToSetSeq DEF Placed
  <1>4. \A i \in Placed : i \in Items
    BY DEF Placed
  <1>5. ASSUME NEW i \in Placed PROVE Rank[dat[i].type] <= Reached
    <2>1. Planned(dat[i].type) # << >>
      BY <1>3, <1>4, EmptySeq
    <2> QED
      BY <1>1, <1>2, <1>4, <1>r, <2>1, SMTT(30)
  <1> QED
    BY <1>1, <1>2, <1>3, <1>4, <1>5

(* Items of the section that is worked on are not final before they are    *)
(* placed or dropped.                                                      *)
LEMMA Unsettled ==
  ASSUME TypeOK, CursorInv, ListsInv, (pc = "sections" /\ iter <= 10) \/ pc \in {"sort", "merge"},
         NEW i \in Items, dat[i].type = Current
  PROVE  i \notin Settled
  <1>1. iter \in 1..10
    BY SectionLists, DataTypeSet DEF TypeOK, CursorInv, Sorting
  <1>2. Current \in Types /\ Rank[Current] = 6 + iter
    BY <1>1, RankParts DEF Current
  <1>3. Reached = 6 + iter /\ pc \notin {"ids", "place"}
    BY IdTypeSet DEF Reached
  <1>4. Current \notin LaidTypes /\ Passed = {} /\ Planned(Current) = << >>
    BY <1>1, <1>2, <1>3 DEF LaidTypes, Passed, Planned
  <1>5. i \notin Placed
    BY <1>2, <1>4, PlannedFacts, EmptySeq
  <1> QED
    BY <1>4, <1>5 DEF Settled

(* What the loop over a sorted list has still before it is not settled.    *)
LEMMA UnsettledPlace ==
  ASSUME TypeOK, CursorInv, ListsInv, pc = "place", NEW m \in j..Len(data_ord)
  PROVE  data_ord[m] \in Items \ Settled
  <1>1. Sorting
    BY DEF Sorting
  <1>2. /\ Len(data_ord) \in Nat /\ j \in Nat /\ j >= 1
        /\ \A n \in 1..Len(data_ord) : data_ord[n] \in Items /\ dat[data_ord[n]].type = Current
        /\ \A n, k \in 1..Len(data_ord) : data_ord[n] = data_ord[k] => n = k
    BY OrdFacts
  <1>3. m \in 1..Len(data_ord) /\ \A n \in 1..j - 1 : n \in 1..Len(data_ord) /\ n # m
    BY <1>2
  <1>4. data_ord[m] \notin Passed
    BY <1>2, <1>3 DEF Passed
  <1>5. Current \in Types /\ Rank[Current] = Reached /\ Current \notin LaidTypes
    BY <1>1, CurrentFacts
  <1>6. Planned(Current) = kept /\ ToSet(kept) \subseteq Passed
    BY <1>5, ReachedType DEF Planned, ListsInv
  <1>7. data_ord[m] \notin Placed
    BY <1>2, <1>3, <1>4, <1>6 DEF Placed
  <1> QED
    BY <1>2, <1>3, <1>4, <1>5, <1>7 DEF Settled

(* The plan stays when what is planned of each section does.               *)
LEMMA SamePlanned ==
  ASSUME TypeOK, [Next]_vars, \A t \in Types : Planned(t)' = Planned(t)
  PROVE  Placed' = Placed
  <1>1. dat' = dat /\ Items' = Items
    BY SameItems
  <1>2. \A i \in Items : dat[i].type \in Types
    BY ItemFacts DEF TypeOK
  <1> QED
    BY <1>1, <1>2 DEF Placed

(* An item is added to what is planned of its section.                     *)
LEMMA AddPlanned ==
  ASSUME TypeOK, CursorInv, ListsInv, [Next]_vars, NEW x \in Items,
         \A t \in Types : Planned(t)' = IF t = dat[x].type THEN Append(Planned(t), x) ELSE Planned(t)
  PROVE  Placed' = Placed \cup {x}
  <1>1. dat' = dat /\ Items' = Items
    BY SameItems
  <1>2. ASSUME NEW i \in Items PROVE i \in Placed' <=> i \in Placed \/ i = x
    <2>1. PICK t \in Types : t = dat[i].type
      BY ItemFacts DEF TypeOK
    <2>2. i \in Placed' <=> i \in ToSet(Planned(t)')
      BY <1>1, <2>1 DEF Placed
    <2>3. i \in Placed <=> i \in ToSet(Planned(t))
      BY <2>1 DEF Placed
    <2>4. ToSet(Append(Planned(t), x)) = ToSet(Planned(t)) \cup {x}
      BY PlannedFacts, AppendFacts
    <2>5. Planned(t)' = IF t = dat[x].type THEN Append(Planned(t), x) ELSE Planned(t)
      OBVIOUS
    <2> QED
      BY <2>1, <2>2, <2>3, <2>4, <2>5
  <1>3. Placed \subseteq Items /\ Placed' \subseteq Items
    BY <1>1 DEF Placed
  <1> QED
    BY <1>2, <1>3

(* The plan of a section of ids places an item, or changes nothing.        *)
LEMMA PlanIdKind ==
  ASSUME TypeOK, CursorInv, CursorInv', ListsInv, PlanId
  PROVE  \/ SamePlan /\ off' = off
         \/ \E x \in Items \ Settled : Places(x)
  <1>1. /\ iter \in 1..6 /\ pc = "ids" /\ pc' = "ids" /\ type_map' = type_map
        /\ Reached = iter /\ j \in Nat /\ j >= 1
    <2>1. iter \in 1..6
      BY IdTypeSet DEF PlanId, TypeOK
    <2> QED
      BY <2>1, ItemFacts DEF PlanId, Reached, TypeOK
  <1> DEFINE t == IdTypes[iter]
             section == type_map[t]
  <1>2. t \in Types /\ Rank[t] = iter /\ t \in ToSet(IdTypes) /\ t \notin LaidTypes
    BY <1>1, RankParts DEF LaidTypes
  <1>3. section \in Seq(Items) /\ Len(section) \in Nat /\ Injective(section)
        /\ ToSet(section) = {i \in Items : dat[i].type = t}
    BY <1>1, <1>2, LenProperties DEF TypeOK, ListsInv
  <1>4. j - 1 \in 0..Len(section)
    BY <1>1, <1>3 DEF CursorInv
  <1>5. Planned(t) = SubSeq(section, 1, j - 1)
    BY <1>1, <1>2 DEF Planned
  <1>6. \A u \in Types : u # t => Rank[u] # iter
    BY <1>1, <1>2, RankSections
  <1>7. CASE j <= Len(section)
    <2>1. PICK x \in Items : x = section[j] /\ j \in 1..Len(section)
      BY <1>1, <1>3, <1>7, ToSetSeq
    <2>2. /\ Plan(x) /\ j' = j + 1 /\ iter' = iter /\ UNCHANGED <<freed, resolved, at, file_sz>>
      BY <1>7, <2>1 DEF PlanId
    <2>3. Reached' = Reached /\ LaidTypes' = LaidTypes
      BY <1>1, <2>2 DEF Reached, LaidTypes
    <2>4. dat[x].type = t
      BY <1>1, <1>2, <2>1 DEF TypeOK
    <2>5. Planned(t)' = Append(Planned(t), x)
      <3>1. Planned(t)' = SubSeq(section, 1, j - 1 + 1)
        BY <1>1, <1>2, <2>2, <2>3 DEF Planned
      <3> QED
        BY <1>1, <1>3, <1>4, <1>5, <1>7, <2>1, <3>1, PrefixFacts
    <2>6. \A u \in Types : u # t => Planned(u)' = Planned(u)
      BY <1>1, <1>6, <2>2, <2>3 DEF Planned
    <2>7. Passed = {} /\ Passed' = {}
      BY <1>1 DEF Passed
    <2>8. x \notin Placed
      <3>1. ASSUME NEW m \in 1..Len(Planned(t)) PROVE Planned(t)[m] # x
        <4>1. Len(Planned(t)) = j - 1 /\ Planned(t)[m] = section[m]
          BY <1>3, <1>4, <1>5, PrefixFacts
        <4>2. m \in 1..Len(section) /\ m # j
          BY <1>1, <1>3, <1>4, <3>1, <4>1
        <4> QED
          BY <1>3, <2>1, <4>1, <4>2 DEF Injective
      <3> QED
        BY <2>4, <3>1, PlannedFacts
    <2>9. x \notin Settled
      BY <1>2, <2>4, <2>7, <2>8 DEF Settled
    <2>10. Placed' = Placed \cup {x}
      <3>1. \A u \in Types : Planned(u)' = IF u = dat[x].type THEN Append(Planned(u), x) ELSE Planned(u)
        <4> SUFFICES ASSUME NEW u \in Types
                     PROVE  Planned(u)' = IF u = dat[x].type THEN Append(Planned(u), x) ELSE Planned(u)
          OBVIOUS
        <4>1. CASE u = t
          BY <1>1, <2>2, <2>4, <2>5, <4>1
        <4>2. CASE u # t
          BY <2>4, <2>6, <4>2
        <4> QED
          BY <4>1, <4>2
      <3> QED
        BY <3>1, AddPlanned DEF Next
    <2>11. Settled' = Settled \cup {x}
      <3>1. dat' = dat /\ Items' = Items
        BY SameItems DEF Next
      <3> QED
        BY <2>3, <2>7, <2>10, <3>1 DEF Settled
    <2>12. Rank[dat[x].type] = Reached
      BY <1>1, <1>2, <2>4
    <2> QED
      BY <1>1, <2>2, <2>3, <2>4, <2>5, <2>6, <2>9, <2>10, <2>11, <2>12 DEF Places
  <1>8. CASE ~(j <= Len(section))
    <2>1. iter' = iter + 1 /\ j' = 1 /\ offsets' = offsets /\ off' = off
      BY <1>8 DEF PlanId
    <2>2. Reached' = iter + 1
      BY <1>1, <2>1 DEF Reached
    <2>3. j - 1 = Len(section)
      BY <1>1, <1>3, <1>4, <1>8
    <2>4. Planned(t) = section
      BY <1>3, <1>5, <2>3, PrefixFacts
    <2>5. ASSUME NEW u \in Types PROVE Planned(u)' = Planned(u)
      <3>0. Rank[u] \in Nat
        BY RankSections
      <3>1. CASE u = t
        <4>1. Planned(u)' = type_map[t]
          BY <1>1, <1>2, <2>2, <3>1 DEF Planned
        <4> QED
          BY <2>4, <3>1, <4>1
      <3>2. CASE Rank[u] < iter
        <4>1. Rank[u] < Reached /\ Rank[u] < Reached'
          BY <1>1, <2>2, <3>0, <3>2
        <4> QED
          BY <1>1, <4>1 DEF Planned
      <3>3. CASE Rank[u] = iter + 1
        <4>1. Planned(u)' = SubSeq(type_map[u], 1, 0)
          BY <1>1, <2>1, <2>2, <3>3 DEF Planned
        <4>2. type_map[u] \in Seq(Items)
          BY DEF TypeOK
        <4>3. Planned(u)' = << >>
          BY <4>1, <4>2, SubSeqEmpty
        <4>4. ~(Rank[u] < Reached) /\ Rank[u] # Reached
          BY <1>1, <3>3
        <4> QED
          BY <4>3, <4>4 DEF Planned
      <3>4. CASE Rank[u] > iter + 1
        <4>1. ~(Rank[u] < Reached) /\ Rank[u] # Reached /\ ~(Rank[u] < Reached') /\ Rank[u] # Reached'
          BY <1>1, <2>2, <3>0, <3>4
        <4> QED
          BY <4>1 DEF Planned
      <3> QED
        BY <1>1, <1>6, <3>1, <3>2, <3>3, <3>4, RankSections
    <2>6. Placed' = Placed
      BY <2>5, SamePlanned DEF Next
    <2>7. Passed = {} /\ Passed' = {}
      BY <1>1 DEF Passed
    <2>8. dat' = dat /\ Items' = Items
      BY SameItems DEF Next
    <2>9. \A u \in Types : u \in LaidTypes' <=> u \in LaidTypes \/ u = t
      BY <1>1, <1>2, <1>6, <2>2, RankSections DEF LaidTypes
    <2>10. \A i \in Items : dat[i].type = t => i \in Placed
      BY <1>3, <2>4 DEF Placed
    <2>11. Settled' = Settled
      <3>1. \A i \in Items : dat[i].type \in Types
        BY ItemFacts DEF TypeOK
      <3> QED
        BY <2>6, <2>7, <2>8, <2>9, <2>10, <3>1 DEF Settled
    <2> QED
      BY <2>1, <2>5, <2>6, <2>11 DEF SamePlan
  <1> QED
    BY <1>7, <1>8

(* Placing the next item of a section.                                     *)
LEMMA PlaceItemKind ==
  ASSUME TypeOK, CursorInv, ListsInv, PlaceItem
  PROVE  \E x \in Items \ Settled : Places(x)
  <1>1. /\ pc = "place" /\ pc' = "place" /\ Sorting /\ iter' = iter /\ j' = j + 1 /\ j \in Nat /\ j >= 1
        /\ j <= Len(data_ord) /\ Len(data_ord) \in Nat
        /\ UNCHANGED <<data_ord, type_map, freed, resolved, at, file_sz>>
    BY OrdFacts DEF PlaceItem, Sorting
  <1>2. PICK x \in Items \ Settled : x = data_ord[j] /\ j \in 1..Len(data_ord)
    BY <1>1, UnsettledPlace
  <1>3. Plan(x) /\ kept' = Append(kept, x)
    BY <1>2 DEF PlaceItem
  <1>4. PICK t \in Types : t = Current
    BY <1>1, CurrentFacts
  <1>5. Rank[t] = Reached /\ Reached \in Nat /\ dat[x].type = t
    BY <1>1, <1>2, <1>4, CurrentFacts, OrdFacts, ReachedType
  <1>6. Reached' = Reached /\ LaidTypes' = LaidTypes
    BY <1>1 DEF Reached, LaidTypes
  <1>7. ASSUME NEW u \in Types
        PROVE  Planned(u)' = IF u = dat[x].type THEN Append(Planned(u), x) ELSE Planned(u)
    <2>1. CASE u = t
      <3>1. Planned(u) = kept /\ Planned(u)' = kept'
        BY <1>1, <1>5, <1>6, <2>1 DEF Planned
      <3> QED
        BY <1>3, <1>5, <2>1, <3>1
    <2>2. CASE u # t
      <3>1. Rank[u] # Reached
        BY <1>5, <2>2, RankSections
      <3>2. Planned(u)' = Planned(u)
        BY <1>1, <1>6, <3>1 DEF Planned
      <3> QED
        BY <1>5, <2>2, <3>2
    <2> QED
      BY <2>1, <2>2
  <1>8. Placed' = Placed \cup {x}
    BY <1>7, AddPlanned DEF Next
  <1>9. Passed' = Passed \cup {x}
    <2>1. 1..j' - 1 = 1..j - 1 \cup {j}
      BY <1>1
    <2> QED
      BY <1>1, <1>2, <2>1 DEF Passed
  <1>10. Settled' = Settled \cup {x}
    <2>1. dat' = dat /\ Items' = Items
      BY SameItems DEF Next
    <2> QED
      BY <1>6, <1>8, <1>9, <2>1 DEF Settled
  <1> QED
    BY <1>1, <1>2, <1>3, <1>5, <1>6, <1>7, <1>8, <1>10 DEF Places

(* Dropping the next item of a section.                                    *)
LEMMA DropItemKind ==
  ASSUME TypeOK, CursorInv, ListsInv, MergeInv, DropItem
  PROVE  \E x \in Items \ Settled : Drops(x)
  <1>1. /\ pc = "place" /\ pc' = "place" /\ Sorting /\ iter' = iter /\ j' = j + 1 /\ j \in Nat /\ j >= 1
        /\ j <= Len(data_ord) /\ Len(data_ord) \in Nat
        /\ UNCHANGED <<data_ord, type_map, kept, off, resolved, at, file_sz>>
    BY OrdFacts DEF DropItem, Sorting
  <1>2. PICK x \in Items \ Settled : x = data_ord[j] /\ j \in 1..Len(data_ord)
    BY <1>1, UnsettledPlace
  <1>3. /\ offsets' = [offsets EXCEPT ![x] = offsets[offsets[x]]]
        /\ freed' = [freed EXCEPT ![x] = @ + 1]
    BY <1>2 DEF DropItem
  <1>4. PICK t \in Types : t = Current
    BY <1>1, CurrentFacts
  <1>5. Rank[t] = Reached /\ Reached \in Nat
    BY <1>1, <1>4, CurrentFacts, ReachedType
  <1>6. Reached' = Reached /\ LaidTypes' = LaidTypes
    BY <1>1 DEF Reached, LaidTypes
  <1>7. \A u \in Types : Planned(u)' = Planned(u)
    BY <1>1, <1>6 DEF Planned
  <1>8. Placed' = Placed
    BY <1>7, SamePlanned DEF Next
  <1>9. Passed' = Passed \cup {x}
    <2>1. 1..j' - 1 = 1..j - 1 \cup {j}
      BY <1>1
    <2> QED
      BY <1>1, <1>2, <2>1 DEF Passed
  <1>10. Settled' = Settled \cup {x}
    <2>1. dat' = dat /\ Items' = Items
      BY SameItems DEF Next
    <2> QED
      BY <1>6, <1>8, <1>9, <2>1 DEF Settled
  <1>11. /\ offsets[x] \in Placed /\ SameBytes(offsets[x], x) /\ dat[offsets[x]].type = dat[x].type
    <2>1. /\ dat[x].type = t /\ offsets[x] \in ToSet(kept) /\ offsets[x] \in Items
          /\ dat[offsets[x]].type = t /\ SameBytes(offsets[x], x)
      BY <1>2, <1>4, DropFacts
    <2>2. Planned(t) = kept
      BY <1>1, <1>5 DEF Planned
    <2> QED
      BY <2>1, <2>2 DEF Placed
  <1> QED
    BY <1>1, <1>2, <1>3, <1>6, <1>7, <1>8, <1>10, <1>11 DEF Drops

(* The cases in which LaidTypes and what is passed stay.                   *)
LEMMA SameSettled ==
  ASSUME TypeOK, [Next]_vars, Placed' = Placed, LaidTypes' = LaidTypes, Passed' = Passed
  PROVE  Settled' = Settled
  <1>1. dat' = dat /\ Items' = Items
    BY SameItems
  <1> QED
    BY <1>1 DEF Settled

(* The actions that neither place nor drop an item.                        *)
LEMMA OtherKinds ==
  ASSUME TypeOK, TypeOK', CursorInv, ListsInv, [Next]_vars, ~PlanId, ~PlaceItem, ~DropItem
  PROVE  SamePlan
  <1>iter. iter \in 1..17 /\ Len(Sections) = 16 /\ Len(IdTypes) = 6 /\ Len(resolve_order) = 10
    BY SectionLists, IdTypeSet, DataTypeSet DEF TypeOK
  <1>rank. \A t \in Types : Rank[t] \in 1..16
    BY RankSections
  <1>map. type_map \in [Types -> Seq(Items)]
    BY DEF TypeOK
  <1>1. CASE Collect
    <2>1. /\ pc = "collect" /\ pc' = "collect" /\ offsets' = offsets /\ Reached = 1 /\ Reached' = 1
      BY <1>1 DEF Collect, Reached
    <2>2. \A t \in Types : Planned(t)' = Planned(t)
      BY <1>rank, <2>1 DEF Planned
    <2>3. LaidTypes' = LaidTypes /\ Passed' = Passed
      BY <2>1 DEF LaidTypes, Passed
    <2> QED
      BY <2>1, <2>2, <2>3, SamePlanned, SameSettled DEF SamePlan
  <1>2. CASE CollectEnd
    <2>1. /\ pc = "collect" /\ pc' = "ids" /\ offsets' = offsets /\ iter' = iter /\ j' = 1
          /\ type_map' = type_map
      BY <1>2 DEF CollectEnd
    <2>2. iter = 1 /\ Reached = 1 /\ Reached' = 1
      BY <2>1 DEF CursorInv, Reached
    <2>3. j' - 1 \in Int /\ j' - 1 < 1 /\ 1 \in Int
      BY <2>1
    <2>4. ASSUME NEW t \in Types PROVE Planned(t)' = Planned(t)
      <3>1. SubSeq(type_map[t], 1, j' - 1) = << >>
        BY <2>3, SubSeqEmpty
      <3>2. Planned(t)' = << >>
        BY <1>rank, <2>1, <2>2, <3>1 DEF Planned
      <3>3. Planned(t) = << >>
        BY <1>rank, <2>1, <2>2 DEF Planned
      <3> QED
        BY <3>2, <3>3
    <2>5. LaidTypes' = LaidTypes /\ Passed' = Passed
      BY <2>1, <2>2 DEF LaidTypes, Passed
    <2> QED
      BY <2>1, <2>4, <2>5, SamePlanned, SameSettled DEF SamePlan
  <1>3. CASE PlanIdsEnd
    <2>1. pc = "ids" /\ pc' = "sections" /\ iter = 7 /\ iter' = 1 /\ UNCHANGED <<j, offsets, type_map>>
      BY <1>3, <1>iter DEF PlanIdsEnd, CursorInv
    <2>2. j = 1
      BY <2>1, ItemFacts, IdTypeSet DEF CursorInv, TypeOK
    <2>3. Reached = 7 /\ Reached' = 7
      BY <1>iter, <2>1 DEF Reached
    <2>4. j - 1 \in Int /\ j - 1 < 1 /\ 1 \in Int
      BY <2>2
    <2>5. ASSUME NEW t \in Types PROVE Planned(t)' = Planned(t)
      <3>1. SubSeq(type_map[t], 1, j - 1) = << >>
        BY <2>4, SubSeqEmpty
      <3> QED
        BY <2>1, <2>3, <3>1 DEF Planned
    <2>6. LaidTypes' = LaidTypes /\ Passed' = Passed
      BY <2>1, <2>3 DEF LaidTypes, Passed
    <2> QED
      BY <2>1, <2>5, <2>6, SamePlanned, SameSettled DEF SamePlan
  <1>4. CASE SkipSection
    <2>1. /\ pc = "sections" /\ pc' = "sections" /\ iter \in 1..10 /\ iter' = iter + 1
          /\ UNCHANGED <<offsets, type_map>> /\ type_map[Current] = << >>
      BY <1>4, <1>iter DEF SkipSection, Current
    <2>2. PICK t \in Types : t = Current /\ Rank[t] = 6 + iter
      BY <2>1, RankParts DEF Current
    <2>3. Reached = 6 + iter /\ Reached' = 6 + iter + 1
      BY <1>iter, <2>1 DEF Reached
    <2>4. \A u \in Types : u # t => Rank[u] # 6 + iter
      BY <2>2, RankSections
    <2>5. ASSUME NEW u \in Types PROVE Planned(u)' = Planned(u)
      <3>1. CASE u = t
        BY <2>1, <2>2, <2>3, <3>1 DEF Planned
      <3>2. CASE Rank[u] < Reached
        BY <1>rank, <2>1, <2>3, <3>2 DEF Planned
      <3>3. CASE Rank[u] > Reached
        <4>1. ~(Rank[u] < Reached) /\ ~(Rank[u] < Reached')
          BY <1>rank, <2>1, <2>3, <3>3
        <4> QED
          BY <2>1, <4>1 DEF Planned
      <3> QED
        BY <1>rank, <2>1, <2>3, <2>4, <3>1, <3>2, <3>3
    <2>6. Placed' = Placed
      BY <2>5, SamePlanned
    <2>7. Settled' = Settled
      <3>1. \A u \in Types : u \in LaidTypes' <=> u \in LaidTypes \/ u = t
        BY <1>rank, <2>1, <2>2, <2>3, <2>4, SMTT(30) DEF LaidTypes
      <3>2. \A i \in Items : dat[i].type \in Types /\ dat[i].type # t
        <4>1. {i \in Items : dat[i].type = t} = {}
          BY <1>map, <2>1, <2>2, CurrentItems, ToSetSeq
        <4> QED
          BY <4>1, ItemFacts DEF TypeOK
      <3>3. Passed = {} /\ Passed' = {}
        BY <2>1 DEF Passed
      <3>4. dat' = dat /\ Items' = Items
        BY SameItems
      <3> QED
        BY <2>6, <3>1, <3>2, <3>3, <3>4 DEF Settled
    <2> QED
      BY <2>1, <2>5, <2>6, <2>7 DEF SamePlan
  <1>5. CASE ResolveSection
    <2>1. /\ pc = "sections" /\ pc' = "sort" /\ iter \in 1..10 /\ UNCHANGED <<iter, type_map>>
          /\ offsets' = [i \in Items |-> IF i \in ToSet(type_map[Current]) THEN -1 ELSE offsets[i]]
      BY <1>5, <1>iter DEF ResolveSection, Current
    <2>2. Reached' = Reached /\ LaidTypes' = LaidTypes /\ Passed' = Passed
      BY <2>1 DEF Reached, LaidTypes, Passed
    <2>3. \A t \in Types : Planned(t)' = Planned(t)
      BY <2>1, <2>2 DEF Planned
    <2>4. \A i \in Settled : i \in Items /\ i \notin ToSet(type_map[Current])
      BY <2>1, CurrentItems, Unsettled DEF Settled
    <2>5. \A i \in Settled : offsets'[i] = offsets[i]
      BY <2>1, <2>4
    <2> QED
      BY <2>2, <2>3, <2>5, SamePlanned, SameSettled DEF SamePlan
  <1>6. CASE SortSection
    <2>1. /\ pc = "sort" /\ pc' \in {"merge", "place"} /\ UNCHANGED <<iter, type_map, offsets>>
          /\ j' = 1 /\ kept' = << >>
      BY <1>6 DEF SortSection
    <2>2. Reached' = Reached /\ LaidTypes' = LaidTypes
      BY <2>1 DEF Reached, LaidTypes
    <2>3. Passed = {} /\ Passed' = {}
      BY <2>1 DEF Passed
    <2>4. \A t \in Types : Planned(t)' = Planned(t)
      BY <2>1, <2>2 DEF Planned
    <2> QED
      BY <2>1, <2>2, <2>3, <2>4, SamePlanned, SameSettled DEF SamePlan
  <1>7. CASE MergeOne
    <2> DEFINE same == IF offsets[data_ord[j]] = -1 THEN Duplicates(data_ord, j) ELSE {}
    <2>1. /\ pc = "merge" /\ pc' = "merge" /\ UNCHANGED <<iter, type_map>> /\ j <= Len(data_ord)
          /\ offsets' = [i \in Items |-> IF i \in same THEN data_ord[j] ELSE offsets[i]]
      BY <1>7 DEF MergeOne
    <2>2. Reached' = Reached /\ LaidTypes' = LaidTypes /\ Passed = {} /\ Passed' = {}
      BY <2>1 DEF Reached, LaidTypes, Passed
    <2>3. \A t \in Types : Planned(t)' = Planned(t)
      BY <2>1, <2>2 DEF Planned
    <2>4. \A i \in same : i \in Items /\ dat[i].type = Current
      <3>1. /\ Len(data_ord) \in Nat /\ j \in Nat
            /\ \A m \in 1..Len(data_ord) : data_ord[m] \in Items /\ dat[data_ord[m]].type = Current
        BY <2>1, OrdFacts
      <3>2. \A k \in j + 1..Len(data_ord) : k \in 1..Len(data_ord)
        BY <3>1
      <3> QED
        BY <3>1, <3>2 DEF Duplicates
    <2> HIDE DEF same
    <2>5. \A i \in Settled : i \in Items /\ i \notin same
      BY <2>1, <2>4, Unsettled DEF Settled
    <2>6. \A i \in Settled : offsets'[i] = offsets[i]
      BY <2>1, <2>5
    <2> QED
      BY <2>2, <2>3, <2>6, SamePlanned, SameSettled DEF SamePlan
  <1>8. CASE MergeEnd
    <2>1. /\ pc = "merge" /\ pc' = "place" /\ UNCHANGED <<iter, type_map, offsets, kept>> /\ j' = 1
      BY <1>8 DEF MergeEnd
    <2>2. Reached' = Reached /\ LaidTypes' = LaidTypes
      BY <2>1 DEF Reached, LaidTypes
    <2>3. Passed = {} /\ Passed' = {} /\ kept = << >>
      BY <2>1 DEF Passed, ListsInv
    <2>4. \A t \in Types : Planned(t)' = Planned(t)
      BY <2>1, <2>2, <2>3 DEF Planned
    <2> QED
      BY <2>1, <2>2, <2>3, <2>4, SamePlanned, SameSettled DEF SamePlan
  <1>9. CASE SectionEnd
    <2>1. /\ pc = "place" /\ pc' = "sections" /\ Sorting /\ iter' = iter + 1 /\ j > Len(data_ord)
          /\ UNCHANGED offsets /\ type_map' = [type_map EXCEPT ![Current] = kept]
      BY <1>9 DEF SectionEnd, Current, Sorting
    <2>2. PICK t \in Types : t = Current /\ Rank[t] = 6 + iter
      BY <2>1, CurrentFacts
    <2>3. iter \in 1..10 /\ Reached = 6 + iter /\ Reached' = 6 + iter + 1
      BY <1>iter, <2>1, CurrentFacts DEF Reached
    <2>4. \A u \in Types : u # t => Rank[u] # 6 + iter
      BY <2>2, RankSections
    <2>5. \A u \in Types : type_map'[u] = IF u = t THEN kept ELSE type_map[u]
      BY <1>map, <2>1, <2>2
    <2>6. ASSUME NEW u \in Types PROVE Planned(u)' = Planned(u)
      <3>1. CASE u = t
        BY <2>1, <2>2, <2>3, <2>5, <3>1 DEF Planned
      <3>2. CASE Rank[u] < Reached
        <4>1. Rank[u] < Reached' /\ u # t
          BY <1>rank, <2>2, <2>3, <3>2
        <4> QED
          BY <2>5, <3>2, <4>1 DEF Planned
      <3>3. CASE Rank[u] > Reached
        <4>1. ~(Rank[u] < Reached) /\ ~(Rank[u] < Reached') /\ Rank[u] # Reached
          BY <1>rank, <2>3, <3>3
        <4> QED
          BY <2>1, <4>1 DEF Planned
      <3> QED
        BY <1>rank, <2>3, <2>4, <3>1, <3>2, <3>3
    <2>7. Placed' = Placed
      BY <2>6, SamePlanned
    <2>8. Settled' = Settled
      <3>1. \A u \in Types : u \in LaidTypes' <=> u \in LaidTypes \/ u = t
        BY <1>rank, <2>2, <2>3, <2>4 DEF LaidTypes
      <3>2. Passed' = {}
        BY <2>1 DEF Passed
      <3>3. Passed = {i \in Items : dat[i].type = t}
        <4>1. /\ Len(data_ord) \in Nat /\ j \in Nat
              /\ ToSet(data_ord) = {i \in Items : dat[i].type = t}
          BY <2>1, <2>2, OrdFacts DEF ListsInv
        <4>2. j - 1 = Len(data_ord)
          BY <2>1, <4>1 DEF CursorInv
        <4>3. ToSet(data_ord) = {data_ord[k] : k \in 1..Len(data_ord)}
          BY ToSetSeq DEF TypeOK
        <4> QED
          BY <2>1, <4>1, <4>2, <4>3 DEF Passed
      <3>4. dat' = dat /\ Items' = Items
        BY SameItems
      <3>5. \A i \in Items : dat[i].type \in Types
        BY ItemFacts DEF TypeOK
      <3> QED
        BY <2>7, <3>1, <3>2, <3>3, <3>4, <3>5 DEF Settled
    <2> QED
      BY <2>1, <2>6, <2>7, <2>8 DEF SamePlan
  <1>10. CASE ResolveIds
    <2>1. pc = "sections" /\ pc' = "map" /\ iter = 11 /\ UNCHANGED <<offsets, type_map>>
      BY <1>10, <1>iter DEF ResolveIds, CursorInv
    <2>2. Reached = 17 /\ Reached' = 17
      BY <1>iter, <2>1 DEF Reached
    <2>3. \A t \in Types : Planned(t)' = Planned(t)
      BY <2>1, <2>2 DEF Planned
    <2>4. LaidTypes' = LaidTypes /\ Passed' = Passed
      BY <2>1, <2>2 DEF LaidTypes, Passed
    <2> QED
      BY <2>1, <2>3, <2>4, SamePlanned, SameSettled DEF SamePlan
  <1>11. CASE MapSection \/ MapEnd \/ CopyItem \/ CopyEnd
    <2>1. pc \in {"map", "copy"} /\ pc' \in {"map", "copy", "done"} /\ UNCHANGED <<offsets, type_map>>
      BY <1>11 DEF MapSection, MapEnd, CopyItem, CopyEnd
    <2>2. Reached = 17 /\ Reached' = 17
      BY <1>iter, <2>1 DEF Reached
    <2>3. \A t \in Types : Planned(t)' = Planned(t)
      BY <2>1, <2>2 DEF Planned
    <2>4. LaidTypes' = LaidTypes /\ Passed' = Passed
      BY <2>1, <2>2 DEF LaidTypes, Passed
    <2> QED
      BY <2>1, <2>3, <2>4, SamePlanned, SameSettled DEF SamePlan
  <1>12. CASE UNCHANGED vars
    BY <1>12 DEF vars, SamePlan, Planned, Placed, Settled, Reached, LaidTypes, Passed, Items
  <1> QED
    BY <1>1, <1>2, <1>3, <1>4, <1>5, <1>6, <1>7, <1>8, <1>9, <1>10, <1>11, <1>12 DEF Next, Done

(* The phases of the plan.                                                 *)
LEMMA PlanPhases ==
  ASSUME TypeOK, [Next]_vars
  PROVE  \/ /\ pc \in {"collect", "ids", "sections", "sort", "merge", "place"}
            /\ pc' \in {"collect", "ids", "sections", "sort", "merge", "place"}
            /\ (off' = off \/ PlanId \/ PlaceItem)
         \/ pc = "sections" /\ pc' = "map" /\ off' = AlignUp(off, 4) /\ ResolveIds
         \/ pc \in {"map", "copy", "done"} /\ pc' \in {"map", "copy", "done"} /\ off' = off
  BY DEF TypeOK, Next, vars, Collect, CollectEnd, PlanId, PlanIdsEnd, SkipSection, ResolveSection,
         SortSection, MergeOne, MergeEnd, PlaceItem, DropItem, SectionEnd, ResolveIds,
         MapSection, MapEnd, CopyItem, CopyEnd, Done

(* Every step is of one of the three kinds.                                *)
LEMMA StepKind ==
  ASSUME TypeOK, TypeOK', CursorInv, CursorInv', ListsInv, MergeInv, [Next]_vars
  PROVE  \/ SamePlan /\ (off' = off \/ ResolveIds)
         \/ \E x \in Items \ Settled : Places(x) \/ Drops(x)
  BY PlanIdKind, PlaceItemKind, DropItemKind, OtherKinds, PlanPhases

(* The numbers of the placed items.                                        *)
LEMMA PlacedFacts ==
  ASSUME TypeOK
  PROVE  /\ off \in Nat /\ off >= HeaderSize /\ HeaderSize = 112
         /\ offsets \in [Items -> Nat \cup {-1}]
         /\ Placed \subseteq Items /\ Placed \subseteq Settled /\ Settled \subseteq Items
         /\ \A i \in Items : /\ offsets[i] \in Int /\ dat[i].size \in Nat \ {0}
                             /\ End(i) \in Int /\ End(i) > offsets[i]
                             /\ Align(i) \in {1, 4} /\ dat[i].type \in Types
  <1>1. /\ off \in Nat /\ off >= HeaderSize /\ HeaderSize = 112
        /\ offsets \in [Items -> Nat \cup {-1}]
        /\ Placed \subseteq Items /\ Placed \subseteq Settled /\ Settled \subseteq Items
    BY DEF TypeOK, HeaderSize, Placed, Settled
  <1>2. \A i \in Items : dat[i].size \in Nat \ {0} /\ dat[i].type \in Types
    BY ItemFacts DEF TypeOK
  <1>3. \A i \in Items : Align(i) \in {1, 4}
    BY <1>2, AlignmentRange DEF Align
  <1> QED
    BY <1>1, <1>2, <1>3 DEF End

(* The end of planned items is that of the same items after the step.      *)
LEMMA SameEnd ==
  ASSUME TypeOK, [Next]_vars, NEW S \in SUBSET Items, \A i \in S : offsets'[i] = offsets[i],
         NEW e
  PROVE  IsEnd(e, S)' <=> IsEnd(e, S)
  <1>1. dat' = dat
    BY SameItems
  <1> QED
    BY <1>1 DEF IsEnd, End

(* Placed items are apart, each at the first aligned offset behind the     *)
(* ones before.                                                            *)
LEMMA NextPlanInv ==
  ASSUME TypeOK, TypeOK', CursorInv, CursorInv', ListsInv, MergeInv, PlanInv, [Next]_vars
  PROVE  PlanInv'
  <1>dat. dat' = dat /\ Items' = Items
    BY SameItems
  <1>num. /\ off \in Nat /\ off >= HeaderSize /\ HeaderSize = 112
          /\ Placed \subseteq Items /\ Placed \subseteq Settled
          /\ \A i \in Items : /\ offsets[i] \in Int /\ dat[i].size \in Nat \ {0}
                              /\ End(i) \in Int /\ End(i) > offsets[i]
                              /\ Align(i) \in {1, 4}
    BY PlacedFacts
  <1>up. off' \in Nat /\ off <= off'
    <2>1. CASE ResolveIds
      <3>1. off' = AlignUp(off, 4) /\ off \in Nat
        BY <1>num, <2>1 DEF ResolveIds
      <3>2. AlignUp(off, 4) \in off..off + 4 - 1
        BY <3>1, AlignUpFacts
      <3> QED
        BY <3>1, <3>2
    <2>2. CASE \E x \in Items \ Settled : Places(x)
      <3>1. PICK x \in Items : Plan(x)
        BY <2>2 DEF Places
      <3> QED
        BY <1>num, <3>1, PlanType
    <2> QED
      BY <1>num, <2>1, <2>2, StepKind DEF Drops
  <1>1. CASE Placed' = Placed /\ (\A i \in Placed : offsets'[i] = offsets[i]) /\ (off' = off \/ ResolveIds)
    <2>1. ASSUME NEW S \in SUBSET Placed, NEW e PROVE IsEnd(e, S)' <=> IsEnd(e, S)
      BY <1>num, <1>1, SameEnd
    <2>2. ASSUME NEW i \in Placed
          PROVE  /\ offsets'[i] >= HeaderSize
                 /\ \E e \in HeaderSize..off' : /\ IsEnd(e, {k \in Placed : offsets[k] < offsets[i]})'
                                                /\ offsets'[i] = AlignUp(e, Align(i))
      <3> DEFINE S == {k \in Placed : offsets[k] < offsets[i]}
      <3>1. PICK e \in HeaderSize..off : IsEnd(e, S) /\ offsets[i] = AlignUp(e, Align(i))
        BY DEF PlanInv
      <3>2. PICK B \in SUBSET Placed : B = S /\ IsEnd(e, B)
        BY <3>1
      <3>3. {k \in Placed' : offsets'[k] < offsets'[i]} = B
        BY <1>1, <3>2
      <3>4. IsEnd(e, B)'
        BY <2>1, <3>2
      <3>5. IsEnd(e, {k \in Placed : offsets[k] < offsets[i]})'
        BY <3>3, <3>4 DEF IsEnd
      <3>6. e \in HeaderSize..off'
        BY <1>num, <1>up
      <3> QED
        BY <1>1, <3>1, <3>5, <3>6 DEF PlanInv
    <2>3. \A i, k \in Placed : i # k => End(i)' <= offsets'[k] \/ End(k)' <= offsets'[i]
      BY <1>dat, <1>num, <1>1 DEF PlanInv, End
    <2>4. PICK P \in SUBSET Placed : P = Placed
      OBVIOUS
    <2>5. ASSUME pc' \in {"collect", "ids", "sections", "sort", "merge", "place"}
          PROVE  IsEnd(off, Placed)'
      <3>1. off' = off /\ pc \in {"collect", "ids", "sections", "sort", "merge", "place"}
        BY <1>1, <2>5, PlanPhases DEF ResolveIds
      <3>2. PICK e : e = off
        OBVIOUS
      <3>3. IsEnd(e, P)'
        BY <2>1, <2>4, <3>1, <3>2 DEF PlanInv
      <3> QED
        BY <1>1, <2>4, <3>1, <3>2, <3>3 DEF IsEnd
    <2>6. ASSUME pc' \in {"map", "copy", "done"}
          PROVE  \E e \in HeaderSize..off' : IsEnd(e, Placed)' /\ off' = AlignUp(e, 4)
      <3>1. CASE ResolveIds
        <4>1. off' = AlignUp(off, 4) /\ pc = "sections"
          BY <3>1 DEF ResolveIds
        <4>2. PICK e \in HeaderSize..off : e = off /\ IsEnd(e, P)
          BY <1>num, <2>4, <4>1 DEF PlanInv
        <4>3. IsEnd(e, P)'
          BY <2>1, <4>2
        <4>4. IsEnd(e, Placed)'
          BY <1>1, <2>4, <4>3 DEF IsEnd
        <4> QED
          BY <1>num, <1>up, <4>1, <4>2, <4>4
      <3>2. CASE ~ResolveIds
        <4>1. off' = off /\ pc \in {"map", "copy", "done"}
          BY <2>6, <3>2, PlanPhases
        <4>2. PICK e \in HeaderSize..off : IsEnd(e, P) /\ off = AlignUp(e, 4)
          BY <2>4, <4>1 DEF PlanInv
        <4>3. IsEnd(e, P)'
          BY <2>1, <4>2
        <4>4. IsEnd(e, Placed)'
          BY <1>1, <2>4, <4>3 DEF IsEnd
        <4> QED
          BY <4>1, <4>2, <4>4
      <3> QED
        BY <3>1, <3>2
    <2>7. \A i \in Placed' :
            /\ offsets'[i] >= HeaderSize
            /\ \E e \in HeaderSize..off' : /\ IsEnd(e, {k \in Placed : offsets[k] < offsets[i]})'
                                           /\ offsets'[i] = AlignUp(e, Align(i)')
      BY <1>dat, <1>1, <2>2 DEF Align
    <2> QED
      BY <1>1, <2>3, <2>5, <2>6, <2>7 DEF PlanInv, HeaderSize
  <1>2. CASE \E x \in Items \ Settled : Places(x)
    <2>1. PICK x \in Items \ Settled : Places(x)
      BY <1>2
    <2>2. /\ offsets'[x] = AlignUp(off, Align(x)) /\ offsets'[x] \in Nat /\ offsets'[x] >= off
          /\ off' = offsets'[x] + dat[x].size
          /\ \A k \in Items : k # x => offsets'[k] = offsets[k]
          /\ Placed' = Placed \cup {x} /\ x \notin Placed
          /\ pc \in {"ids", "place"} /\ pc' = pc
      BY <1>num, <2>1, PlanType DEF Places
    <2>3. IsEnd(off, Placed)
      BY <2>2 DEF PlanInv
    <2>4. \A k \in Placed : /\ offsets'[k] = offsets[k] /\ End(k)' = End(k)
                            /\ End(k) <= off /\ offsets[k] < offsets'[x] /\ End(k) <= offsets'[x]
      BY <1>dat, <1>num, <2>2, <2>3 DEF IsEnd, End
    <2>5. End(x)' = off' /\ off' > offsets'[x]
      BY <1>dat, <1>num, <2>2 DEF End
    <2>6. ASSUME NEW S \in SUBSET Placed, NEW e PROVE IsEnd(e, S)' <=> IsEnd(e, S)
      BY <1>num, <2>4, SameEnd
    <2>7. ASSUME NEW i \in Placed'
          PROVE  /\ offsets'[i] >= HeaderSize
                 /\ \E e \in HeaderSize..off' : /\ IsEnd(e, {k \in Placed : offsets[k] < offsets[i]})'
                                                /\ offsets'[i] = AlignUp(e, Align(i)')
      <3>1. Align(i)' = Align(i)
        BY <1>dat DEF Align
      <3>2. CASE i = x
        <4>1. {k \in Placed' : offsets'[k] < offsets'[i]} = Placed
          BY <2>2, <2>4, <3>2
        <4>2. PICK P \in SUBSET Placed : P = Placed
          OBVIOUS
        <4>3. PICK e \in HeaderSize..off' : e = off
          BY <1>num, <1>up
        <4>4. IsEnd(e, P)'
          BY <2>3, <2>6, <4>2, <4>3
        <4>5. IsEnd(e, {k \in Placed : offsets[k] < offsets[i]})'
          BY <4>1, <4>2, <4>4 DEF IsEnd
        <4>6. offsets'[i] = AlignUp(e, Align(i)')
          BY <2>2, <3>1, <3>2, <4>3
        <4>7. offsets'[i] >= HeaderSize
          BY <1>num, <2>2, <3>2
        <4> QED
          BY <4>5, <4>6, <4>7
      <3>3. CASE i # x
        <4>1. i \in Placed
          BY <2>2, <3>3
        <4> DEFINE S == {k \in Placed : offsets[k] < offsets[i]}
        <4>2. PICK e \in HeaderSize..off : IsEnd(e, S) /\ offsets[i] = AlignUp(e, Align(i))
          BY <4>1 DEF PlanInv
        <4>3. PICK B \in SUBSET Placed : B = S /\ IsEnd(e, B)
          BY <4>2
        <4>4. {k \in Placed' : offsets'[k] < offsets'[i]} = B
          BY <1>num, <2>2, <2>4, <4>1, <4>3
        <4>5. IsEnd(e, B)'
          BY <2>6, <4>3
        <4>6. IsEnd(e, {k \in Placed : offsets[k] < offsets[i]})'
          BY <4>4, <4>5 DEF IsEnd
        <4>7. e \in HeaderSize..off'
          BY <1>num, <1>up
        <4> QED
          BY <2>4, <3>1, <4>1, <4>2, <4>6, <4>7 DEF PlanInv
      <3> QED
        BY <3>2, <3>3
    <2>8. ASSUME NEW i \in Placed', NEW k \in Placed', i # k
          PROVE  End(i)' <= offsets'[k] \/ End(k)' <= offsets'[i]
      <3>1. CASE i = x
        BY <2>2, <2>4, <2>8, <3>1
      <3>2. CASE k = x
        BY <2>2, <2>4, <2>8, <3>2
      <3>3. CASE i # x /\ k # x
        BY <2>2, <2>4, <2>8, <3>3 DEF PlanInv
      <3> QED
        BY <3>1, <3>2, <3>3
    <2>9. IsEnd(off, Placed)'
      <3>1. off' \in Nat /\ off' >= HeaderSize
        BY <1>num, <1>up
      <3>2. \A i \in Placed' : End(i)' <= off'
        BY <1>num, <1>up, <2>2, <2>4, <2>5
      <3>3. \E i \in Placed' : off' = End(i)'
        BY <2>2, <2>5
      <3> QED
        BY <3>1, <3>2, <3>3 DEF IsEnd, HeaderSize
    <2> QED
      BY <2>2, <2>7, <2>8, <2>9 DEF PlanInv, HeaderSize
  <1>3. CASE SamePlan /\ (off' = off \/ ResolveIds)
    BY <1>num, <1>1, <1>3 DEF SamePlan
  <1>4. CASE \E x \in Items \ Settled : Drops(x)
    <2>1. PICK x \in Items \ Settled : Drops(x)
      BY <1>4
    <2>2. Placed' = Placed /\ off' = off /\ \A i \in Placed : offsets'[i] = offsets[i]
      BY <1>num, <2>1, PlacedFacts DEF Drops
    <2> QED
      BY <1>1, <2>2
  <1> QED
    BY <1>2, <1>3, <1>4, StepKind
-----------------------------------------------------------------------------
(* A placed item is behind all others, which stay where they are.          *)
LEMMA PlacesFacts ==
  ASSUME TypeOK, PlanInv, NEW x \in Items \ Settled, Places(x)
  PROVE  /\ x \notin Placed /\ Placed' = Placed \cup {x}
         /\ \A k \in Items : k # x => offsets'[k] = offsets[k]
         /\ \A k \in Placed : k # x /\ offsets'[k] = offsets[k] /\ offsets[k] < offsets'[x]
         /\ \A k \in Settled : k # x /\ offsets'[k] = offsets[k]
         /\ offsets'[x] \in Nat
  <1>1. /\ \A k \in Items : k # x => offsets'[k] = offsets[k]
        /\ offsets'[x] \in Nat /\ offsets'[x] >= off
        /\ pc \in {"ids", "place"} /\ Placed' = Placed \cup {x}
    BY PlanType DEF Places
  <1>2. /\ off \in Nat /\ Placed \subseteq Items /\ Placed \subseteq Settled /\ Settled \subseteq Items
        /\ \A i \in Items : offsets[i] \in Int /\ End(i) \in Int /\ End(i) > offsets[i]
    BY PlacedFacts
  <1>3. \A k \in Placed : End(k) <= off
    BY <1>1 DEF PlanInv, IsEnd
  <1> QED
    BY <1>1, <1>2, <1>3

(* What the steps leave alone.                                             *)
LEMMA SettledStays ==
  ASSUME TypeOK, TypeOK', CursorInv, CursorInv', ListsInv, MergeInv, PlanInv, [Next]_vars
  PROVE  /\ \A i \in Settled : i \in Items /\ offsets'[i] = offsets[i]
         /\ Settled \subseteq Settled' /\ Placed \subseteq Placed'
  <1>1. CASE SamePlan
    BY <1>1, PlacedFacts DEF SamePlan
  <1>2. CASE \E x \in Items \ Settled : Places(x)
    BY <1>2, PlacesFacts, PlacedFacts DEF Places
  <1>3. CASE \E x \in Items \ Settled : Drops(x)
    BY <1>3, PlacedFacts DEF Drops
  <1> QED
    BY <1>1, <1>2, <1>3, StepKind

(* Items are placed in the order of the sections and of their lists.       *)
LEMMA NextOrderInv ==
  ASSUME TypeOK, TypeOK', CursorInv, CursorInv', ListsInv, MergeInv, PlanInv, OrderInv, [Next]_vars
  PROVE  OrderInv'
  <1>dat. dat' = dat /\ Items' = Items
    BY SameItems
  <1>in. \A t \in Types : \A m \in 1..Len(Planned(t)) : Planned(t)[m] \in Placed
    BY PlannedFacts
  <1>1. CASE /\ \A t \in Types : Planned(t)' = Planned(t)
             /\ Placed' = Placed
             /\ \A i \in Placed : offsets'[i] = offsets[i]
    <2>1. \A i, k \in Placed' : Rank[dat'[i].type] < Rank[dat'[k].type] => offsets'[i] < offsets'[k]
      BY <1>dat, <1>1 DEF OrderInv
    <2>2. ASSUME NEW t \in Types, NEW m \in 1..Len(Planned(t)'), NEW n \in 1..Len(Planned(t)'), m < n
          PROVE  offsets'[Planned(t)'[m]] < offsets'[Planned(t)'[n]]
      BY <1>in, <1>1, <2>2 DEF OrderInv
    <2> QED
      BY <2>1, <2>2 DEF OrderInv
  <1>2. CASE \E x \in Items \ Settled : Places(x)
    <2>1. PICK x \in Items \ Settled : Places(x)
      BY <1>2
    <2>2. /\ x \notin Placed /\ Placed' = Placed \cup {x}
          /\ \A k \in Placed : k # x /\ offsets'[k] = offsets[k] /\ offsets[k] < offsets'[x]
      BY <2>1, PlacesFacts
    <2>3. /\ Rank[dat[x].type] = Reached /\ Reached \in Nat /\ dat[x].type \in Types
          /\ \A i \in Placed : Rank[dat[i].type] <= Reached /\ Rank[dat[i].type] \in Nat
      <3>1. Rank[dat[x].type] = Reached /\ Reached \in Nat
        BY <2>1, ReachedType DEF Places
      <3>2. \A i \in Items : dat[i].type \in Types /\ Rank[dat[i].type] \in Nat
        BY RankSections, PlacedFacts
      <3>3. \A i \in Placed : i \in Items /\ Rank[dat[i].type] <= Reached
        BY PlannedFacts
      <3> QED
        BY <3>1, <3>2, <3>3
    <2>4. \A i, k \in Placed' : Rank[dat'[i].type] < Rank[dat'[k].type] => offsets'[i] < offsets'[k]
      BY <1>dat, <2>2, <2>3 DEF OrderInv
    <2>5. ASSUME NEW t \in Types, NEW m \in 1..Len(Planned(t)'), NEW n \in 1..Len(Planned(t)'), m < n
          PROVE  offsets'[Planned(t)'[m]] < offsets'[Planned(t)'[n]]
      <3>1. Planned(t)' = IF t = dat[x].type THEN Append(Planned(t), x) ELSE Planned(t)
        BY <2>1 DEF Places
      <3>2. \A k \in 1..Len(Planned(t)) : Planned(t)[k] \in Placed
        BY <1>in
      <3>3. CASE t # dat[x].type
        BY <2>2, <2>5, <3>1, <3>2, <3>3 DEF OrderInv
      <3>4. CASE t = dat[x].type
        <4>1. Planned(t) \in Seq(Items) /\ Len(Planned(t)) \in Nat
          BY PlannedFacts, LenProperties
        <4>2. /\ Len(Planned(t)') = Len(Planned(t)) + 1
              /\ \A k \in 1..Len(Planned(t)) : Planned(t)'[k] = Planned(t)[k]
              /\ Planned(t)'[Len(Planned(t)) + 1] = x
          BY <3>1, <3>4, <4>1, AppendFacts
        <4>3. m \in 1..Len(Planned(t)) /\ (n \in 1..Len(Planned(t)) \/ n = Len(Planned(t)) + 1)
          BY <2>5, <4>1, <4>2
        <4>4. Planned(t)[m] \in Placed /\ Planned(t)'[m] = Planned(t)[m]
          BY <3>2, <4>2, <4>3
        <4>5. CASE n = Len(Planned(t)) + 1
          BY <2>2, <4>2, <4>4, <4>5
        <4>6. CASE n \in 1..Len(Planned(t))
          <5>1. Planned(t)[n] \in Placed /\ Planned(t)'[n] = Planned(t)[n]
            BY <3>2, <4>2, <4>6
          <5>2. offsets[Planned(t)[m]] < offsets[Planned(t)[n]]
            BY <2>5, <4>3, <4>6 DEF OrderInv
          <5> QED
            BY <2>2, <4>4, <5>1, <5>2
        <4> QED
          BY <4>3, <4>5, <4>6
      <3> QED
        BY <3>3, <3>4
    <2> QED
      BY <2>4, <2>5 DEF OrderInv
  <1>3. CASE SamePlan
    BY <1>1, <1>3, PlacedFacts DEF SamePlan
  <1>4. CASE \E x \in Items \ Settled : Drops(x)
    BY <1>1, <1>4, SettledStays, PlacedFacts DEF Drops
  <1> QED
    BY <1>2, <1>3, <1>4, StepKind

(* The references of an item of a resolved type lead to final offsets.     *)
LEMMA RefsSettled ==
  ASSUME TypeOK, CursorInv, NEW i \in Items,
         \/ dat[i].type \in ResolvedTypes
         \/ pc = "sections" /\ iter <= 10 /\ dat[i].type = Current
         \/ pc = "sections" /\ iter > 10
  PROVE  \A r \in 1..Len(dat[i].refs) : dat[i].refs[r].index \in Settled
  <1>iter. iter \in 1..17 /\ Len(Sections) = 16 /\ Len(IdTypes) = 6 /\ Len(resolve_order) = 10
    BY SectionLists, IdTypeSet, DataTypeSet DEF TypeOK
  <1>1. SUFFICES ASSUME NEW r \in 1..Len(dat[i].refs)
                 PROVE  dat[i].refs[r].index \in Settled
    OBVIOUS
  <1>2. PICK k \in Items : k = dat[i].refs[r].index /\ dat[k].type \in RefersTo[dat[i].type]
    BY ItemFacts DEF TypeOK
  <1>3. PICK t \in Types : t = dat[i].type
    BY ItemFacts DEF TypeOK
  <1>4. PICK u \in Types : u = dat[k].type /\ u \in RefersTo[t]
    BY <1>2, <1>3, ItemFacts DEF TypeOK
  <1>5. /\ Rank[t] \in 1..16 /\ Rank[u] \in 1..16
        /\ Rank[t] > 6 => Rank[u] < Rank[t]
    BY <1>4, RefersBack, RankSections
  <1>6. Rank[u] < Reached
    <2>1. CASE pc \in {"map", "copy", "done"} \/ (pc = "sections" /\ iter > 10)
      <3>1. Reached >= 17 /\ Reached \in Nat
        BY <1>iter, <2>1 DEF Reached
      <3> QED
        BY <1>5, <3>1
    <2>2. CASE pc = "sections" /\ iter <= 10 /\ t = Current
      <3>1. Reached = 6 + iter /\ Rank[t] = 6 + iter /\ iter \in Nat /\ iter >= 1
        BY <1>iter, <2>2, RankParts, SMTT(30) DEF Reached, Current
      <3> QED
        BY <1>5, <3>1
    <2>3. CASE t \in ResolvedTypes /\ pc \notin {"map", "copy", "done"}
      <3>1. 6 < Rank[t] /\ Rank[t] <= Reached /\ Reached \in Nat
        BY <1>iter, <1>5, <2>3, ReachedType, SMTT(30) DEF ResolvedTypes
      <3> QED
        BY <1>5, <3>1, SMTT(30)
    <2> QED
      BY <1>3, <2>1, <2>2, <2>3
  <1> QED
    BY <1>2, <1>4, <1>6 DEF Settled, LaidTypes

(* Then what they resolve to does not change.                              *)
LEMMA SameResolve ==
  ASSUME TypeOK, TypeOK', CursorInv, CursorInv', ListsInv, MergeInv, PlanInv, [Next]_vars,
         NEW i \in Items,
         \A r \in 1..Len(dat[i].refs) : dat[i].refs[r].index \in Settled
  PROVE  Resolve(i)' = Resolve(i)
  <1>1. dat' = dat
    BY SameItems
  <1>2. \A r \in 1..Len(dat[i].refs) : offsets'[dat[i].refs[r].index] = offsets[dat[i].refs[r].index]
    BY SettledStays
  <1> QED
    BY <1>1, <1>2 DEF Resolve

(* Which types are resolved only changes where references are resolved.    *)
LEMMA SameResolvedTypes ==
  ASSUME TypeOK, TypeOK', CursorInv, CursorInv', ListsInv, [Next]_vars, ~ResolveSection, ~ResolveIds,
         NEW i \in Items, dat[i].type \in ResolvedTypes'
  PROVE  dat[i].type \in ResolvedTypes /\ resolved' = resolved
  <1>iter. iter \in 1..17 /\ Len(Sections) = 16 /\ Len(IdTypes) = 6 /\ Len(resolve_order) = 10
    BY SectionLists, IdTypeSet, DataTypeSet DEF TypeOK
  <1>1. resolved' = resolved
    BY DEF Next, vars, Collect, CollectEnd, PlanId, PlanIdsEnd, SkipSection,
           SortSection, MergeOne, MergeEnd, PlaceItem, DropItem, SectionEnd,
           MapSection, MapEnd, CopyItem, CopyEnd, Done
  <1>2. PICK t \in Types : t = dat[i].type /\ Rank[t] \in 1..16
    BY PlacedFacts, RankSections
  <1>3. CASE pc \in {"collect", "ids"}
    <2>1. /\ pc' \in {"collect", "ids", "sections"}
          /\ iter' \in Nat
          /\ pc' = "sections" => iter' = 1
      BY <1>3, <1>iter, SMTT(30) DEF Next, vars, Collect, CollectEnd, PlanId, PlanIdsEnd, SkipSection,
           SortSection, MergeOne, MergeEnd, PlaceItem, DropItem, SectionEnd,
           MapSection, MapEnd, CopyItem, CopyEnd, Done
    <2>2. Reached' <= 7 /\ Reached' \in Nat /\ ~Sorting'
      BY <1>iter, <2>1 DEF Reached, Sorting, CursorInv
    <2>3. ~(t \in ResolvedTypes')
      BY <1>iter, <1>2, <2>1, <2>2 DEF ResolvedTypes
    <2> QED
      BY <1>2, <2>3
  <1>4. CASE SkipSection
    <2>1. /\ pc = "sections" /\ pc' = "sections" /\ iter \in 1..10 /\ iter' = iter + 1
          /\ type_map[Current] = << >>
      BY <1>4, <1>iter DEF SkipSection, Current
    <2>2. Current \in Types /\ Rank[Current] = 6 + iter /\ Sections[6 + iter] = Current
      BY <2>1, RankParts, SectionLists DEF Current
    <2>3. Reached = 6 + iter /\ Reached' = 6 + iter + 1
      BY <1>iter, <2>1 DEF Reached
    <2>4. t # Current
      <3>1. {k \in Items : dat[k].type = Current} = ToSet(type_map[Current])
        BY <2>1, CurrentItems
      <3>2. type_map[Current] \in Seq(Items)
        BY <2>2 DEF TypeOK
      <3>3. {k \in Items : dat[k].type = Current} = {}
        BY <2>1, <3>1, <3>2, ToSetSeq
      <3> QED
        BY <1>2, <3>3
    <2>5. Rank[t] # 6 + iter
      BY <1>2, <2>2, <2>4, RankSections
    <2>6. 6 < Rank[t] /\ Rank[t] < 6 + iter + 1
      BY <1>iter, <1>2, <2>1, <2>3 DEF ResolvedTypes, Sorting
    <2>7. Rank[t] < Reached
      <3>1. PICK n \in 1..10 : n = iter
        BY <2>1
      <3>2. Rank[t] \in Int /\ Rank[t] # 6 + n /\ Rank[t] < 6 + n + 1
        BY <1>2, <2>5, <2>6, <3>1
      <3>3. Rank[t] < 6 + n
        BY <3>2
      <3> QED
        BY <2>3, <3>1, <3>3
    <2> QED
      BY <1>1, <1>2, <1>iter, <2>6, <2>7 DEF ResolvedTypes
  <1>5. CASE SectionEnd
    <2>1. pc = "place" /\ pc' = "sections" /\ iter' = iter + 1 /\ Sorting /\ ~Sorting'
      BY <1>5 DEF SectionEnd, Sorting
    <2>2. Reached = 6 + iter /\ Reached' = 6 + iter + 1
      BY <1>iter, <2>1 DEF Reached
    <2>3. 6 < Rank[t] /\ Rank[t] < 6 + iter + 1
      BY <1>iter, <1>2, <2>1, <2>2 DEF ResolvedTypes
    <2>4. Rank[t] < Reached \/ Rank[t] = Reached
      BY <1>2, <1>iter, <2>2, <2>3
    <2> QED
      BY <1>1, <1>2, <1>iter, <2>1, <2>3, <2>4 DEF ResolvedTypes
  <1>6. CASE SortSection \/ MergeOne \/ MergeEnd \/ PlaceItem \/ DropItem
    <2>1. pc \in {"sort", "merge", "place"} /\ pc' \in {"merge", "place"} /\ iter' = iter
      BY <1>6 DEF SortSection, MergeOne, MergeEnd, PlaceItem, DropItem
    <2>2. Reached' = Reached /\ Sorting /\ pc' \notin {"map", "copy", "done"}
      BY <2>1 DEF Reached, Sorting
    <2> QED
      BY <1>1, <1>2, <2>2 DEF ResolvedTypes
  <1>7. CASE pc \in {"map", "copy", "done"}
    BY <1>1, <1>2, <1>7 DEF ResolvedTypes
  <1>8. CASE UNCHANGED vars
    BY <1>1, <1>8 DEF vars, ResolvedTypes, Reached, Sorting
  <1>9. \/ pc \in {"collect", "ids", "map", "copy", "done"} \/ SkipSection \/ SectionEnd
        \/ SortSection \/ MergeOne \/ MergeEnd \/ PlaceItem \/ DropItem \/ UNCHANGED vars
    BY DEF Next, Collect, CollectEnd, PlanId, PlanIdsEnd, MapSection, MapEnd, CopyItem, CopyEnd, Done
  <1> QED
    BY <1>3, <1>4, <1>5, <1>6, <1>7, <1>8, <1>9

(* References are resolved to the offsets that stay.                       *)
LEMMA NextResolvedInv ==
  ASSUME TypeOK, TypeOK', CursorInv, CursorInv', ListsInv, MergeInv, PlanInv, ResolvedInv, [Next]_vars
  PROVE  ResolvedInv'
  <1>dat. dat' = dat /\ Items' = Items
    BY SameItems
  <1>1. SUFFICES ASSUME NEW i \in Items, dat[i].type \in ResolvedTypes'
                 PROVE  resolved'[i] = Resolve(i)'
    BY <1>dat DEF ResolvedInv
  <1>2. CASE ~ResolveSection /\ ~ResolveIds
    <2>1. dat[i].type \in ResolvedTypes /\ resolved' = resolved
      BY <1>1, <1>2, SameResolvedTypes
    <2>2. Resolve(i)' = Resolve(i)
      BY <2>1, RefsSettled, SameResolve
    <2> QED
      BY <2>1, <2>2 DEF ResolvedInv
  <1>3. CASE ResolveSection
    <2>1. /\ pc = "sections" /\ pc' = "sort" /\ iter \in 1..10 /\ iter' = iter
          /\ resolved' = [k \in Items |-> IF k \in ToSet(type_map[Current]) THEN Resolve(k) ELSE resolved[k]]
      BY <1>3, DataTypeSet DEF ResolveSection, Current, TypeOK
    <2>2. ToSet(type_map[Current]) = {k \in Items : dat[k].type = Current}
      BY <2>1, CurrentItems
    <2>3. CASE dat[i].type = Current
      <3>1. Resolve(i)' = Resolve(i)
        BY <2>1, <2>3, RefsSettled, SameResolve
      <3> QED
        BY <2>1, <2>2, <2>3, <3>1
    <2>4. CASE dat[i].type # Current
      <3>1. PICK t \in Types : t = dat[i].type /\ Rank[t] \in 1..16
        BY PlacedFacts, RankSections
      <3>2. Reached = 6 + iter /\ Reached' = 6 + iter /\ Rank[Current] = 6 + iter /\ Current \in Types
        BY <2>1, IdTypeSet, RankParts DEF Reached, Current
      <3>3. Rank[t] # Reached
        BY <2>4, <3>1, <3>2, RankSections
      <3>4. t \in ResolvedTypes
        BY <1>1, <2>1, <3>1, <3>2, <3>3 DEF ResolvedTypes
      <3>5. Resolve(i)' = Resolve(i)
        BY <3>1, <3>4, RefsSettled, SameResolve
      <3> QED
        BY <2>1, <2>2, <2>4, <3>1, <3>4, <3>5 DEF ResolvedInv
    <2> QED
      BY <2>3, <2>4
  <1>4. CASE ResolveIds
    <2>1. /\ pc = "sections" /\ iter = 11
          /\ resolved' = [k \in Items |-> IF dat[k].type \in ToSet(IdTypes) THEN Resolve(k) ELSE resolved[k]]
      BY <1>4, DataTypeSet DEF ResolveIds, CursorInv
    <2>2. Resolve(i)' = Resolve(i)
      BY <2>1, RefsSettled, SameResolve
    <2>3. CASE dat[i].type \in ToSet(IdTypes)
      BY <2>1, <2>2, <2>3
    <2>4. CASE dat[i].type \notin ToSet(IdTypes)
      <3>1. PICK t \in Types : t = dat[i].type /\ Rank[t] \in 1..16 /\ Rank[t] > 6
        BY <2>4, PlacedFacts, RankSections, RankParts
      <3>2. Reached = 17
        BY <2>1, IdTypeSet DEF Reached
      <3>3. t \in ResolvedTypes
        BY <3>1, <3>2, IdTypeSet DEF ResolvedTypes
      <3> QED
        BY <2>1, <2>2, <2>4, <3>1, <3>3 DEF ResolvedInv
    <2> QED
      BY <2>3, <2>4
  <1> QED
    BY <1>2, <1>3, <1>4

(* No two items are placed at one offset.                                  *)
LEMMA ApartFacts ==
  ASSUME TypeOK, PlanInv, NEW i \in Placed, NEW k \in Placed, offsets[i] = offsets[k]
  PROVE  i = k
  <1>1. /\ i \in Items /\ k \in Items
        /\ offsets[i] \in Int /\ offsets[k] \in Int /\ End(i) \in Int /\ End(k) \in Int
        /\ End(i) > offsets[i] /\ End(k) > offsets[k]
    BY PlacedFacts
  <1>2. i # k => End(i) <= offsets[k] \/ End(k) <= offsets[i]
    BY DEF PlanInv
  <1> QED
    BY <1>1, <1>2

(* What is resolved later does not tell apart a settled item and the item  *)
(* that stands for it.                                                     *)
LEMMA SameRepresented ==
  ASSUME TypeOK, CursorInv, ListsInv, PlanInv, [Next]_vars,
         NEW i \in Settled, NEW r \in Placed, dat[r].type = dat[i].type, offsets[r] = offsets[i],
         r = i \/ SameBytes(r, i)
  PROVE  r = i \/ SameBytes(r, i)'
  <1>dat. dat' = dat /\ Items' = Items
    BY SameItems
  <1>in. i \in Items /\ r \in Items /\ r \in Settled /\ dat[i].type \in Types
    BY PlacedFacts
  <1>1. CASE resolved'[i] = resolved[i] /\ resolved'[r] = resolved[r]
    BY <1>dat, <1>1 DEF SameBytes, Bytes
  <1>2. CASE resolved' = resolved
    BY <1>1, <1>2
  <1>3. CASE ResolveSection
    <2>1. /\ pc = "sections" /\ iter <= 10
          /\ resolved' = [k \in Items |-> IF k \in ToSet(type_map[Current]) THEN Resolve(k) ELSE resolved[k]]
      BY <1>3, DataTypeSet DEF ResolveSection, Current
    <2>2. ToSet(type_map[Current]) = {k \in Items : dat[k].type = Current}
      BY <2>1, CurrentItems
    <2>3. dat[i].type # Current /\ dat[r].type # Current
      BY <1>in, <2>1, Unsettled
    <2> QED
      BY <1>1, <1>in, <2>1, <2>2, <2>3
  <1>4. CASE ResolveIds
    <2>1. /\ pc = "sections" /\ iter = 11
          /\ resolved' = [k \in Items |-> IF dat[k].type \in ToSet(IdTypes) THEN Resolve(k) ELSE resolved[k]]
      BY <1>4, DataTypeSet DEF ResolveIds, CursorInv
    <2>2. CASE dat[i].type \notin ToSet(IdTypes)
      BY <1>1, <1>in, <2>1, <2>2
    <2>3. CASE dat[i].type \in ToSet(IdTypes)
      <3>1. PICK t \in Types : t = dat[i].type /\ t \in ToSet(IdTypes) /\ Rank[t] \in 1..16
        BY <1>in, <2>3, RankSections
      <3>2. Reached = 17
        BY <2>1, IdTypeSet DEF Reached
      <3>3. Planned(t) = type_map[t]
        BY <3>1, <3>2 DEF Planned
      <3>4. i \in ToSet(type_map[t])
        BY <1>in, <2>1, <3>1 DEF ListsInv
      <3>5. i \in Placed
        BY <1>in, <3>1, <3>3, <3>4 DEF Placed
      <3> QED
        BY <3>5, ApartFacts
    <2> QED
      BY <2>2, <2>3
  <1>5. resolved' = resolved \/ ResolveSection \/ ResolveIds
    BY DEF Next, vars, Collect, CollectEnd, PlanId, PlanIdsEnd, SkipSection,
           SortSection, MergeOne, MergeEnd, PlaceItem, DropItem, SectionEnd,
           MapSection, MapEnd, CopyItem, CopyEnd, Done
  <1> QED
    BY <1>2, <1>3, <1>4, <1>5

(* Each item with a final offset has there an item with its bytes.         *)
LEMMA NextRepresentedInv ==
  ASSUME TypeOK, TypeOK', CursorInv, CursorInv', ListsInv, MergeInv, PlanInv, RepresentedInv,
         [Next]_vars
  PROVE  RepresentedInv'
  <1>dat. dat' = dat /\ Items' = Items
    BY SameItems
  <1>1. SUFFICES ASSUME NEW i \in Settled'
                 PROVE  \E r \in Placed' :
                          /\ dat[r].type = dat[i].type /\ offsets'[r] = offsets'[i]
                          /\ r = i \/ SameBytes(r, i)'
    BY <1>dat DEF RepresentedInv
  <1>2. CASE i \in Settled
    <2>1. PICK r \in Placed :
            dat[r].type = dat[i].type /\ offsets[r] = offsets[i] /\ (r = i \/ SameBytes(r, i))
      BY <1>2 DEF RepresentedInv
    <2>2. r = i \/ SameBytes(r, i)'
      BY <1>2, <2>1, SameRepresented
    <2>3. r \in Placed' /\ offsets'[r] = offsets'[i]
      BY <1>2, <2>1, SettledStays, PlacedFacts
    <2> QED
      BY <2>1, <2>2, <2>3
  <1>3. CASE i \notin Settled
    <2>1. PICK x \in Items \ Settled : Places(x) \/ Drops(x)
      BY <1>1, <1>3, StepKind DEF SamePlan
    <2>2. i = x
      BY <1>1, <1>3, <2>1 DEF Places, Drops
    <2>3. CASE Places(x)
      BY <2>2, <2>3 DEF Places
    <2>4. CASE Drops(x)
      <3>1. PICK r \in Placed : r = offsets[x]
        BY <2>4 DEF Drops
      <3>2. /\ SameBytes(r, x) /\ dat[r].type = dat[x].type /\ Placed' = Placed
            /\ offsets' = [offsets EXCEPT ![x] = offsets[r]] /\ resolved' = resolved
        BY <2>4, <3>1 DEF Drops
      <3>3. r \in Items /\ r # x /\ offsets \in [Items -> Nat \cup {-1}]
        BY PlacedFacts
      <3>4. offsets'[x] = offsets[r] /\ offsets'[r] = offsets[r]
        BY <3>2, <3>3
      <3>5. SameBytes(r, x)'
        BY <1>dat, <3>2 DEF SameBytes, Bytes
      <3> QED
        BY <2>2, <3>2, <3>4, <3>5
    <2> QED
      BY <2>1, <2>3, <2>4
  <1> QED
    BY <1>2, <1>3

(* The next item that the copying loop takes is placed and not copied yet. *)
LEMMA CopyFacts ==
  ASSUME TypeOK, CursorInv, ListsInv, CopyInv, pc = "copy", iter <= Len(Sections),
         NEW t \in Types, t = Sections[iter], j <= Len(type_map[t])
  PROVE  /\ type_map[t][j] \in Placed /\ type_map[t][j] \in Items
         /\ dat[type_map[t][j]].type = t
         /\ Rank[t] = iter
         /\ type_map[t][j] \notin InFile
  <1>iter. iter \in 1..16 /\ j \in 1..Len(type_map[t])
    BY SectionLists, ListsShort DEF TypeOK
  <1>map. type_map \in [Types -> Seq(Items)]
          /\ \A u \in Types : \A k \in 1..Len(type_map[u]) : dat[type_map[u][k]].type = u
    BY DEF TypeOK
  <1>1. Rank[t] = iter
    BY <1>iter, RankSections
  <1>2. type_map[t][j] \in Items /\ dat[type_map[t][j]].type = t
    BY <1>iter, <1>map
  <1>3. Reached = 17
    BY SectionLists DEF Reached
  <1>4. Planned(t) = type_map[t]
    BY <1>1, <1>iter, <1>3 DEF Planned
  <1>5. type_map[t][j] \in Placed
    BY <1>iter, <1>2, <1>4, PlannedFacts
  <1>6. ASSUME type_map[t][j] \in InFile
        PROVE  FALSE
    <2>1. PICK u \in Types : type_map[t][j] \in Copied(u)
      BY <1>6 DEF CopyInv
    <2>2. PICK k \in 1..Len(type_map[u]) :
            type_map[u][k] = type_map[t][j] /\ (Rank[u] < iter \/ (Rank[u] = iter /\ k < j))
      BY <2>1 DEF Copied
    <2>3. u = t
      BY <1>2, <1>map, <2>2
    <2>4. k < j
      BY <1>1, <1>iter, <2>2, <2>3
    <2>5. Injective(type_map[t])
      BY DEF ListsInv
    <2> QED
      BY <1>iter, <2>2, <2>3, <2>4, <2>5 DEF Injective
  <1> QED
    BY <1>1, <1>2, <1>5, <1>6

(* What a step does to the buffer.                                         *)
LEMMA BufferKind ==
  ASSUME TypeOK, TypeOK', CursorInv, CursorInv', ListsInv, MergeInv, CopyInv, [Next]_vars
  PROVE  \/ /\ at' = at /\ (file_sz' = file_sz \/ CopyEnd)
            /\ \/ freed' = freed /\ SamePlan
               \/ \E x \in Items \ Settled : Places(x) \/ Drops(x)
         \/ SamePlan /\ CopyItem /\ \E x \in Placed : x \notin InFile /\ Copy(x)
  <1>1. CASE CopyItem
    <2>1. SamePlan
      BY <1>1, OtherKinds DEF PlanId, PlaceItem, DropItem, CopyItem
    <2>2. PICK t \in Types : t = Sections[iter] /\ iter <= Len(Sections) /\ pc = "copy"
      <3>1. iter \in 1..16 /\ Len(Sections) = 16 /\ pc = "copy"
        BY <1>1, SectionLists DEF CopyItem, TypeOK
      <3> QED
        BY <3>1, RankSections
    <2>3. CASE j <= Len(type_map[t])
      <3>1. Copy(type_map[t][j])
        BY <1>1, <2>2, <2>3 DEF CopyItem
      <3> QED
        BY <1>1, <2>1, <2>2, <2>3, <3>1, CopyFacts
    <2>4. CASE ~(j <= Len(type_map[t]))
      BY <1>1, <2>1, <2>2, <2>4 DEF CopyItem
    <2> QED
      BY <2>3, <2>4
  <1>2. CASE ~CopyItem
    <2>1. at' = at /\ (file_sz' = file_sz \/ CopyEnd) /\ (freed' = freed \/ DropItem)
      BY <1>2 DEF Next, vars, Collect, CollectEnd, PlanId, PlanIdsEnd, SkipSection, ResolveSection,
           SortSection, MergeOne, MergeEnd, PlaceItem, DropItem, SectionEnd, ResolveIds,
           MapSection, MapEnd, CopyEnd, Done
    <2> QED
      BY <2>1, StepKind, DropItemKind
  <1> QED
    BY <1>1, <1>2

(* The bytes of an item are freed once, when it is dropped or copied.      *)
LEMMA NextFreedInv ==
  ASSUME TypeOK, TypeOK', CursorInv, CursorInv', ListsInv, MergeInv, CopyInv, FreedInv, [Next]_vars
  PROVE  FreedInv'
  <1>dat. dat' = dat /\ Items' = Items
    BY SameItems
  <1>in. Placed \subseteq Settled /\ freed \in [Items -> Nat] /\ Placed \subseteq Items
    BY PlacedFacts DEF TypeOK
  <1>1. SUFFICES ASSUME NEW i \in Items
                 PROVE  freed'[i] = IF i \in Settled' \ Placed' \/ at'[i] # -1 THEN 1 ELSE 0
    BY <1>dat DEF FreedInv
  <1>2. freed[i] = IF i \in Settled \ Placed \/ at[i] # -1 THEN 1 ELSE 0
    BY DEF FreedInv
  <1>3. CASE at' = at /\ freed' = freed /\ SamePlan
    BY <1>2, <1>3 DEF SamePlan
  <1>4. CASE at' = at /\ \E x \in Items \ Settled : Places(x)
    BY <1>2, <1>4, <1>in DEF Places
  <1>5. CASE at' = at /\ \E x \in Items \ Settled : Drops(x)
    <2>1. PICK x \in Items \ Settled : Drops(x)
      BY <1>5
    <2>2. /\ pc = "place" /\ freed' = [freed EXCEPT ![x] = @ + 1]
          /\ Placed' = Placed /\ Settled' = Settled \cup {x}
      BY <2>1 DEF Drops
    <2>3. at[x] = -1
      BY <2>2 DEF CopyInv, InFile
    <2>4. freed'[x] = freed[x] + 1 /\ \A k \in Items : k # x => freed'[k] = freed[k]
      BY <1>in, <2>2
    <2>5. CASE i # x
      BY <1>2, <1>5, <2>2, <2>4, <2>5
    <2>6. CASE i = x
      BY <1>2, <1>in, <2>2, <2>3, <2>4, <2>6
    <2> QED
      BY <2>5, <2>6
  <1>6. CASE SamePlan /\ \E x \in Placed : x \notin InFile /\ Copy(x)
    <2>1. PICK x \in Placed : x \notin InFile /\ Copy(x) /\ x \in Items
      BY <1>6, <1>in
    <2>2. at'[x] \in Nat /\ freed'[x] = freed[x] + 1 /\ at[x] = -1
          /\ \A k \in Items : k # x => at'[k] = at[k] /\ freed'[k] = freed[k]
      BY <2>1, CopyType DEF InFile
    <2>3. CASE i # x
      BY <1>2, <1>6, <2>2, <2>3 DEF SamePlan
    <2>4. CASE i = x
      BY <1>2, <2>1, <2>2, <2>4
    <2> QED
      BY <2>3, <2>4
  <1> QED
    BY <1>3, <1>4, <1>5, <1>6, BufferKind

(* A set of items has one end.                                             *)
LEMMA OneEnd ==
  ASSUME TypeOK, NEW S \in SUBSET Items, NEW d \in Nat, NEW e \in Nat, IsEnd(d, S), IsEnd(e, S)
  PROVE  d = e
  <1>1. \A i \in S : End(i) \in Int /\ End(i) <= d /\ End(i) <= e
    BY PlacedFacts DEF IsEnd
  <1>2. /\ d = HeaderSize \/ \E i \in S : d = End(i)
        /\ e = HeaderSize \/ \E i \in S : e = End(i)
        /\ d >= HeaderSize /\ e >= HeaderSize /\ HeaderSize \in Nat
    BY DEF IsEnd, HeaderSize
  <1> QED
    BY <1>1, <1>2

(* While items are copied every list is planned.                           *)
LEMMA AllLaid ==
  ASSUME TypeOK, CursorInv, ListsInv, pc \in {"map", "copy", "done"}
  PROVE  /\ \A t \in Types : Planned(t) = type_map[t]
         /\ \A t \in Types : \A k \in 1..Len(type_map[t]) :
              type_map[t][k] \in Placed /\ type_map[t][k] \in Items /\ dat[type_map[t][k]].type = t
         /\ \A i \in Placed : \E t \in Types : \E k \in 1..Len(type_map[t]) : type_map[t][k] = i
  <1>1. Reached = 17
    BY SectionLists, SMTT(30) DEF Reached
  <1>2. \A t \in Types : Rank[t] \in 1..16
    BY RankSections
  <1>3. \A t \in Types : Planned(t) = type_map[t]
    BY <1>1, <1>2 DEF Planned
  <1>4. \A t \in Types : \A k \in 1..Len(type_map[t]) :
          type_map[t][k] \in Items /\ dat[type_map[t][k]].type = t
    BY <1>3, PlannedFacts
  <1>5. \A t \in Types : \A k \in 1..Len(type_map[t]) : type_map[t][k] \in Placed
    BY <1>3, <1>4, PlannedFacts
  <1>6. \A i \in Placed : \E t \in Types : \E k \in 1..Len(type_map[t]) : type_map[t][k] = i
    BY <1>3, PlannedFacts
  <1> QED
    BY <1>3, <1>4, <1>5, <1>6

(* The items below the one that is copied next are those in the file.      *)
LEMMA BelowNext ==
  ASSUME TypeOK, CursorInv, ListsInv, OrderInv, CopyInv, pc = "copy", iter <= Len(Sections),
         NEW t \in Types, t = Sections[iter], j <= Len(type_map[t])
  PROVE  {k \in Placed : offsets[k] < offsets[type_map[t][j]]} = InFile
  <1>iter. iter \in 1..16 /\ j \in 1..Len(type_map[t])
    BY SectionLists, ListsShort DEF TypeOK
  <1>1. /\ Rank[t] = iter /\ type_map[t][j] \in Placed /\ dat[type_map[t][j]].type = t
        /\ type_map[t][j] \notin InFile
    BY CopyFacts
  <1>2. \A u \in Types : \A n \in 1..Len(type_map[u]) :
          /\ type_map[u][n] \in Placed /\ dat[type_map[u][n]].type = u
          /\ offsets[type_map[u][n]] \in Int
    BY AllLaid, PlacedFacts
  <1>3. \A u \in Types : \A n \in 1..Len(type_map[u]) :
          /\ Rank[u] < iter => offsets[type_map[u][n]] < offsets[type_map[t][j]]
          /\ Rank[u] > iter => offsets[type_map[u][n]] > offsets[type_map[t][j]]
    BY <1>1, <1>2 DEF OrderInv
  <1>4. \A m, n \in 1..Len(type_map[t]) : m < n => offsets[type_map[t][m]] < offsets[type_map[t][n]]
    BY AllLaid DEF OrderInv
  <1>5. ASSUME NEW u \in Types, NEW n \in 1..Len(type_map[u])
        PROVE  offsets[type_map[u][n]] < offsets[type_map[t][j]]
                 <=> Rank[u] < iter \/ (Rank[u] = iter /\ n < j)
    <2>1. Rank[u] \in 1..16 /\ Sections[Rank[u]] = u
      BY RankSections
    <2>2. CASE Rank[u] # iter
      <3>1. offsets[type_map[u][n]] \in Int /\ offsets[type_map[t][j]] \in Int
        BY <1>iter, <1>2
      <3>int. Rank[u] \in Int /\ iter \in Int
        BY <1>iter, <2>1, SMTT(30)
      <3>2. CASE Rank[u] < iter
        BY <1>3, <3>2
      <3>3. CASE Rank[u] > iter
        <4>1. ~(Rank[u] < iter)
          BY <3>int, <3>3
        <4>2. offsets[type_map[u][n]] > offsets[type_map[t][j]]
          BY <1>3, <3>3
        <4> QED
          BY <2>2, <3>1, <4>1, <4>2
      <3> QED
        BY <3>int, <2>2, <3>2, <3>3
    <2>3. CASE Rank[u] = iter
      <3>1. u = t
        BY <2>1, <2>3
      <3>2. n < j => offsets[type_map[u][n]] < offsets[type_map[t][j]]
        BY <1>4, <1>iter, <3>1
      <3>3. n > j => offsets[type_map[u][n]] > offsets[type_map[t][j]]
        BY <1>4, <1>iter, <1>2, <3>1
      <3> QED
        BY <1>iter, <1>2, <2>3, <3>1, <3>2, <3>3
    <2> QED
      BY <2>2, <2>3
  <1>6. InFile = UNION {Copied(u) : u \in Types}
    BY DEF CopyInv
  <1>7. \A i : i \in InFile <=>
          \E u \in Types : \E n \in 1..Len(type_map[u]) :
            i = type_map[u][n] /\ (Rank[u] < iter \/ (Rank[u] = iter /\ n < j))
    BY <1>6 DEF Copied
  <1>8. \A i \in Placed : \E u \in Types : \E n \in 1..Len(type_map[u]) : type_map[u][n] = i
    BY AllLaid
  <1> QED
    BY <1>2, <1>5, <1>7, <1>8

(* The copying loop appends the item at the end of the buffer, which is    *)
(* where it was planned.                                                   *)
LEMMA CopyInPlace ==
  ASSUME TypeOK, CursorInv, ListsInv, PlanInv, OrderInv, CopyInv, pc = "copy", iter <= Len(Sections),
         NEW t \in Types, t = Sections[iter], j <= Len(type_map[t]), Copy(type_map[t][j])
  PROVE  /\ HeaderSize + at'[type_map[t][j]] = offsets[type_map[t][j]]
         /\ HeaderSize + file_sz' = End(type_map[t][j])
         /\ at'[type_map[t][j]] >= file_sz
  <1>1. PICK x \in Placed : x = type_map[t][j]
    BY CopyFacts
  <1>2. x \in Items /\ file_sz \in Nat /\ Align(x) \in {1, 4} /\ HeaderSize \in Nat
    BY PlacedFacts DEF TypeOK, HeaderSize
  <1>3. /\ at'[x] = AlignUp(file_sz, Align(x)) /\ at'[x] \in Nat /\ at'[x] >= file_sz
        /\ file_sz' = at'[x] + dat[x].size
    BY <1>1, <1>2, CopyType
  <1>4. PICK e \in HeaderSize..off :
          /\ IsEnd(e, {k \in Placed : offsets[k] < offsets[x]})
          /\ offsets[x] = AlignUp(e, Align(x))
    BY DEF PlanInv
  <1>5. {k \in Placed : offsets[k] < offsets[x]} = InFile
    BY <1>1, BelowNext
  <1>6. IsEnd(HeaderSize + file_sz, InFile) /\ HeaderSize + file_sz \in Nat /\ InFile \subseteq Items
    BY <1>2 DEF CopyInv, InFile
  <1>7. e = HeaderSize + file_sz
    <2>1. e \in Nat
      BY PlacedFacts
    <2> QED
      BY <1>4, <1>5, <1>6, <2>1, OneEnd
  <1>8. HeaderSize + at'[x] = offsets[x]
    BY <1>2, <1>3, <1>4, <1>7, AlignUpFacts
  <1>9. HeaderSize + file_sz' = End(x)
    <2>1. dat[x].size \in Nat /\ End(x) = offsets[x] + dat[x].size
      BY <1>2, PlacedFacts DEF End
    <2>2. file_sz' = at'[x] + dat[x].size /\ HeaderSize + at'[x] = offsets[x]
      BY <1>3, <1>8
    <2>3. at'[x] \in Nat /\ HeaderSize \in Nat
      BY <1>2, <1>3
    <2> QED
      BY <2>1, <2>2, <2>3
  <1> QED
    BY <1>1, <1>3, <1>8, <1>9

(* The buffer holds the items passed, at their planned offsets.            *)
LEMMA NextCopyInv ==
  ASSUME TypeOK, TypeOK', CursorInv, CursorInv', ListsInv, MergeInv, PlanInv, OrderInv, CopyInv,
         [Next]_vars
  PROVE  CopyInv'
  <1>dat. dat' = dat /\ Items' = Items
    BY SameItems
  <1>1. CASE pc \notin {"copy", "done"} /\ pc' \notin {"copy", "done"}
    <2>1. at' = at /\ file_sz' = file_sz
      BY <1>1 DEF Next, vars, Collect, CollectEnd, PlanId, PlanIdsEnd, SkipSection, ResolveSection,
           SortSection, MergeOne, MergeEnd, PlaceItem, DropItem, SectionEnd, ResolveIds,
           MapSection, MapEnd, CopyItem, CopyEnd, Done
    <2>2. InFile' = {} /\ file_sz' = 0
      BY <1>1, <1>dat, <2>1 DEF CopyInv, InFile
    <2> QED
      BY <1>1, <2>2 DEF CopyInv
  <1>2. CASE MapEnd
    <2>1. pc = "map" /\ pc' = "copy" /\ at' = at /\ file_sz' = file_sz /\ iter' = 1 /\ j' = 1
      BY <1>2 DEF MapEnd
    <2>2. InFile' = {} /\ file_sz' = 0
      BY <1>dat, <2>1 DEF CopyInv, InFile
    <2>3. ASSUME NEW t \in Types
          PROVE  Copied(t)' = {}
      <3>1. Rank[t] \in 1..16
        BY RankSections
      <3>2. \A k \in 1..Len(type_map'[t]) : ~(Rank[t] < 1 \/ (Rank[t] = 1 /\ k < 1))
        BY <3>1
      <3> QED
        BY <2>1, <3>2 DEF Copied
    <2>4. HeaderSize + file_sz' = HeaderSize /\ HeaderSize \in Nat
      BY <2>2 DEF HeaderSize
    <2>5. IsEnd(HeaderSize + file_sz, InFile)'
      BY <2>2, <2>4 DEF IsEnd
    <2>6. InFile' = UNION {Copied(t)' : t \in Types}
      BY <2>2, <2>3
    <2>7. \A i \in InFile' : Start(i)' = offsets'[i]
      BY <2>2
    <2> QED
      BY <2>1, <2>5, <2>6, <2>7 DEF CopyInv
  <1>3. CASE CopyEnd
    <2>1. /\ pc = "copy" /\ pc' = "done" /\ iter' = iter /\ iter = 17
          /\ j' = j /\ type_map' = type_map /\ at' = at /\ offsets' = offsets /\ off' = off
          /\ file_sz' = AlignUp(file_sz, 4)
      <3>1. iter \in 1..16 + 1 /\ Len(Sections) = 16
        BY SectionLists DEF TypeOK
      <3>2. iter > 16
        BY <1>3, <3>1 DEF CopyEnd
      <3>3. iter = 17
        BY <3>1, <3>2
      <3> QED
        BY <1>3, <3>3 DEF CopyEnd
    <2>2. InFile' = InFile /\ \A t \in Types : Copied(t)' = Copied(t)
      BY <1>dat, <2>1 DEF InFile, Copied
    <2>3. InFile = Placed
      <3>1. \A t \in Types : Rank[t] < iter
        BY <2>1, RankSections
      <3>2. \A t \in Types : Copied(t) = {type_map[t][k] : k \in 1..Len(type_map[t])}
        BY <3>1 DEF Copied
      <3>3. InFile = UNION {Copied(t) : t \in Types}
        BY <2>1 DEF CopyInv
      <3>4. /\ \A t \in Types : \A k \in 1..Len(type_map[t]) : type_map[t][k] \in Placed
            /\ \A i \in Placed : \E t \in Types : \E k \in 1..Len(type_map[t]) : type_map[t][k] = i
        BY <2>1, AllLaid
      <3> QED
        BY <3>2, <3>3, <3>4
    <2>4. HeaderSize + file_sz' = off'
      <3>1. PICK e \in HeaderSize..off : IsEnd(e, Placed) /\ off = AlignUp(e, 4)
        BY <2>1 DEF PlanInv
      <3>2. IsEnd(HeaderSize + file_sz, Placed)
        BY <2>1, <2>3 DEF CopyInv
      <3>3. e \in Nat /\ file_sz \in Nat /\ HeaderSize + file_sz \in Nat /\ Placed \subseteq Items
        <4>1. off \in Nat /\ HeaderSize = 112 /\ Placed \subseteq Items
          BY PlacedFacts
        <4>2. file_sz \in Nat
          BY DEF TypeOK
        <4> QED
          BY <4>1, <4>2
      <3>4. e = HeaderSize + file_sz
        BY <3>1, <3>2, <3>3, OneEnd
      <3> QED
        BY <2>1, <3>1, <3>3, <3>4, AlignUpFacts
    <2>5. \A i \in InFile' : Start(i)' = offsets'[i]
      BY <2>1, <2>2 DEF CopyInv, Start
    <2>6. InFile' = UNION {Copied(t)' : t \in Types}
      BY <2>1, <2>2 DEF CopyInv
    <2> QED
      BY <2>1, <2>4, <2>5, <2>6, SectionLists DEF CopyInv
  <1>4. CASE CopyItem
    <2>1. /\ pc = "copy" /\ pc' = "copy" /\ type_map' = type_map /\ offsets' = offsets
          /\ iter <= Len(Sections) /\ iter \in 1..16 /\ j \in Nat /\ j >= 1
      BY <1>4, SectionLists DEF CopyItem, TypeOK
    <2>2. PICK t \in Types : t = Sections[iter] /\ Rank[t] = iter
      BY <2>1, RankSections
    <2>3. \A u \in Types : u # t => Rank[u] # iter /\ Rank[u] \in 1..16
      BY <2>2, RankSections
    <2>len. \A u \in Types : Len(type_map[u]) \in Nat
      BY ListsShort
    <2>old. InFile = UNION {Copied(u) : u \in Types} /\ (\A i \in InFile : Start(i) = offsets[i])
            /\ IsEnd(HeaderSize + file_sz, InFile) /\ InFile \subseteq Items
      BY <2>1 DEF CopyInv, InFile
    <2>4. CASE j <= Len(type_map[t])
      <3>1. Copy(type_map[t][j]) /\ j' = j + 1 /\ iter' = iter
        BY <1>4, <2>1, <2>2, <2>4 DEF CopyItem
      <3>2. PICK x \in Placed : x = type_map[t][j] /\ x \in Items /\ x \notin InFile
        BY <2>1, <2>2, <2>4, CopyFacts
      <3>3. /\ HeaderSize + at'[x] = offsets[x] /\ HeaderSize + file_sz' = End(x)
            /\ at'[x] >= file_sz
        BY <2>1, <2>2, <2>4, <3>1, <3>2, CopyInPlace
      <3>4. at'[x] \in Nat /\ \A k \in Items : k # x => at'[k] = at[k]
        BY <3>1, <3>2, CopyType
      <3>5. InFile' = InFile \cup {x}
        BY <1>dat, <3>2, <3>4 DEF InFile
      <3>6. \A u \in Types : Copied(u)' = IF u = t THEN Copied(u) \cup {x} ELSE Copied(u)
        <4>1. ASSUME NEW u \in Types, u # t
              PROVE  Copied(u)' = Copied(u)
          BY <2>1, <2>3, <3>1, <4>1 DEF Copied
        <4>2. Copied(t)' = Copied(t) \cup {x}
          <5>1. {k \in 1..Len(type_map[t]) : k < j + 1} = {k \in 1..Len(type_map[t]) : k < j} \cup {j}
            BY <2>1, <2>4, <2>len
          <5>2. Copied(t)' = {type_map[t][k] : k \in {k \in 1..Len(type_map[t]) : k < j + 1}}
            <6>1. \A k \in 1..Len(type_map[t]) :
                    (Rank[t] < iter \/ (Rank[t] = iter /\ k < j + 1)) <=> k < j + 1
              BY <2>1, <2>2
            <6> QED
              BY <2>1, <3>1, <6>1 DEF Copied
          <5>3. Copied(t) = {type_map[t][k] : k \in {k \in 1..Len(type_map[t]) : k < j}}
            BY <2>1, <2>2 DEF Copied
          <5> QED
            BY <3>2, <5>1, <5>2, <5>3
        <4> QED
          BY <4>1, <4>2
      <3>7. InFile' = UNION {Copied(u)' : u \in Types}
        BY <2>old, <3>5, <3>6
      <3>8. \A i \in InFile' : Start(i)' = offsets'[i]
        BY <2>1, <2>old, <3>2, <3>3, <3>4, <3>5 DEF Start
      <3>9. IsEnd(HeaderSize + file_sz, InFile)'
        <4>0. \A i \in Items : End(i)' = End(i)
          BY <1>dat, <2>1 DEF End
        <4>1. /\ file_sz \in Nat /\ HeaderSize = 112 /\ End(x) \in Int /\ End(x) > offsets[x]
              /\ offsets[x] \in Int /\ \A i \in Items : End(i) \in Int
          BY <3>2, PlacedFacts DEF TypeOK
        <4>2. offsets[x] >= HeaderSize + file_sz
          BY <3>3, <3>4, <4>1
        <4>3. \A i \in InFile : End(i) <= HeaderSize + file_sz
          BY <2>old DEF IsEnd
        <4>4. \A i \in InFile' : End(i) <= End(x)
          BY <2>old, <3>5, <4>1, <4>2, <4>3
        <4>5. End(x) \in Nat /\ End(x) >= HeaderSize
          BY <4>1, <4>2
        <4>6. InFile' \subseteq Items /\ x \in InFile'
          BY <2>old, <3>2, <3>5
        <4> QED
          BY <3>3, <4>0, <4>4, <4>5, <4>6 DEF IsEnd
      <3> QED
        BY <2>1, <3>7, <3>8, <3>9 DEF CopyInv
    <2>5. CASE ~(j <= Len(type_map[t]))
      <3>1. at' = at /\ file_sz' = file_sz /\ j' = 1 /\ iter' = iter + 1
        BY <1>4, <2>1, <2>2, <2>5 DEF CopyItem
      <3>2. InFile' = InFile
        BY <1>dat, <3>1 DEF InFile
      <3>3. ASSUME NEW u \in Types
            PROVE  Copied(u)' = Copied(u)
        <4>1. Rank[u] \in 1..16 /\ Len(type_map[u]) \in Nat /\ Len(type_map[t]) \in Nat
          BY <2>len, RankSections
        <4>2. ASSUME NEW k \in 1..Len(type_map[u])
              PROVE  (Rank[u] < iter + 1 \/ (Rank[u] = iter + 1 /\ k < 1))
                       <=> (Rank[u] < iter \/ (Rank[u] = iter /\ k < j))
          <5>1. CASE u = t
            BY <2>1, <2>2, <2>5, <4>1, <5>1
          <5>2. CASE u # t
            <6>1. Rank[u] \in Int /\ iter \in Int /\ Rank[u] # iter /\ k \in Int /\ k >= 1
              BY <2>1, <2>3, <4>1, <5>2, SMTT(30)
            <6> QED
              BY <6>1
          <5> QED
            BY <5>1, <5>2
        <4> QED
          BY <2>1, <3>1, <4>2 DEF Copied
      <3>4. InFile' = UNION {Copied(u)' : u \in Types}
        BY <2>old, <3>2, <3>3
      <3>5. \A i \in InFile' : Start(i)' = offsets'[i]
        BY <2>1, <2>old, <3>1, <3>2 DEF Start
      <3>6. IsEnd(HeaderSize + file_sz, InFile)'
        BY <1>dat, <2>1, <2>old, <3>1, <3>2, SameEnd
      <3> QED
        BY <2>1, <3>4, <3>5, <3>6 DEF CopyInv
    <2> QED
      BY <2>4, <2>5
  <1>5. CASE UNCHANGED vars
    <2>1. /\ InFile' = InFile /\ \A t \in Types : Copied(t)' = Copied(t)
          /\ pc' = pc /\ iter' = iter /\ off' = off /\ file_sz' = file_sz /\ at' = at /\ offsets' = offsets
      BY <1>5 DEF vars, InFile, Copied, Items
    <2>2. \A i \in InFile' : Start(i)' = offsets'[i]
      BY <2>1 DEF CopyInv, Start
    <2>3. pc' \in {"copy", "done"} => InFile' = UNION {Copied(t)' : t \in Types}
      BY <2>1 DEF CopyInv
    <2>4. pc' = "copy" => IsEnd(HeaderSize + file_sz, InFile)'
      BY <1>dat, <2>1 DEF CopyInv, IsEnd, End
    <2> QED
      BY <2>1, <2>2, <2>3, <2>4 DEF CopyInv
  <1>6. \/ pc \notin {"copy", "done"} /\ pc' \notin {"copy", "done"}
        \/ MapEnd \/ CopyItem \/ CopyEnd \/ UNCHANGED vars
    BY DEF Next, Collect, CollectEnd, PlanId, PlanIdsEnd, SkipSection, ResolveSection,
           SortSection, MergeOne, MergeEnd, PlaceItem, DropItem, SectionEnd, ResolveIds,
           MapSection, Done
  <1> QED
    BY <1>1, <1>2, <1>3, <1>4, <1>5, <1>6

(* The map has an entry for each section passed that is not empty.         *)
LEMMA NextMapInv ==
  ASSUME TypeOK, TypeOK', CursorInv, MapInv, [Next]_vars
  PROVE  MapInv'
  <1>dat. dat' = dat /\ Items' = Items
    BY SameItems
  <1>iter. iter \in 1..17 /\ Len(Sections) = 16
    BY SectionLists DEF TypeOK
  <1>map. map \in Seq([type : Types \cup {"header", "map_list"}, offset : Nat, size : Nat])
          /\ map' \in Seq([type : Types \cup {"header", "map_list"}, offset : Nat, size : Nat])
          /\ Len(map) \in Nat
    BY LenProperties DEF TypeOK
  <1>1. CASE pc' \notin {"map", "copy", "done"}
    BY <1>1 DEF MapInv
  <1>2. CASE ResolveIds
    <2>1. /\ pc' = "map" /\ iter' = 1 /\ map' = <<[type |-> "header", offset |-> 0, size |-> 1]>>
      BY <1>2 DEF ResolveIds
    <2>2. Len(map') = 1 /\ map'[1] = [type |-> "header", offset |-> 0, size |-> 1]
      BY <2>1
    <2>3. Entries' = {} /\ 1..iter' - 1 = {}
      BY <2>1, <2>2 DEF Entries
    <2> QED
      BY <2>1, <2>2, <2>3 DEF MapInv
  <1>3. CASE MapSection
    <2>1. /\ pc = "map" /\ pc' = "map" /\ iter \in 1..16 /\ iter' = iter + 1
          /\ offsets' = offsets /\ type_map' = type_map
      BY <1>3, <1>iter DEF MapSection
    <2>2. PICK t \in Types : t = Sections[iter] /\ Rank[t] = iter
      BY <2>1, RankSections
    <2>old. /\ Len(map) >= 1 /\ map[1] = [type |-> "header", offset |-> 0, size |-> 1]
            /\ Entries = 2..Len(map)
            /\ \A e \in Entries : /\ map[e].type \in Types /\ type_map[map[e].type] # << >>
                                  /\ map[e] = MapEntry(map[e].type) /\ Rank[map[e].type] < iter
            /\ \A e, f \in Entries : e < f => Rank[map[e].type] < Rank[map[f].type]
            /\ \A s \in 1..iter - 1 : type_map[Sections[s]] # << >> =>
                 \E e \in Entries : map[e].type = Sections[s]
      BY <2>1 DEF MapInv, Entries
    <2>rank. ASSUME NEW e \in Entries
             PROVE  Rank[map[e].type] \in 1..16 /\ Rank[map[e].type] < iter + 1
      <3>1. Rank[map[e].type] \in 1..16 /\ Rank[map[e].type] < iter /\ iter \in Int
        BY <2>1, <2>old, RankSections
      <3> QED
        BY <3>1
    <2>3. CASE type_map[t] = << >>
      <3>1. map' = map
        BY <1>3, <2>2, <2>3 DEF MapSection
      <3>2. Entries' = Entries
        BY <2>1, <3>1 DEF Entries
      <3>3. \A s \in 1..iter : type_map[Sections[s]] # << >> =>
              \E e \in Entries : map[e].type = Sections[s]
        <4>1. \A s \in 1..iter : s = iter \/ s \in 1..iter - 1
          BY <2>1
        <4> QED
          BY <2>2, <2>3, <2>old, <4>1
      <3>4. 1..iter' - 1 = 1..iter
        BY <2>1
      <3>5. \A e \in Entries : map'[e] = MapEntry(map[e].type)'
        BY <2>1, <2>old, <3>1 DEF MapEntry
      <3> QED
        BY <2>1, <2>old, <2>rank, <3>1, <3>2, <3>3, <3>4, <3>5 DEF MapInv
    <2>4. CASE type_map[t] # << >>
      <3>1. map' = Append(map, MapEntry(t))
        BY <1>3, <2>2, <2>4 DEF MapSection
      <3>2. MapEntry(t) \in [type : Types \cup {"header", "map_list"}, offset : Nat, size : Nat]
        <4>1. Len(map') = Len(map) + 1 /\ map'[Len(map) + 1] = MapEntry(t)
          BY <1>map, <3>1
        <4>2. Len(map) + 1 \in 1..Len(map')
          BY <1>map, <4>1
        <4>3. map'[Len(map) + 1] \in [type : Types \cup {"header", "map_list"}, offset : Nat, size : Nat]
          BY <1>map, <4>2, ElementOfSeq
        <4> QED
          BY <4>1, <4>3
      <3>3. /\ Len(map') = Len(map) + 1 /\ map'[Len(map) + 1] = MapEntry(t)
            /\ \A e \in 1..Len(map) : map'[e] = map[e]
        BY <1>map, <3>1, <3>2, AppendFacts
      <3>4. MapEntry(t).type = t
        BY DEF MapEntry
      <3>5. Entries' = Entries \cup {Len(map) + 1}
        BY <1>map, <2>1, <2>old, <3>3 DEF Entries
      <3>6. \A e \in Entries : map'[e] = map[e] /\ e < Len(map) + 1 /\ e \in Nat
        <4>1. ASSUME NEW e \in 2..Len(map)
              PROVE  e \in 1..Len(map) /\ e < Len(map) + 1 /\ e \in Nat
          BY <1>map
        <4> QED
          BY <2>old, <3>3, <4>1
      <3>7. ASSUME NEW e \in Entries'
            PROVE  /\ map'[e].type \in Types /\ type_map'[map'[e].type] # << >>
                   /\ map'[e] = MapEntry(map[e].type)'
                   /\ Rank[map'[e].type] < iter'
        <4>1. CASE e \in Entries
          <5>1. map'[e] = map[e]
            BY <3>6, <4>1
          <5>2. map'[e] = MapEntry(map[e].type)'
            BY <2>1, <2>old, <4>1, <5>1 DEF MapEntry
          <5> QED
            BY <2>1, <2>old, <2>rank, <4>1, <5>1, <5>2
        <4>2. CASE e = Len(map) + 1
          <5>1. map'[e] = MapEntry(t) /\ map'[e].type = t
            BY <3>3, <3>4, <4>2
          <5>2. map'[e] = MapEntry(map[e].type)'
            BY <2>1, <5>1 DEF MapEntry
          <5>3. Rank[t] < iter'
            BY <2>1, <2>2
          <5> QED
            BY <2>1, <2>4, <5>1, <5>2, <5>3
        <4> QED
          BY <3>5, <4>1, <4>2
      <3>8. \A e, f \in Entries' : e < f => Rank[map'[e].type] < Rank[map'[f].type]
        <4>1. ASSUME NEW e \in Entries', NEW f \in Entries', e < f
              PROVE  Rank[map'[e].type] < Rank[map'[f].type]
          <5>1. e \in Entries
            BY <1>map, <3>5, <3>6, <4>1
          <5>2. CASE f \in Entries
            BY <2>old, <3>6, <4>1, <5>1, <5>2
          <5>3. CASE f = Len(map) + 1
            BY <2>2, <2>old, <3>3, <3>4, <3>6, <5>1, <5>3
          <5> QED
            BY <3>5, <5>2, <5>3
        <4> QED
          BY <4>1
      <3>9. \A s \in 1..iter' - 1 : type_map'[Sections[s]] # << >> =>
              \E e \in Entries' : map'[e].type = Sections[s]
        <4>1. \A s \in 1..iter' - 1 : s = iter \/ s \in 1..iter - 1
          BY <2>1
        <4> QED
          BY <2>1, <2>2, <2>old, <3>3, <3>4, <3>5, <3>6, <4>1
      <3>10. Len(map') >= 1 /\ map'[1] = [type |-> "header", offset |-> 0, size |-> 1]
        BY <1>map, <2>old, <3>3, SMTT(30)
      <3> QED
        BY <2>1, <3>7, <3>8, <3>9, <3>10 DEF MapInv
    <2> QED
      BY <2>3, <2>4
  <1>4. CASE MapEnd
    <2>1. /\ pc = "map" /\ pc' = "copy" /\ iter = 17 /\ off' = off
          /\ offsets' = offsets /\ type_map' = type_map
          /\ map' = Append(map, [type |-> "map_list", offset |-> off, size |-> 1])
      BY <1>4, <1>iter DEF MapEnd
    <2>old. /\ Len(map) >= 1 /\ map[1] = [type |-> "header", offset |-> 0, size |-> 1]
            /\ Entries = 2..Len(map)
            /\ \A e \in Entries : /\ map[e].type \in Types /\ type_map[map[e].type] # << >>
                                  /\ map[e] = MapEntry(map[e].type)
            /\ \A e, f \in Entries : e < f => Rank[map[e].type] < Rank[map[f].type]
            /\ \A s \in 1..16 : type_map[Sections[s]] # << >> =>
                 \E e \in Entries : map[e].type = Sections[s]
      BY <2>1 DEF MapInv, Entries
    <2>2. [type |-> "map_list", offset |-> off, size |-> 1]
            \in [type : Types \cup {"header", "map_list"}, offset : Nat, size : Nat]
      BY PlacedFacts
    <2>3. /\ Len(map') = Len(map) + 1
          /\ map'[Len(map) + 1] = [type |-> "map_list", offset |-> off, size |-> 1]
          /\ \A e \in 1..Len(map) : map'[e] = map[e]
      BY <1>map, <2>1, <2>2, AppendFacts
    <2>4. Entries' = Entries
      BY <1>map, <2>1, <2>3 DEF Entries
    <2>5. \A e \in Entries : map'[e] = map[e]
      BY <1>map, <2>old, <2>3
    <2>7. ASSUME NEW t \in Types, type_map[t] # << >>
          PROVE  \E e \in Entries : map[e].type = t
      <3>1. PICK s \in 1..16 : Sections[s] = t
        BY RankSections
      <3> QED
        BY <2>old, <2>7, <3>1
    <2>8. Len(map') >= 1 /\ Len(map') >= 2 /\ map'[1] = [type |-> "header", offset |-> 0, size |-> 1]
          /\ map'[Len(map')] = [type |-> "map_list", offset |-> off', size |-> 1]
      <3>1. 1 \in 1..Len(map) /\ Len(map) + 1 >= 2
        BY <1>map, <2>old
      <3> QED
        BY <1>map, <2>1, <2>old, <2>3, <3>1
    <2>9. \A e \in Entries' : /\ map'[e].type \in Types /\ type_map'[map'[e].type] # << >>
                              /\ map'[e] = MapEntry(map[e].type)'
      BY <2>1, <2>old, <2>4, <2>5, SMTT(30) DEF MapEntry
    <2>10. \A e, f \in Entries' : e < f => Rank[map'[e].type] < Rank[map'[f].type]
      BY <2>old, <2>4, <2>5, SMTT(30)
    <2>11. \A t \in Types : type_map'[t] # << >> => \E e \in Entries' : map'[e].type = t
      BY <2>1, <2>4, <2>5, <2>7
    <2> QED
      BY <2>1, <2>8, <2>9, <2>10, <2>11 DEF MapInv
  <1>5. CASE CopyItem \/ CopyEnd \/ (pc \in {"map", "copy", "done"} /\ UNCHANGED vars)
    <2>1. /\ pc \in {"map", "copy", "done"} /\ pc' \in {"map", "copy", "done"}
          /\ pc' = "map" <=> pc = "map"
          /\ map' = map /\ off' = off /\ offsets' = offsets /\ type_map' = type_map
          /\ pc = "map" => iter' = iter
      BY <1>5 DEF CopyItem, CopyEnd, vars
    <2>2. Entries' = Entries
      BY <2>1 DEF Entries
    <2>3. \A e \in Entries : map'[e] = MapEntry(map[e].type)'
      BY <2>1 DEF MapInv, MapEntry
    <2> QED
      BY <2>1, <2>2, <2>3 DEF MapInv
  <1>6. \/ pc' \notin {"map", "copy", "done"} \/ ResolveIds \/ MapSection \/ MapEnd
        \/ CopyItem \/ CopyEnd \/ (pc \in {"map", "copy", "done"} /\ UNCHANGED vars)
    BY DEF Next, vars, Collect, CollectEnd, PlanId, PlanIdsEnd, SkipSection, ResolveSection,
           SortSection, MergeOne, MergeEnd, PlaceItem, DropItem, SectionEnd, Done
  <1> QED
    BY <1>1, <1>2, <1>3, <1>4, <1>5, <1>6

-----------------------------------------------------------------------------
(* Nothing is collected, planned or copied at the start.                   *)
LEMMA InitIndInv == Init => IndInv
  <1>1. SUFFICES ASSUME Init
                 PROVE  IndInv
    OBVIOUS
  <1>2. /\ dat \in DataLists /\ pc = "collect" /\ iter = 1 /\ j = 1 /\ off = HeaderSize
        /\ offsets = [i \in Items |-> 0] /\ type_map = [t \in Types |-> << >>]
        /\ data_ord = << >> /\ kept = << >> /\ map = << >>
        /\ at = [i \in Items |-> -1] /\ file_sz = 0 /\ freed = [i \in Items |-> 0]
    BY <1>1 DEF Init
  <1>3. Len(dat) \in Nat /\ Len(Sections) = 16 /\ Len(IdTypes) = 6 /\ Len(resolve_order) = 10
    BY <1>2, ItemFacts, SectionLists, IdTypeSet, DataTypeSet
  <1>4. TypeOK
    <2>1. /\ iter \in 1..Len(Sections) + 1 /\ j \in 1..Len(dat) + 1
          /\ off \in Nat /\ off >= HeaderSize
      BY <1>2, <1>3 DEF HeaderSize
    <2>2. \A i \in Items : resolved[i] \in Seq(Int) /\ Len(resolved[i]) = Len(dat[i].refs)
      <3>1. ASSUME NEW i \in Items
            PROVE  resolved[i] \in Seq(Int) /\ Len(resolved[i]) = Len(dat[i].refs)
        <4>1. resolved[i] = [r \in 1..Len(dat[i].refs) |-> 0]
          BY <1>1 DEF Init
        <4>2. Len(dat[i].refs) \in Nat /\ resolved[i] \in [1..Len(dat[i].refs) -> Int]
          BY <1>2, <4>1, ItemFacts
        <4> QED
          BY <4>2, FunIsSeq
      <3> QED
        BY <3>1
    <2>3. resolved \in [Items -> Seq(Int)]
      <3>1. resolved = [i \in Items |-> [r \in 1..Len(dat[i].refs) |-> 0]]
        BY <1>1 DEF Init
      <3> QED
        BY <2>2, <3>1
    <2>4. type_map \in [Types -> Seq(Items)]
      BY <1>2
    <2>5. \A t \in Types : \A k \in 1..Len(type_map[t]) : dat[type_map[t][k]].type = t
      BY <1>2
    <2>6. /\ offsets \in [Items -> Nat \cup {-1}] /\ at \in [Items -> Nat \cup {-1}]
          /\ freed \in [Items -> Nat] /\ file_sz \in Nat
      BY <1>2
    <2>7. data_ord \in Seq(Items) /\ kept \in Seq(Items)
          /\ map \in Seq([type : Types \cup {"header", "map_list"}, offset : Nat, size : Nat])
      BY <1>2
    <2> QED
      BY <1>2, <2>1, <2>2, <2>3, <2>4, <2>5, <2>6, <2>7 DEF TypeOK
  <1>5. CursorInv
    BY <1>2 DEF CursorInv, Sorting
  <1>6. Reached = 1 /\ LaidTypes = {} /\ Passed = {} /\ \A t \in Types : Planned(t) = << >>
    <2>1. \A t \in Types : Rank[t] \in 1..16 /\ ~(Rank[t] < 1)
      BY RankSections
    <2> QED
      BY <1>2, <2>1 DEF Reached, LaidTypes, Passed, Planned
  <1>7. Placed = {} /\ Settled = {}
    <2>1. \A i \in Items : dat[i].type \in Types
      BY <1>2, ItemFacts
    <2>2. Placed = {}
      BY <1>6, <2>1 DEF Placed, ToSet
    <2> QED
      BY <1>6, <2>2 DEF Settled
  <1>8. ListsInv
    <2>1. \A t \in Types : type_map[t] = << >> /\ Injective(type_map[t]) /\ ToSet(type_map[t]) = {}
      BY <1>2 DEF Injective, ToSet
    <2>2. \A t \in Types : {i \in 1..j - 1 : dat[i].type = t} = {}
      BY <1>2
    <2> QED
      BY <1>2, <2>1, <2>2 DEF ListsInv
  <1>9. PlanInv
    BY <1>2, <1>7 DEF PlanInv, IsEnd, HeaderSize
  <1>10. OrderInv
    BY <1>6, <1>7 DEF OrderInv
  <1>11. MergeInv
    BY <1>2 DEF MergeInv
  <1>12. ResolvedInv
    <2>1. \A t \in Types : Rank[t] \in 1..16
      BY RankSections
    <2>2. \A t \in Types : ~(6 < Rank[t] /\ Rank[t] < 1) /\ ~(6 < Rank[t] /\ Rank[t] = 1)
      BY <2>1
    <2>3. ResolvedTypes = {}
      BY <1>2, <1>3, <1>6, <2>2 DEF ResolvedTypes, Sorting
    <2> QED
      BY <2>3 DEF ResolvedInv
  <1>13. RepresentedInv
    BY <1>7 DEF RepresentedInv
  <1>14. FreedInv
    BY <1>2, <1>7 DEF FreedInv
  <1>15. MapInv
    BY <1>2 DEF MapInv
  <1>16. CopyInv
    BY <1>2 DEF CopyInv, InFile
  <1> QED
    BY <1>4, <1>5, <1>8, <1>9, <1>10, <1>11, <1>12, <1>13, <1>14, <1>15, <1>16 DEF IndInv

(* Every step keeps the invariant.                                         *)
LEMMA NextIndInv == IndInv /\ [Next]_vars => IndInv'
  <1>1. SUFFICES ASSUME IndInv, [Next]_vars
                 PROVE  IndInv'
    OBVIOUS
  <1>2. /\ TypeOK /\ CursorInv /\ ListsInv /\ PlanInv /\ OrderInv /\ MergeInv
        /\ ResolvedInv /\ RepresentedInv /\ FreedInv /\ MapInv /\ CopyInv
    BY <1>1 DEF IndInv
  <1>3. TypeOK'
    BY <1>1, <1>2, NextTypeOK
  <1>4. CursorInv'
    BY <1>1, <1>2, <1>3, NextCursorInv
  <1>5. ListsInv'
    BY <1>1, <1>2, <1>3, NextListsInv
  <1>6. MergeInv'
    BY <1>1, <1>2, <1>3, <1>5, NextMergeInv
  <1>7. PlanInv' /\ OrderInv'
    BY <1>1, <1>2, <1>3, <1>4, NextPlanInv, NextOrderInv
  <1>8. ResolvedInv' /\ RepresentedInv'
    BY <1>1, <1>2, <1>3, <1>4, NextResolvedInv, NextRepresentedInv
  <1>9. FreedInv' /\ CopyInv'
    BY <1>1, <1>2, <1>3, <1>4, NextFreedInv, NextCopyInv
  <1>10. MapInv'
    BY <1>1, <1>2, <1>3, NextMapInv
  <1> QED
    BY <1>3, <1>4, <1>5, <1>6, <1>7, <1>8, <1>9, <1>10 DEF IndInv

(* The invariant of the loops holds in every state.                        *)
THEOREM LayoutInvariant == Spec => []IndInv
  BY InitIndInv, NextIndInv, PTL DEF Spec

(* Every variable keeps its type: no cursor of the writer leaves its list, *)
(* no offset is negative but for the items being merged.                   *)
THEOREM LayoutTypeCorrect == Spec => []TypeOK
  <1>1. IndInv => TypeOK
    BY DEF IndInv
  <1> QED
    BY <1>1, LayoutInvariant, PTL

(* The offsets that were planned are those at which the items are copied,  *)
(* and the map list follows where the header says (write.c 1790, 1898).    *)
THEOREM LayoutOffsetsAgree == Spec => []OffsetsAgree
  <1>1. IndInv => OffsetsAgree
    BY DEF IndInv, CopyInv, OffsetsAgree
  <1> QED
    BY <1>1, LayoutInvariant, PTL

(* When the file is written, every item is settled and every kept item is  *)
(* in the file at its offset.                                              *)
LEMMA DoneFacts ==
  ASSUME IndInv, pc = "done"
  PROVE  /\ InFile = Placed /\ Settled = Items /\ ResolvedTypes = Types
         /\ \A i \in Placed : Start(i) = offsets[i]
         /\ \A i \in Placed : End(i) <= off /\ offsets[i] >= HeaderSize
         /\ HeaderSize + file_sz = off
  <1>1. TypeOK /\ CursorInv /\ ListsInv /\ CopyInv /\ PlanInv
    BY DEF IndInv
  <1>2. iter = 17 /\ InFile = UNION {Copied(t) : t \in Types} /\ HeaderSize + file_sz = off
        /\ \A i \in InFile : Start(i) = offsets[i]
    BY <1>1, SectionLists DEF CopyInv
  <1>3. InFile = Placed
    <2>1. \A t \in Types : Rank[t] < iter
      BY <1>2, RankSections
    <2>2. \A t \in Types : Copied(t) = {type_map[t][k] : k \in 1..Len(type_map[t])}
      BY <2>1 DEF Copied
    <2>3. /\ \A t \in Types : \A k \in 1..Len(type_map[t]) : type_map[t][k] \in Placed
          /\ \A i \in Placed : \E t \in Types : \E k \in 1..Len(type_map[t]) : type_map[t][k] = i
      BY <1>1, AllLaid
    <2> QED
      BY <1>2, <2>2, <2>3
  <1>4. Settled = Items
    <2>1. Reached = 17
      BY SectionLists DEF Reached
    <2>2. \A t \in Types : Rank[t] < Reached
      BY <2>1, RankSections
    <2>3. \A i \in Items : dat[i].type \in Types
      BY <1>1, PlacedFacts
    <2> QED
      BY <2>2, <2>3 DEF Settled, LaidTypes
  <1>5. ResolvedTypes = Types
    BY DEF ResolvedTypes
  <1>6. \A i \in Placed : End(i) <= off /\ offsets[i] >= HeaderSize
    <2>1. PICK e \in HeaderSize..off : IsEnd(e, Placed)
      BY <1>1 DEF PlanInv
    <2>2. /\ off \in Nat /\ HeaderSize = 112 /\ \A i \in Placed : End(i) \in Int /\ End(i) <= e
      BY <1>1, <2>1, PlacedFacts DEF IsEnd
    <2>3. \A i \in Placed : offsets[i] >= HeaderSize
      BY <1>1 DEF PlanInv
    <2> QED
      BY <2>1, <2>2, <2>3
  <1> QED
    BY <1>2, <1>3, <1>4, <1>5, <1>6

(* The bytes of an item are freed once, with its duplicate or with the     *)
(* buffer that it is copied to (write.c 1831, 1893).                       *)
THEOREM LayoutFreedOnce == Spec => []FreedOnce
  <1>1. ASSUME IndInv
        PROVE  FreedOnce
    <2>1. \A i \in Items : freed[i] = IF i \in Settled \ Placed \/ at[i] # -1 THEN 1 ELSE 0
      BY <1>1 DEF IndInv, FreedInv
    <2>2. \A i \in Items : freed[i] <= 1
      BY <2>1
    <2>3. ASSUME pc = "done"
          PROVE  \A i \in Items : freed[i] = 1
      <3>1. InFile = Placed /\ Settled = Items
        BY <1>1, <2>3, DoneFacts
      <3> QED
        BY <2>1, <3>1 DEF InFile
    <2> QED
      BY <2>2, <2>3 DEF FreedOnce
  <1> QED
    BY <1>1, LayoutInvariant, PTL

(* A number below the modulus is its own remainder.                        *)
LEMMA ModSmall ==
  ASSUME NEW n \in Nat \ {0}, NEW x \in 0..n - 1
  PROVE  x % n = x
  OBVIOUS

(* The file is the graph of ctx->dat: each item is found at its offset, an *)
(* item with its bytes whose references lead to the items that it refers   *)
(* to.  A uleb of four bytes holds 28 bits.  Nothing is said of longer     *)
(* files: write.c 1672 compares the position of the uleb, not its value,   *)
(* and stores the low 28 bits.                                             *)
THEOREM LayoutReferencesReach == Spec => [](off <= UlebLimit => ReferencesReach)
  <1>1. ASSUME IndInv, off <= UlebLimit, pc = "done", NEW i \in Items
        PROVE  \E r \in InFile :
                 /\ Start(r) = offsets[i]
                 /\ dat[r].type = dat[i].type /\ dat[r].payload = dat[i].payload
                 /\ resolved[r] = [k \in 1..Len(dat[i].refs) |-> offsets[dat[i].refs[k].index]]
    <2>1. /\ InFile = Placed /\ Settled = Items /\ ResolvedTypes = Types
          /\ \A k \in Placed : Start(k) = offsets[k]
          /\ \A k \in Placed : End(k) <= off /\ offsets[k] >= HeaderSize
      BY <1>1, DoneFacts
    <2>2. TypeOK /\ ResolvedInv /\ RepresentedInv
      BY <1>1 DEF IndInv
    <2>3. PICK r \in Placed :
            dat[r].type = dat[i].type /\ offsets[r] = offsets[i] /\ (r = i \/ SameBytes(r, i))
      BY <2>1, <2>2 DEF RepresentedInv
    <2>4. dat[r].payload = dat[i].payload /\ resolved[r] = resolved[i]
      BY <2>3 DEF SameBytes, Bytes
    <2>5. resolved[i] = Resolve(i)
      BY <2>1, <2>2, PlacedFacts DEF ResolvedInv
    <2>6. ASSUME NEW k \in Items
          PROVE  offsets[k] \in 0..UlebLimit - 1
      <3>1. PICK s \in Placed : offsets[s] = offsets[k]
        BY <2>1, <2>2 DEF RepresentedInv
      <3>2. /\ offsets[s] \in Int /\ offsets[s] >= HeaderSize /\ HeaderSize = 112
            /\ End(s) \in Int /\ End(s) > offsets[s] /\ End(s) <= off /\ off \in Nat
        BY <2>1, <2>2, PlacedFacts
      <3>3. UlebLimit \in Nat
        BY UlebAssumption
      <3> QED
        BY <1>1, <3>1, <3>2, <3>3
    <2>7. \A k \in Items : offsets[k] % UlebLimit = offsets[k]
      BY <2>6, ModSmall, UlebAssumption
    <2>8. \A k \in 1..Len(dat[i].refs) : dat[i].refs[k].index \in Items
      BY <2>2, ItemFacts DEF TypeOK
    <2>9. Resolve(i) = [k \in 1..Len(dat[i].refs) |-> offsets[dat[i].refs[k].index]]
      BY <2>7, <2>8 DEF Resolve
    <2> QED
      BY <2>1, <2>3, <2>4, <2>5, <2>9
  <1>2. IndInv => (off <= UlebLimit => ReferencesReach)
    BY <1>1 DEF ReferencesReach
  <1> QED
    BY <1>2, LayoutInvariant, PTL

(* The items of a section lie between its first one and the next section.  *)
LEMMA SectionRange ==
  ASSUME IndInv, pc = "done", NEW e \in 2..Len(map) - 1
  PROVE  /\ map[e].type \in Types /\ map[e].size = Len(type_map[map[e].type])
         /\ map[e].offset \in Nat /\ map[e].offset >= HeaderSize
         /\ map[e].offset < map[e + 1].offset
         /\ Covered(e) = ToSet(type_map[map[e].type])
         /\ \E i \in Covered(e) : Start(i) = map[e].offset
  <1>1. TypeOK /\ CursorInv /\ ListsInv /\ PlanInv /\ OrderInv /\ MapInv
    BY DEF IndInv
  <1>len. Len(map) \in Nat
    BY <1>1, LenProperties DEF TypeOK
  <1>2. /\ Entries = 2..Len(map) - 1
        /\ \A f \in Entries : /\ map[f].type \in Types /\ type_map[map[f].type] # << >>
                              /\ map[f] = MapEntry(map[f].type)
        /\ \A f, g \in Entries : f < g => Rank[map[f].type] < Rank[map[g].type]
        /\ \A t \in Types : type_map[t] # << >> => \E f \in Entries : map[f].type = t
        /\ map[Len(map)] = [type |-> "map_list", offset |-> off, size |-> 1]
    BY <1>1 DEF MapInv, Entries
  <1>3. /\ InFile = Placed /\ \A i \in Placed : Start(i) = offsets[i]
        /\ \A i \in Placed : /\ End(i) <= off /\ offsets[i] >= HeaderSize
                             /\ offsets[i] \in Int /\ End(i) \in Int /\ End(i) > offsets[i]
    BY <1>1, DoneFacts, PlacedFacts
  <1>off. off \in Nat /\ HeaderSize = 112
    BY <1>1, PlacedFacts
  <1>4. /\ \A t \in Types : \A k \in 1..Len(type_map[t]) :
             type_map[t][k] \in Placed /\ dat[type_map[t][k]].type = t
        /\ \A i \in Placed : \E t \in Types : \E k \in 1..Len(type_map[t]) : type_map[t][k] = i
    BY <1>1, AllLaid
  <1>5. /\ \A t \in Types : \A m, n \in 1..Len(type_map[t]) :
             m < n => offsets[type_map[t][m]] < offsets[type_map[t][n]]
        /\ \A i, k \in Placed : Rank[dat[i].type] < Rank[dat[k].type] => offsets[i] < offsets[k]
    BY <1>1, AllLaid DEF OrderInv
  <1>6. \A t \in Types : /\ Len(type_map[t]) \in Nat
                         /\ type_map[t] # << >> => 1 \in 1..Len(type_map[t])
                         /\ ToSet(type_map[t]) = {type_map[t][k] : k \in 1..Len(type_map[t])}
                         /\ Rank[t] \in 1..16 /\ Sections[Rank[t]] = t
    <2>1. ASSUME NEW t \in Types
          PROVE  /\ Len(type_map[t]) \in Nat
                 /\ type_map[t] # << >> => 1 \in 1..Len(type_map[t])
                 /\ ToSet(type_map[t]) = {type_map[t][k] : k \in 1..Len(type_map[t])}
      <3>1. type_map[t] \in Seq(Items)
        BY <1>1 DEF TypeOK
      <3>2. /\ Len(type_map[t]) \in Nat
            /\ ToSet(type_map[t]) = {type_map[t][k] : k \in 1..Len(type_map[t])}
            /\ type_map[t] = << >> <=> Len(type_map[t]) = 0
        BY <3>1, ToSetSeq
      <3> QED
        BY <3>2
    <2> QED
      BY <2>1, RankSections
  <1>rank. \A t, u \in Types : /\ Rank[t] \in Int /\ Rank[u] \in Int
                               /\ Rank[t] = Rank[u] => t = u
    <2>1. \A t \in Types : Rank[t] \in 1..16 /\ Sections[Rank[t]] = t
      BY RankSections
    <2>2. 1..16 \subseteq Int
      OBVIOUS
    <2> QED
      BY <2>1, <2>2
  (* The first item of an entry is below the others of its section.        *)
  <1>7. \A f \in Entries : \A k \in 1..Len(type_map[map[f].type]) :
          /\ map[f].offset = offsets[type_map[map[f].type][1]]
          /\ type_map[map[f].type][1] \in Placed
          /\ map[f].offset <= offsets[type_map[map[f].type][k]]
    <2>1. ASSUME NEW f \in Entries, NEW k \in 1..Len(type_map[map[f].type])
          PROVE  /\ map[f].offset = offsets[type_map[map[f].type][1]]
                 /\ type_map[map[f].type][1] \in Placed
                 /\ map[f].offset <= offsets[type_map[map[f].type][k]]
      <3>1. PICK t \in Types : t = map[f].type /\ type_map[t] # << >> /\ map[f] = MapEntry(t)
        BY <1>2
      <3>2. map[f].offset = offsets[type_map[t][1]]
        BY <3>1 DEF MapEntry
      <3>3. 1 \in 1..Len(type_map[t]) /\ type_map[t][1] \in Placed /\ type_map[t][k] \in Placed
        BY <1>4, <1>6, <2>1, <3>1
      <3>4. k = 1 \/ 1 < k
        BY <2>1
      <3>5. offsets[type_map[t][1]] <= offsets[type_map[t][k]]
        BY <1>3, <1>5, <2>1, <3>1, <3>3, <3>4
      <3> QED
        BY <3>1, <3>2, <3>3, <3>5
    <2> QED
      BY <2>1
  <1>8. PICK t \in Types : t = map[e].type /\ type_map[t] # << >> /\ map[e] = MapEntry(t)
    BY <1>2
  <1>9. /\ map[e].size = Len(type_map[t]) /\ map[e].offset = offsets[type_map[t][1]]
        /\ type_map[t][1] \in Placed /\ type_map[t][1] \in ToSet(type_map[t])
        /\ 1 \in 1..Len(type_map[t])
    <2>1. 1 \in 1..Len(type_map[t]) /\ ToSet(type_map[t]) = {type_map[t][k] : k \in 1..Len(type_map[t])}
      BY <1>6, <1>8
    <2>2. map[e].size = Len(type_map[t]) /\ map[e].offset = offsets[type_map[t][1]]
      BY <1>8 DEF MapEntry
    <2>3. type_map[t][1] \in Placed
      BY <1>4, <2>1
    <2> QED
      BY <2>1, <2>2, <2>3
  <1>10. map[e].offset \in Nat /\ map[e].offset >= HeaderSize
    BY <1>3, <1>9, <1>off
  (* The next entry is behind the section, and not behind what follows it. *)
  <1>11. /\ \A k \in 1..Len(type_map[t]) : offsets[type_map[t][k]] < map[e + 1].offset
         /\ \A u \in Types : \A k \in 1..Len(type_map[u]) :
              Rank[u] > Rank[t] => map[e + 1].offset <= offsets[type_map[u][k]]
    <2>1. CASE e + 1 = Len(map)
      <3>1. map[e + 1].offset = off
        BY <1>2, <2>1
      <3>2. \A k \in 1..Len(type_map[t]) : offsets[type_map[t][k]] < off
        BY <1>3, <1>4, <1>off
      <3>3. ASSUME NEW u \in Types, NEW k \in 1..Len(type_map[u]), Rank[u] > Rank[t]
            PROVE  FALSE
        <4>1. type_map[u] # << >>
          BY <1>6, <1>1, <3>3, ToSetSeq DEF TypeOK
        <4>2. PICK f \in Entries : map[f].type = u
          BY <1>2, <4>1
        <4>3. f = e \/ f < e
          BY <1>2, <1>len, <2>1
        <4>4. Rank[u] = Rank[t] \/ Rank[u] < Rank[t]
          BY <1>2, <1>8, <4>2, <4>3
        <4> QED
          BY <1>rank, <3>3, <4>4
      <3> QED
        BY <3>1, <3>2, <3>3
    <2>2. CASE e + 1 \in Entries
      <3>1. PICK w \in Types : w = map[e + 1].type /\ type_map[w] # << >>
        BY <1>2, <2>2
      <3>2. /\ map[e + 1].offset = offsets[type_map[w][1]] /\ type_map[w][1] \in Placed
            /\ \A k \in 1..Len(type_map[w]) : map[e + 1].offset <= offsets[type_map[w][k]]
        BY <1>6, <1>7, <2>2, <3>1
      <3>3. dat[type_map[w][1]].type = w
        BY <1>4, <1>6, <3>1
      <3>4. Rank[t] < Rank[w]
        BY <1>2, <1>8, <2>2, <3>1
      <3>5. \A k \in 1..Len(type_map[t]) : offsets[type_map[t][k]] < map[e + 1].offset
        BY <1>4, <1>5, <3>2, <3>3, <3>4
      <3>6. ASSUME NEW u \in Types, NEW k \in 1..Len(type_map[u]), Rank[u] > Rank[t]
            PROVE  map[e + 1].offset <= offsets[type_map[u][k]]
        <4>1. type_map[u] # << >>
          BY <1>6, <1>1, <3>6, ToSetSeq DEF TypeOK
        <4>2. PICK f \in Entries : map[f].type = u
          BY <1>2, <4>1
        <4>3. f < e \/ f = e \/ f = e + 1 \/ f > e + 1
          BY <1>2
        <4>4. Rank[t] \in Int /\ Rank[u] \in Int /\ Rank[w] \in Int
          BY <1>rank
        <4>5. f = e + 1 \/ f > e + 1
          <5>1. f < e => Rank[u] < Rank[t]
            BY <1>2, <1>8, <4>2
          <5>2. f = e => Rank[u] = Rank[t]
            BY <1>8, <4>2
          <5> QED
            BY <3>6, <4>3, <4>4, <5>1, <5>2
        <4>6. CASE f = e + 1
          BY <3>1, <3>2, <4>2, <4>6
        <4>7. CASE f > e + 1
          <5>1. Rank[w] < Rank[u]
            BY <1>2, <2>2, <3>1, <4>2, <4>7
          <5>2. type_map[u][k] \in Placed /\ dat[type_map[u][k]].type = u
            BY <1>4
          <5>3. offsets[type_map[w][1]] < offsets[type_map[u][k]]
            BY <1>5, <3>2, <3>3, <5>1, <5>2
          <5> QED
            BY <1>3, <3>2, <5>2, <5>3
        <4> QED
          BY <4>5, <4>6, <4>7
      <3> QED
        BY <3>5, <3>6
    <2>3. e + 1 = Len(map) \/ e + 1 \in Entries
      BY <1>2, <1>len
    <2> QED
      BY <2>1, <2>2, <2>3
  <1>12. map[e].offset < map[e + 1].offset
    BY <1>9, <1>11
  <1>13. \A u \in Types : \A k \in 1..Len(type_map[u]) :
           Rank[u] < Rank[t] => offsets[type_map[u][k]] < map[e].offset
    <2>1. dat[type_map[t][1]].type = t
      BY <1>4, <1>9
    <2> QED
      BY <1>4, <1>5, <1>9, <2>1
  <1>next. map[e + 1].offset \in Int
    <2>1. e + 1 \in 1..Len(map)
      BY <1>len
    <2>2. map \in Seq([type : Types \cup {"header", "map_list"}, offset : Nat, size : Nat])
      BY <1>1 DEF TypeOK
    <2>3. map[e + 1] \in [type : Types \cup {"header", "map_list"}, offset : Nat, size : Nat]
      BY <2>1, <2>2, ElementOfSeq
    <2> QED
      BY <2>3
  <1>14. Covered(e) = ToSet(type_map[t])
    <2>0. ToSet(type_map[t]) = {type_map[t][k] : k \in 1..Len(type_map[t])}
      BY <1>6
    <2>1. ASSUME NEW k \in 1..Len(type_map[t])
          PROVE  type_map[t][k] \in Covered(e)
      <3>1. type_map[t][k] \in Placed /\ map[e].offset <= offsets[type_map[t][k]]
            /\ offsets[type_map[t][k]] < map[e + 1].offset
        BY <1>2, <1>4, <1>7, <1>8, <1>11
      <3> QED
        BY <1>3, <3>1 DEF Covered
    <2>2. ASSUME NEW i \in Covered(e)
          PROVE  i \in ToSet(type_map[t])
      <3>1. i \in Placed /\ map[e].offset <= offsets[i] /\ offsets[i] < map[e + 1].offset
        BY <1>3 DEF Covered
      <3>2. PICK u \in Types : \E k \in 1..Len(type_map[u]) : type_map[u][k] = i
        BY <1>4, <3>1
      <3>3. PICK k \in 1..Len(type_map[u]) : type_map[u][k] = i
        BY <3>2
      <3>4. offsets[i] \in Int /\ Rank[u] \in Int /\ Rank[t] \in Int /\ map[e].offset \in Int
        BY <1>3, <1>rank, <1>10, <3>1
      <3>5. ~(Rank[u] < Rank[t])
        BY <1>13, <3>1, <3>3, <3>4
      <3>6. ~(Rank[u] > Rank[t])
        BY <1>11, <1>next, <3>1, <3>3, <3>4
      <3>7. u = t
        BY <1>rank, <3>4, <3>5, <3>6
      <3> QED
        BY <2>0, <3>3, <3>7
    <2> QED
      BY <2>0, <2>1, <2>2
  <1>15. \E i \in Covered(e) : Start(i) = map[e].offset
    BY <1>3, <1>9, <1>14
  <1> QED
    BY <1>8, <1>9, <1>10, <1>12, <1>14, <1>15

(* The map list describes the file: its entries are in the order of their  *)
(* offsets, and each counts the items of its type, which lie between its   *)
(* offset and the next one (write.c 1866).                                 *)
THEOREM LayoutMapExact == Spec => []MapExact
  <1>1. ASSUME IndInv, pc = "done"
        PROVE  /\ \A e \in 1..Len(map) - 1 : map[e].offset < map[e + 1].offset
               /\ \A e \in 2..Len(map) - 1 :
                    /\ Cardinality(Covered(e)) = map[e].size
                    /\ \A i \in Covered(e) : dat[i].type = map[e].type
                    /\ \E i \in Covered(e) : Start(i) = map[e].offset
               /\ map[Len(map)].offset = HeaderSize + file_sz
    <2>1. /\ TypeOK /\ CursorInv /\ ListsInv /\ MapInv
          /\ HeaderSize + file_sz = off /\ off \in Nat /\ off >= HeaderSize /\ HeaderSize = 112
      BY <1>1, DoneFacts, PlacedFacts DEF IndInv
    <2>2. /\ Len(map) >= 2 /\ Len(map) \in Nat /\ map[1].offset = 0
          /\ map[Len(map)].offset = off
      BY <1>1, <2>1, LenProperties, SMTT(30) DEF MapInv, TypeOK
    <2>3. ASSUME NEW e \in 1..Len(map) - 1
          PROVE  map[e].offset < map[e + 1].offset
      <3>1. CASE e = 1 /\ Len(map) = 2
        BY <2>1, <2>2, <3>1
      <3>2. CASE e = 1 /\ Len(map) > 2
        <4>1. 2 \in 2..Len(map) - 1
          BY <2>2, <3>2
        <4>2. map[2].offset >= HeaderSize /\ map[2].offset \in Nat
          BY <1>1, <4>1, SectionRange
        <4> QED
          BY <2>1, <2>2, <3>2, <4>2
      <3>3. CASE e > 1
        <4>1. e \in 2..Len(map) - 1
          BY <2>2, <3>3
        <4> QED
          BY <1>1, <4>1, SectionRange
      <3>4. e = 1 \/ e > 1
        <4>1. e \in Int /\ e >= 1
          BY <2>2, <2>3
        <4> QED
          BY <4>1
      <3>5. Len(map) = 2 \/ Len(map) > 2
        <4>1. PICK n \in Nat : n = Len(map) /\ n >= 2
          BY <2>2
        <4> QED
          BY <4>1
      <3> QED
        BY <3>1, <3>2, <3>3, <3>4, <3>5
    <2>4. ASSUME NEW e \in 2..Len(map) - 1
          PROVE  /\ Cardinality(Covered(e)) = map[e].size
                 /\ \A i \in Covered(e) : dat[i].type = map[e].type
                 /\ \E i \in Covered(e) : Start(i) = map[e].offset
      <3>1. PICK t \in Types :
              /\ t = map[e].type /\ map[e].size = Len(type_map[t])
              /\ Covered(e) = ToSet(type_map[t])
              /\ \E i \in Covered(e) : Start(i) = map[e].offset
        BY <1>1, SectionRange
      <3>2. type_map[t] \in Seq(Items) /\ Injective(type_map[t])
        BY <2>1 DEF TypeOK, ListsInv
      <3>3. Cardinality(Covered(e)) = map[e].size
        BY <3>1, <3>2, InjectiveCard
      <3>4. \A i \in Covered(e) : dat[i].type = t
        <4>1. ToSet(type_map[t]) = {type_map[t][k] : k \in 1..Len(type_map[t])}
          BY <3>2, ToSetSeq
        <4>2. \A k \in 1..Len(type_map[t]) : dat[type_map[t][k]].type = t
          BY <2>1 DEF TypeOK
        <4> QED
          BY <3>1, <4>1, <4>2
      <3> QED
        BY <3>1, <3>3, <3>4
    <2> QED
      BY <2>1, <2>2, <2>3, <2>4
  <1>2. IndInv => MapExact
    BY <1>1 DEF MapExact
  <1> QED
    BY <1>2, LayoutInvariant, PTL
-----------------------------------------------------------------------------
(* The checksums of a sorted list are in order, not only those of          *)
(* neighbours.                                                             *)
LEMMA ChecksumOrder ==
  ASSUME TypeOK, NumericChecksums, NEW s \in Seq(Items), CrcSorted(s)
  PROVE  \A a, b \in 1..Len(s) :
           /\ Crc(Bytes(s[a])) \in Nat
           /\ a <= b => Crc(Bytes(s[a])) <= Crc(Bytes(s[b]))
  <1>1. Len(s) \in Nat /\ \A k \in 1..Len(s) : s[k] \in Items
    BY ToSetSeq
  <1>2. ASSUME NEW i \in Items
        PROVE  Crc(Bytes(i)) \in Nat
    <2>1. dat \in DataLists /\ i \in 1..Len(dat) /\ resolved[i] \in Seq(Int)
      BY DEF TypeOK, Items
    <2> QED
      BY <2>1 DEF NumericChecksums, Bytes
  <1> DEFINE c == [k \in 1..Len(s) |-> Crc(Bytes(s[k]))]
  <1>3. c \in [1..Len(s) -> Nat]
    BY <1>1, <1>2
  <1>4. \A k \in 1..Len(s) : c[k] = Crc(Bytes(s[k])) /\ c[k] \in Nat
    BY <1>3
  <1>5. \A k \in 1..Len(s) - 1 : c[k] <= c[k + 1]
    <2>1. ASSUME NEW k \in 1..Len(s) - 1
          PROVE  k \in 1..Len(s) /\ k + 1 \in 1..Len(s)
      BY <1>1
    <2> QED
      BY <1>4, <2>1 DEF CrcSorted
  <1> HIDE DEF c
  <1>6. \A a, b \in 1..Len(s) : a <= b => c[a] <= c[b]
    BY <1>1, <1>3, <1>5, SortedPairs
  <1> QED
    BY <1>4, <1>6

(* An item with the bytes of the current one is found: those in between    *)
(* have their checksum.                                                    *)
LEMMA DuplicateFound ==
  ASSUME TypeOK, ListsInv, NumericChecksums, MergedInv, MergeOne,
         NEW n \in 1..Len(data_ord), j < n, Waiting(j), Waiting(n),
         SameBytes(data_ord[j], data_ord[n])
  PROVE  offsets'[data_ord[n]] # -1
  <1>1. pc = "merge" /\ j \in 1..Len(data_ord) /\ j \in Nat
    <2>1. pc = "merge" /\ j <= Len(data_ord) /\ j \in Nat /\ j >= 1
      BY OrdFacts DEF MergeOne
    <2>2. Len(data_ord) \in Nat
      BY <2>1, OrdFacts
    <2> QED
      BY <2>1, <2>2
  <1>2. CrcSorted(data_ord) /\ data_ord \in Seq(Items) /\ Len(data_ord) \in Nat
    BY <1>1, OrdFacts DEF MergedInv, TypeOK
  <1>3. \A a, b \in 1..Len(data_ord) :
          /\ Crc(Bytes(data_ord[a])) \in Nat
          /\ a <= b => Crc(Bytes(data_ord[a])) <= Crc(Bytes(data_ord[b]))
    BY <1>2, ChecksumOrder
  <1>4. Crc(Bytes(data_ord[j])) = Crc(Bytes(data_ord[n]))
    BY DEF SameBytes
  <1>5. ASSUME NEW m \in j..n
        PROVE  Crc(Bytes(data_ord[m])) = Crc(Bytes(data_ord[j]))
    <2>1. m \in 1..Len(data_ord) /\ j <= m /\ m <= n
      BY <1>1, <1>2
    <2>2. /\ Crc(Bytes(data_ord[j])) <= Crc(Bytes(data_ord[m]))
          /\ Crc(Bytes(data_ord[m])) <= Crc(Bytes(data_ord[n]))
          /\ Crc(Bytes(data_ord[m])) \in Nat /\ Crc(Bytes(data_ord[j])) \in Nat
      BY <1>1, <1>3, <2>1
    <2> QED
      BY <1>4, <2>2
  <1>6. n \in j + 1..Len(data_ord)
    BY <1>1, <1>2
  <1>7. data_ord[n] \in Duplicates(data_ord, j)
    BY <1>5, <1>6 DEF Duplicates, Waiting
  <1>8. data_ord[n] \in Items /\ data_ord[j] \in Items /\ Len(dat) \in Nat
    BY <1>1, OrdFacts, ItemFacts DEF TypeOK
  <1>9. offsets' = [i \in Items |-> IF i \in Duplicates(data_ord, j) THEN data_ord[j] ELSE offsets[i]]
    BY DEF MergeOne, Waiting
  <1>10. offsets'[data_ord[n]] = data_ord[j]
    BY <1>7, <1>8, <1>9
  <1>11. data_ord[j] \in Nat
    BY <1>8 DEF Items
  <1> QED
    BY <1>10, <1>11

(* The merging loop keeps no two items with the same bytes.                *)
LEMMA NextMergedInv ==
  ASSUME TypeOK, TypeOK', CursorInv, ListsInv, NumericChecksums, MergedInv, [Next]_vars
  PROVE  MergedInv'
  <1>dat. dat' = dat /\ Items' = Items
    BY SameItems
  <1>1. SUFFICES ASSUME pc' = "merge"
                 PROVE  /\ CrcSorted(data_ord)' /\ Current' # "code"
                        /\ \A m \in 1..j' - 1 : \A n \in 1..Len(data_ord') :
                             /\ m < n /\ offsets'[data_ord'[m]] = -1 /\ offsets'[data_ord'[n]] = -1
                             => ~SameBytes(data_ord[m], data_ord[n])'
    BY DEF MergedInv, Waiting
  <1>2. CASE SortSection
    <2>1. /\ pc' = "merge" /\ iter' = iter /\ j' = 1 /\ resolved' = resolved /\ CrcSorted(data_ord')
          /\ resolve_order[iter] # "code"
      BY <1>1, <1>2 DEF SortSection
    <2>2. CrcSorted(data_ord)'
      BY <1>dat, <2>1 DEF CrcSorted, Bytes
    <2>3. 1..j' - 1 = {}
      BY <2>1
    <2> QED
      BY <2>1, <2>2, <2>3 DEF Current
  <1>3. CASE MergeOne
    <2>1. /\ pc = "merge" /\ iter' = iter /\ j' = j + 1 /\ resolved' = resolved
          /\ data_ord' = data_ord /\ j <= Len(data_ord)
          /\ offsets' = [i \in Items |-> IF i \in (IF Waiting(j) THEN Duplicates(data_ord, j) ELSE {})
                                         THEN data_ord[j] ELSE offsets[i]]
      BY <1>3 DEF MergeOne, Waiting
    <2>2. CrcSorted(data_ord)' /\ Current' # "code"
      BY <1>dat, <2>1 DEF MergedInv, CrcSorted, Bytes, Current
    <2>ord. /\ j \in Nat /\ j >= 1 /\ Len(data_ord) \in Nat /\ Len(dat) \in Nat
            /\ \A m \in 1..Len(data_ord) : data_ord[m] \in Items
      BY <2>1, OrdFacts, ItemFacts DEF TypeOK
    <2>3. ASSUME NEW m \in 1..Len(data_ord), offsets'[data_ord[m]] = -1
          PROVE  Waiting(m)
      <3>1. data_ord[m] \in Items /\ data_ord[j] \in Nat
        BY <2>1, <2>ord DEF Items
      <3> QED
        BY <2>1, <2>3, <3>1 DEF Waiting
    <2>4. ASSUME NEW m \in 1..j' - 1, NEW n \in 1..Len(data_ord), m < n,
                 offsets'[data_ord[m]] = -1, offsets'[data_ord[n]] = -1
          PROVE  ~SameBytes(data_ord[m], data_ord[n])
      <3>1. m \in 1..Len(data_ord) /\ (m = j \/ m \in 1..j - 1)
        BY <2>1, <2>ord
      <3>2. Waiting(m) /\ Waiting(n)
        BY <2>3, <2>4, <3>1
      <3>3. CASE m \in 1..j - 1
        BY <2>1, <2>4, <3>2, <3>3 DEF MergedInv
      <3>4. CASE m = j
        BY <1>3, <2>4, <3>2, <3>4, DuplicateFound
      <3> QED
        BY <3>1, <3>3, <3>4
    <2>5. \A m \in 1..j' - 1 : \A n \in 1..Len(data_ord) :
            SameBytes(data_ord[m], data_ord[n])' <=> SameBytes(data_ord[m], data_ord[n])
      BY <1>dat, <2>1 DEF SameBytes, Bytes
    <2> QED
      BY <2>1, <2>2, <2>4, <2>5
  <1>4. CASE UNCHANGED vars
    <2>1. /\ pc = "merge" /\ iter' = iter /\ j' = j /\ resolved' = resolved
          /\ data_ord' = data_ord /\ offsets' = offsets
      BY <1>1, <1>4 DEF vars
    <2> QED
      BY <1>dat, <2>1 DEF MergedInv, CrcSorted, Bytes, Current, SameBytes, Waiting
  <1>5. SortSection \/ MergeOne \/ UNCHANGED vars
    BY <1>1 DEF Next, Collect, CollectEnd, PlanId, PlanIdsEnd, SkipSection, ResolveSection,
           MergeEnd, PlaceItem, DropItem, SectionEnd, ResolveIds,
           MapSection, MapEnd, CopyItem, CopyEnd, Done
  <1> QED
    BY <1>2, <1>3, <1>4, <1>5

(* The items of a section that are placed, or wait to be, differ.          *)
LEMMA NextKeptInv ==
  ASSUME TypeOK, TypeOK', CursorInv, ListsInv, MergedInv, KeptInv, [Next]_vars
  PROVE  KeptInv'
  <1>dat. dat' = dat /\ Items' = Items
    BY SameItems
  <1>1. SUFFICES ASSUME pc' = "place", Current' # "code"
                 PROVE  \A m, n \in 1..Len(data_ord') :
                          m < n /\ Keeps(m)' /\ Keeps(n)' => ~SameBytes(data_ord[m], data_ord[n])'
    BY DEF KeptInv
  <1>2. CASE MergeEnd
    <2>1. /\ pc = "merge" /\ j > Len(data_ord) /\ j' = 1 /\ resolved' = resolved /\ iter' = iter
          /\ data_ord' = data_ord /\ offsets' = offsets /\ j \in Nat /\ Len(data_ord) \in Nat
      BY <1>2, OrdFacts DEF MergeEnd
    <2>2. ASSUME NEW m \in 1..Len(data_ord)
          PROVE  (Keeps(m)' <=> Waiting(m)) /\ m \in 1..j - 1
      BY <2>1 DEF Keeps, Waiting
    <2>3. \A m, n \in 1..Len(data_ord) :
            SameBytes(data_ord[m], data_ord[n])' <=> SameBytes(data_ord[m], data_ord[n])
      BY <1>dat, <2>1 DEF SameBytes, Bytes
    <2> QED
      BY <2>1, <2>2, <2>3 DEF MergedInv
  <1>3. CASE PlaceItem \/ DropItem
    <2>1. /\ pc = "place" /\ j' = j + 1 /\ resolved' = resolved /\ iter' = iter
          /\ data_ord' = data_ord /\ j \in 1..Len(data_ord) /\ Len(data_ord) \in Nat /\ Current # "code"
      <3>1. pc = "place" /\ j <= Len(data_ord) /\ j' = j + 1 /\ resolved' = resolved
            /\ data_ord' = data_ord /\ iter' = iter
        BY <1>3 DEF PlaceItem, DropItem
      <3>2. j \in Nat /\ j >= 1 /\ Len(data_ord) \in Nat
        BY <3>1, OrdFacts
      <3> QED
        BY <1>1, <3>1, <3>2 DEF Current
    <2>ord. /\ \A m \in 1..Len(data_ord) : data_ord[m] \in Items
            /\ \A m, n \in 1..Len(data_ord) : data_ord[m] = data_ord[n] => m = n
            /\ offsets \in [Items -> Nat \cup {-1}] /\ kept \in Seq(Items)
            /\ ToSet(kept) \subseteq {data_ord[m] : m \in 1..j - 1}
      BY <2>1, OrdFacts DEF TypeOK, ListsInv, Passed
    <2>2. ASSUME NEW m \in 1..Len(data_ord)
          PROVE  Keeps(m)' => Keeps(m)
      <3>1. CASE PlaceItem
        <4>1. /\ offsets[data_ord[j]] = -1 /\ kept' = Append(kept, data_ord[j])
              /\ \A k \in Items : k # data_ord[j] => offsets'[k] = offsets[k]
          BY <2>1, <2>ord, <3>1, PlanType DEF PlaceItem
        <4>2. ToSet(kept') = ToSet(kept) \cup {data_ord[j]}
          BY <2>1, <2>ord, <4>1, AppendFacts
        <4>3. CASE m = j
          BY <4>1, <4>3 DEF Keeps, Waiting
        <4>4. CASE m < j
          <5>1. data_ord[m] # data_ord[j] /\ m < j'
            BY <2>1, <2>ord, <4>4
          <5> QED
            BY <2>1, <4>2, <4>4, <5>1 DEF Keeps
        <4>5. CASE m > j
          <5>1. data_ord[m] # data_ord[j] /\ ~(m < j') /\ ~(m < j)
            BY <2>1, <2>ord, <4>5
          <5> QED
            BY <2>1, <2>ord, <4>1, <5>1 DEF Keeps, Waiting
        <4> QED
          BY <2>1, <4>3, <4>4, <4>5
      <3>2. CASE DropItem
        <4>1. /\ kept' = kept
              /\ \A k \in Items : k # data_ord[j] => offsets'[k] = offsets[k]
          BY <2>1, <2>ord, <3>2 DEF DropItem
        <4>3. CASE m = j
          <5>1. data_ord[j] \notin ToSet(kept)
            BY <2>1, <2>ord
          <5>2. m < j'
            BY <2>1, <4>3
          <5> QED
            BY <2>1, <4>1, <4>3, <5>1, <5>2 DEF Keeps
        <4>4. CASE m < j
          <5>1. m < j'
            BY <2>1, <4>4
          <5> QED
            BY <2>1, <4>1, <4>4, <5>1 DEF Keeps
        <4>5. CASE m > j
          <5>1. data_ord[m] # data_ord[j] /\ ~(m < j') /\ ~(m < j)
            BY <2>1, <2>ord, <4>5
          <5> QED
            BY <2>1, <2>ord, <4>1, <5>1 DEF Keeps, Waiting
        <4> QED
          BY <2>1, <4>3, <4>4, <4>5
      <3> QED
        BY <1>3, <3>1, <3>2
    <2>3. \A m, n \in 1..Len(data_ord) :
            SameBytes(data_ord[m], data_ord[n])' <=> SameBytes(data_ord[m], data_ord[n])
      BY <1>dat, <2>1 DEF SameBytes, Bytes
    <2> QED
      BY <2>1, <2>2, <2>3 DEF KeptInv
  <1>4. CASE UNCHANGED vars
    <2>1. /\ pc = "place" /\ iter' = iter /\ j' = j /\ resolved' = resolved /\ kept' = kept
          /\ data_ord' = data_ord /\ offsets' = offsets
      BY <1>1, <1>4 DEF vars
    <2>2. \A m \in 1..Len(data_ord) : Keeps(m)' <=> Keeps(m)
      BY <2>1 DEF Keeps, Waiting
    <2>3. \A m, n \in 1..Len(data_ord) :
            SameBytes(data_ord[m], data_ord[n])' <=> SameBytes(data_ord[m], data_ord[n])
      BY <1>dat, <2>1 DEF SameBytes, Bytes
    <2>4. Current # "code"
      BY <1>1, <2>1 DEF Current
    <2> QED
      BY <2>1, <2>2, <2>3, <2>4 DEF KeptInv
  <1>5. MergeEnd \/ PlaceItem \/ DropItem \/ UNCHANGED vars
    <2>1. CASE SortSection
      BY <1>1, <2>1 DEF SortSection, Current
    <2>2. CASE ~SortSection
      BY <1>1, <2>2 DEF Next, Collect, CollectEnd, PlanId, PlanIdsEnd, SkipSection, ResolveSection,
           MergeOne, SectionEnd, ResolveIds, MapSection, MapEnd, CopyItem, CopyEnd, Done
    <2> QED
      BY <2>1, <2>2
  <1> QED
    BY <1>2, <1>3, <1>4, <1>5

(* A section is finished with what was placed of it, or empty.             *)
LEMMA LaidStep ==
  ASSUME TypeOK, TypeOK', CursorInv, CursorInv', ListsInv, [Next]_vars,
         NEW t \in Types, t \in LaidTypes', t \notin LaidTypes, t \in ToSet(resolve_order)
  PROVE  /\ t = Current /\ (SkipSection \/ SectionEnd)
         /\ SkipSection => type_map[t] = << >>
  <1>iter. iter \in 1..17 /\ Len(Sections) = 16 /\ Len(IdTypes) = 6 /\ Len(resolve_order) = 10
    BY SectionLists, IdTypeSet, DataTypeSet DEF TypeOK
  <1>1. Rank[t] \in 1..16 /\ Rank[t] > 6 /\ Rank[t] < Reached' /\ ~(Rank[t] < Reached)
    BY RankSections, RankParts DEF LaidTypes
  <1>2. Reached \in Nat /\ Reached' \in Nat
    BY LaidGrows
  <1>3. CASE SkipSection \/ SectionEnd
    <2>1. /\ iter \in 1..10 /\ Reached = 6 + iter /\ Reached' = 6 + iter + 1
      BY <1>3, <1>iter DEF SkipSection, SectionEnd, Reached, CursorInv, Sorting
    <2>2. PICK n \in 1..10 : n = iter
      BY <2>1
    <2>3. Rank[t] = 6 + n
      BY <1>1, <2>1, <2>2
    <2>4. Rank[Current] = 6 + n /\ Current \in Types
      BY <2>2, RankParts DEF Current
    <2>5. t = Current
      BY <2>3, <2>4, RankSections
    <2> QED
      BY <1>3, <2>5 DEF SkipSection, Current
  <1>4. CASE ~SkipSection /\ ~SectionEnd
    <2>1. CASE pc \in {"collect", "ids"}
      <3>1. /\ pc' \in {"collect", "ids", "sections"} /\ iter' \in Nat
            /\ pc' = "sections" => iter' = 1
        BY <2>1, <1>iter DEF Next, vars, Collect, CollectEnd, PlanId, PlanIdsEnd, SkipSection,
           ResolveSection, SortSection, MergeOne, MergeEnd, PlaceItem, DropItem, SectionEnd,
           ResolveIds, MapSection, MapEnd, CopyItem, CopyEnd, Done
      <3>2. Reached' <= 7
        BY <1>iter, <3>1 DEF Reached, CursorInv
      <3> QED
        BY <1>1, <1>2, <3>2
    <2>2. CASE ResolveIds \/ pc \in {"map", "copy", "done"}
      <3>1. Reached = 17
        <4>1. CASE ResolveIds
          <5>1. iter = 11 /\ pc = "sections"
            BY <1>iter, <4>1 DEF ResolveIds, CursorInv
          <5> QED
            BY <1>iter, <5>1 DEF Reached
        <4>2. CASE pc \in {"map", "copy", "done"}
          BY <1>iter, <4>2 DEF Reached
        <4> QED
          BY <2>2, <4>1, <4>2
      <3> QED
        BY <1>1, <3>1
    <2>3. CASE \/ ResolveSection \/ SortSection \/ MergeOne \/ MergeEnd \/ PlaceItem \/ DropItem
               \/ UNCHANGED vars
      <3>1. Reached' = Reached
        BY <2>3 DEF ResolveSection, SortSection, MergeOne, MergeEnd, PlaceItem, DropItem, vars, Reached
      <3> QED
        BY <1>1, <3>1
    <2>4. \/ pc \in {"collect", "ids", "map", "copy", "done"} \/ ResolveIds
          \/ ResolveSection \/ SortSection \/ MergeOne \/ MergeEnd \/ PlaceItem \/ DropItem
          \/ UNCHANGED vars
      BY <1>4 DEF Next, Collect, CollectEnd, PlanId, PlanIdsEnd, MapSection, MapEnd,
           CopyItem, CopyEnd, Done
    <2> QED
      BY <2>1, <2>2, <2>3, <2>4
  <1> QED
    BY <1>3, <1>4

(* No finished section but that of the code holds equal items.             *)
LEMMA NextUniqueInv ==
  ASSUME TypeOK, TypeOK', CursorInv, CursorInv', ListsInv, MergeInv, PlanInv, KeptInv, UniqueInv,
         [Next]_vars
  PROVE  UniqueInv'
  <1>dat. dat' = dat /\ Items' = Items
    BY SameItems
  <1>1. SUFFICES ASSUME NEW i \in Placed', NEW k \in Placed', i # k, dat[i].type = dat[k].type,
                        dat[i].type \in LaidTypes',
                        dat[i].type \in ToSet(resolve_order) \ {"code"}
                 PROVE  ~SameBytes(i, k)'
    BY <1>dat DEF UniqueInv
  <1>2. PICK t \in Types : t = dat[i].type /\ t = dat[k].type
    BY <1>1 DEF LaidTypes
  <1>in. i \in Items /\ k \in Items
    BY <1>dat DEF Placed
  <1>3. CASE t \in LaidTypes
    <2>1. i \in Placed /\ k \in Placed
      <3>1. CASE Placed' = Placed
        BY <3>1
      <3>2. CASE \E x \in Items \ Settled : Places(x)
        <4>1. PICK x \in Items \ Settled : Places(x)
          BY <3>2
        <4>2. Placed' = Placed \cup {x}
          BY <4>1 DEF Places
        <4>3. dat[x].type \notin LaidTypes
          BY DEF Settled
        <4> QED
          BY <1>2, <1>3, <4>2, <4>3
      <3> QED
        BY <3>1, <3>2, StepKind DEF SamePlan, Drops
    <2>2. ~SameBytes(i, k)
      BY <1>1, <1>2, <1>3, <2>1 DEF UniqueInv
    <2>3. resolved'[i] = resolved[i] /\ resolved'[k] = resolved[k]
      <3>1. CASE ResolveSection
        <4>1. /\ pc = "sections" /\ iter <= 10
              /\ resolved' = [m \in Items |-> IF m \in ToSet(type_map[Current]) THEN Resolve(m) ELSE resolved[m]]
          BY <3>1, DataTypeSet DEF ResolveSection, Current
        <4>2. ToSet(type_map[Current]) = {m \in Items : dat[m].type = Current}
          BY <4>1, CurrentItems
        <4>3. i \in Settled /\ k \in Settled
          BY <2>1, PlacedFacts
        <4>4. dat[i].type # Current /\ dat[k].type # Current
          BY <1>in, <4>1, <4>3, Unsettled
        <4> QED
          BY <1>in, <4>1, <4>2, <4>4
      <3>2. CASE ResolveIds
        <4>1. t \notin ToSet(IdTypes)
          BY <1>1, <1>2, IdTypeSet, DataTypeSet
        <4>2. resolved' = [m \in Items |-> IF dat[m].type \in ToSet(IdTypes) THEN Resolve(m) ELSE resolved[m]]
          BY <3>2 DEF ResolveIds
        <4> QED
          BY <1>in, <1>2, <4>1, <4>2
      <3>3. resolved' = resolved \/ ResolveSection \/ ResolveIds
        BY DEF Next, vars, Collect, CollectEnd, PlanId, PlanIdsEnd, SkipSection,
           SortSection, MergeOne, MergeEnd, PlaceItem, DropItem, SectionEnd,
           MapSection, MapEnd, CopyItem, CopyEnd, Done
      <3> QED
        BY <3>1, <3>2, <3>3
    <2> QED
      BY <1>dat, <2>2, <2>3 DEF SameBytes, Bytes
  <1>4. CASE t \notin LaidTypes
    <2>1. /\ t = Current /\ (SkipSection \/ SectionEnd)
          /\ SkipSection => type_map[t] = << >>
      BY <1>1, <1>2, <1>4, LaidStep
    <2>2. i \in Placed /\ k \in Placed
      <3>1. SamePlan
        BY <2>1, OtherKinds DEF SkipSection, SectionEnd, PlanId, PlaceItem, DropItem
      <3> QED
        BY <3>1 DEF SamePlan
    <2>3. CASE SkipSection
      <3>1. t \in LaidTypes' /\ t \in LaidTypes' => FALSE
        <4>1. pc = "sections" /\ iter \in 1..10
          BY <2>3, DataTypeSet DEF SkipSection, TypeOK
        <4>2. {m \in Items : dat[m].type = Current} = ToSet(type_map[Current])
          BY <4>1, CurrentItems
        <4>3. type_map[t] \in Seq(Items) /\ type_map[t] = << >>
          BY <2>1, <2>3 DEF TypeOK
        <4>4. ToSet(type_map[t]) = {}
          BY <4>3, ToSetSeq
        <4> QED
          BY <1>in, <1>2, <2>1, <4>2, <4>4
      <3> QED
        BY <1>1, <1>2, <3>1
    <2>4. CASE SectionEnd
      <3>1. pc = "place" /\ j > Len(data_ord) /\ resolved' = resolved /\ j \in Nat /\ Len(data_ord) \in Nat
        BY <2>4, OrdFacts DEF SectionEnd
      <3>2. Sorting /\ Rank[t] = Reached
        BY <2>1, <3>1, CurrentFacts DEF Sorting
      <3>3. Planned(t) = kept
        BY <3>1, <3>2, LaidGrows DEF Planned
      <3>4. i \in ToSet(kept) /\ k \in ToSet(kept)
        BY <1>2, <2>2, <3>3 DEF Placed
      <3>5. ToSet(kept) \subseteq {data_ord[m] : m \in 1..j - 1}
        BY <3>1 DEF ListsInv, Passed
      <3>6. /\ \E m \in 1..Len(data_ord) : data_ord[m] = i
            /\ \E n \in 1..Len(data_ord) : data_ord[n] = k
        BY <1>in, <1>2, <2>1, <3>1, OrdFacts
      <3>7. PICK m \in 1..Len(data_ord), n \in 1..Len(data_ord) : data_ord[m] = i /\ data_ord[n] = k
        BY <3>6
      <3>8. Keeps(m) /\ Keeps(n)
        BY <3>1, <3>4, <3>7 DEF Keeps
      <3>9. m < n \/ n < m
        BY <1>1, <3>7
      <3>10. ~SameBytes(i, k) \/ ~SameBytes(k, i)
        BY <1>1, <1>2, <2>1, <3>1, <3>7, <3>8, <3>9 DEF KeptInv
      <3> QED
        BY <1>dat, <3>1, <3>10 DEF SameBytes, Bytes
    <2> QED
      BY <2>1, <2>3, <2>4
  <1> QED
    BY <1>3, <1>4

(* Merging is complete: no two items in the file, code excepted, have the  *)
(* same bytes, although an item is only compared with those that follow it *)
(* with the same checksum (write.c 1800).                                  *)
THEOREM LayoutNoDuplicates ==
  ASSUME NumericChecksums
  PROVE  Spec => []NoDuplicates
  <1>1. Init => MergingInv
    <2>1. SUFFICES ASSUME Init
                   PROVE  MergingInv
      OBVIOUS
    <2>2. pc = "collect" /\ iter = 1 /\ dat \in DataLists /\ type_map = [t \in Types |-> << >>]
      BY <2>1 DEF Init
    <2>3. Reached = 1 /\ \A t \in Types : ~(Rank[t] < 1)
      <3>1. \A t \in Types : Rank[t] \in 1..16
        BY RankSections
      <3>2. \A t \in Types : ~(Rank[t] < 1)
        BY <3>1
      <3> QED
        BY <2>2, <3>2 DEF Reached
    <2>4. LaidTypes = {}
      BY <2>3 DEF LaidTypes
    <2> QED
      BY <2>2, <2>4 DEF MergingInv, MergedInv, KeptInv, UniqueInv
  <1>2. IndInv /\ IndInv' /\ MergingInv /\ [Next]_vars => MergingInv'
    <2>1. SUFFICES ASSUME IndInv, IndInv', MergingInv, [Next]_vars
                   PROVE  MergingInv'
      OBVIOUS
    <2>2. /\ TypeOK /\ TypeOK' /\ CursorInv /\ CursorInv' /\ ListsInv /\ MergeInv /\ PlanInv
          /\ MergedInv /\ KeptInv /\ UniqueInv
      BY <2>1 DEF IndInv, MergingInv
    <2> QED
      BY <2>1, <2>2, NextMergedInv, NextKeptInv, NextUniqueInv DEF MergingInv
  <1>3. IndInv /\ MergingInv => NoDuplicates
    <2>1. SUFFICES ASSUME IndInv, MergingInv, pc = "done", NEW i \in InFile, NEW k \in InFile,
                          i # k, dat[i].type = dat[k].type,
                          dat[i].type \in ToSet(resolve_order) \ {"code"}
                   PROVE  ~SameBytes(i, k)
      BY DEF NoDuplicates
    <2>2. InFile = Placed /\ TypeOK
      BY <2>1, DoneFacts DEF IndInv
    <2>3. dat[i].type \in LaidTypes
      <3>1. dat[i].type \in Types /\ Reached = 17
        BY <2>1, <2>2, PlacedFacts, SectionLists DEF Reached
      <3> QED
        BY <3>1, RankSections DEF LaidTypes
    <2> QED
      BY <2>1, <2>2, <2>3 DEF MergingInv, UniqueInv
  <1> QED
    BY <1>1, <1>2, <1>3, LayoutInvariant, PTL DEF Spec
=============================================================================
