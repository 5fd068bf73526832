---------------------------- MODULE PoolClosure -----------------------------
(***************************************************************************)
(* The constant pools of dxc_write_file (src/src/write.c): collected from  *)
(* the classes, closed under the constants a constant is itself made of,   *)
(* sorted and rid of duplicates pool by pool, then looked up by binary     *)
(* search while the items of the file are written.  An item stores the     *)
(* index of a constant and nothing else, so a miss (NO_INDEX) or a hit on  *)
(* another constant corrupts the file without an error.                    *)
(*                                                                         *)
(* Which constants an element of a class refers to is a parameter here     *)
(* (ConstPool gives it the walks of DexTree).                              *)
(***************************************************************************)
EXTENDS ConstItems, FiniteSets, SequencesExt

CONSTANTS
  DexFiles,     (* the class lists to be written                           *)
  UShortMax,    (* the largest index a 16 bit reference stores (0xFFFF)    *)
  Collected(_), (* the constants pop_class adds for a class                *)
  LookedUp(_),  (* the constants write_class looks up for a class          *)
  Whole(_)      (* a class of which write_class leaves nothing out         *)

ASSUME UShortAssumption == UShortMax \in Nat

ASSUME ClassesAssumption ==
  \A d \in DexFiles :
    /\ Len(d) \in Nat
    /\ \A i \in 1..Len(d) :
         /\ IsFiniteSet(Collected(d[i]))
         /\ \A c \in Collected(d[i]) \cup LookedUp(d[i]) : IsConstant(c)

VARIABLES
  dex,         (* dex->classes                                             *)
  pc,          (* the step of dxc_write_file that comes next               *)
  pos,         (* the class of the loops over classes                      *)
  pool,        (* the constants added to each pool, whatever their order   *)
  unique,      (* the pools that make_unique has been called on            *)
  array,       (* what make_unique left in them                            *)
  ids,         (* the id items written: the indices they store             *)
  found        (* the lookups of write_class and their results             *)

vars == <<dex, pc, pos, pool, unique, array, ids, found>>

NO_INDEX == -1
-----------------------------------------------------------------------------
(* Mutant: compare_field compares the types before the names.              *)
CompareMut(p, a, b) ==
  LET Swap(key) == IF p = "fields" THEN <<key[1], key[3], key[2]>> ELSE key
  IN  IF Less(Swap(a), Swap(b)) THEN -1 ELSE IF a = b THEN 0 ELSE 1

(* compare_proto, compare_field, compare_method and mutf8_ref_compare.     *)
Compare(p, a, b) == IF Less(a, b) THEN -1 ELSE IF a = b THEN 0 ELSE 1

(* One round of the loop of find_pool.  A search is the half open interval *)
(* that is left and the index found.                                       *)
Narrow(p, A, key, s) ==
  IF s.hit # NO_INDEX \/ s.lo >= s.hi THEN s
  ELSE LET mid == s.lo + (s.hi - s.lo) \div 2
           r == Compare(p, key, A[mid + 1])
       IN  IF r = 0 THEN [s EXCEPT !.hit = mid]
           ELSE IF r < 0 THEN [s EXCEPT !.hi = mid]
           ELSE [s EXCEPT !.lo = mid + 1]

(* find_pool: the index of key in the sorted array A, from 0.  The loop    *)
(* ends within Len(A) rounds: each of them leaves less of the array.       *)
Rounds(p, A, key) ==
  LET search[k \in 0..Len(A)] ==
        IF k = 0 THEN [lo |-> 0, hi |-> Len(A), hit |-> NO_INDEX]
        ELSE Narrow(p, A, key, search[k - 1])
  IN  search

Find(p, A, key) == Rounds(p, A, key)[Len(A)].hit

(* Mutant: the arguments of the comparison are swapped.                    *)
MakeUniqueMut(p, S) ==
  LET Rank(x) == Cardinality({y \in S : Compare(p, x, y) < 0})
  IN  [k \in 1..Cardinality(S) |-> CHOOSE x \in S : Rank(x) = k - 1]

(* make_unique: one entry for each constant added, the smaller first.      *)
MakeUnique(p, S) ==
  LET Rank(x) == Cardinality({y \in S : Compare(p, y, x) < 0})
  IN  [k \in 1..Cardinality(S) |-> CHOOSE x \in S : Rank(x) = k - 1]

(* add_str, add_type, add_proto, add_field, add_method. *)
Add(constants) ==
  [p \in Pools |-> pool[p] \cup {c.key : c \in {d \in constants : d.pool = p}}]

Uint2UShort(x) == IF x < 0 \/ x > UShortMax THEN 0 ELSE x

Lookup(constant) == Find(constant.pool, array[constant.pool], constant.key)
-----------------------------------------------------------------------------
Init ==
  /\ dex \in DexFiles
  /\ pc = "populate"
  /\ pos = 1
  /\ pool = [p \in Pools |-> {}]
  /\ unique = {}
  /\ array = [p \in Pools |-> << >>]
  /\ ids = [p \in Pools |-> << >>]
  /\ found = {}

(* pop_class for each class. *)
Populate ==
  /\ pc = "populate" /\ pos <= Len(dex)
  /\ pool' = Add(Collected(dex[pos]))
  /\ pos' = pos + 1
  /\ UNCHANGED <<dex, pc, unique, array, ids, found>>

PopulateEnd ==
  /\ pc = "populate" /\ pos > Len(dex)
  /\ pc' = "methods"
  /\ pos' = 1
  /\ UNCHANGED <<dex, pool, unique, array, ids, found>>

(* Mutant: the return type is cut off the prototype of a method.           *)
PartsOfCutMut(p, key) ==
  CASE p = "methods" -> {Type(key[1]), Str(key[2]), Proto(SubSeq(key, 4, Len(key)))}
    [] p = "fields" -> {Type(key[1]), Str(key[2]), Type(key[3])}
    [] p = "protos" -> {Type(key[i]) : i \in 1..Len(key)} \cup {Str(Shorty(key))}
    [] p = "types" -> {Str(key[1])}
    [] p = "strs" -> {}

(* Mutant: the shorty descriptors are not collected.                       *)
PartsOfShortyMut(p, key) ==
  CASE p = "methods" -> {Type(key[1]), Str(key[2]), Proto(SubSeq(key, 3, Len(key)))}
    [] p = "fields" -> {Type(key[1]), Str(key[2]), Type(key[3])}
    [] p = "protos" -> {Type(key[i]) : i \in 1..Len(key)}
    [] p = "types" -> {Str(key[1])}
    [] p = "strs" -> {}

(* The constants added for an entry of pool p once p is unique.            *)
PartsOf(p, key) ==
  CASE p = "methods" -> {Type(key[1]), Str(key[2]), Proto(SubSeq(key, 3, Len(key)))}
    [] p = "fields" -> {Type(key[1]), Str(key[2]), Type(key[3])}
    [] p = "protos" -> {Type(key[i]) : i \in 1..Len(key)} \cup {Str(Shorty(key))}
    [] p = "types" -> {Str(key[1])}
    [] p = "strs" -> {}

(* make_unique on pool p, then the constants its entries are made of.      *)
Close(p, next) ==
  /\ pc = p
  /\ array' = [array EXCEPT ![p] = MakeUnique(p, pool[p])]
  /\ pool' = Add(UNION {PartsOf(p, key) : key \in pool[p]})
  /\ unique' = unique \cup {p}
  /\ pc' = next
  /\ UNCHANGED <<dex, pos, ids, found>>

CloseMethods == Close("methods", "fields")
CloseFields == Close("fields", "protos")
CloseProtos == Close("protos", "types")
CloseTypes == Close("types", "strs")
CloseStrs == Close("strs", "constants")

(* write_constant_pool: one id item per constant.  The class, the type and *)
(* the prototype of a field or method, and the parameters of a prototype,  *)
(* are 16 bit.                                                             *)
Stored(p, part, index) ==
  IF part.pool # "strs" /\ (p \in {"fields", "methods"} \/ index > 2)
    THEN Uint2UShort(Lookup(part)) ELSE Lookup(part)

WriteConstantPool ==
  /\ pc = "constants"
  /\ ids' = [p \in Pools |->
               [i \in 1..Len(array[p]) |->
                  LET parts == IdItem(p, array[p][i])
                  IN  [k \in 1..Len(parts) |-> Stored(p, parts[k], k)]]]
  /\ pc' = "classes"
  /\ UNCHANGED <<dex, pos, pool, unique, array, found>>

(* write_class, whose lookups do not depend on the order of the classes.   *)
WriteClassItem ==
  /\ pc = "classes" /\ pos <= Len(dex)
  /\ found' = found \cup {[constant |-> c, index |-> Lookup(c)] : c \in LookedUp(dex[pos])}
  /\ pos' = pos + 1
  /\ UNCHANGED <<dex, pc, pool, unique, array, ids>>

WriteClassesEnd ==
  /\ pc = "classes" /\ pos > Len(dex)
  /\ pc' = "done"
  /\ UNCHANGED <<dex, pos, pool, unique, array, ids, found>>

Done == pc = "done" /\ UNCHANGED vars

Next ==
  \/ Populate \/ PopulateEnd
  \/ CloseMethods \/ CloseFields \/ CloseProtos \/ CloseTypes \/ CloseStrs
  \/ WriteConstantPool \/ WriteClassItem \/ WriteClassesEnd
  \/ Done

Spec == Init /\ [][Next]_vars
-----------------------------------------------------------------------------
Steps == {"populate", "methods", "fields", "protos", "types", "strs",
          "constants", "classes", "done"}

TypeOK ==
  /\ dex \in DexFiles
  /\ pc \in Steps
  /\ pos \in 1..Len(dex) + 1
  /\ DOMAIN pool = Pools /\ DOMAIN array = Pools
  /\ \A p \in Pools : IsFiniteSet(pool[p]) /\ pool[p] \subseteq KeysOf(p)
  /\ unique \subseteq Pools
  /\ \A p \in Pools : array[p] \in Seq(KeysOf(p))
  /\ \A f \in found : f.index \in Int /\ IsConstant(f.constant)

(* Whatever element refers to a constant, its lookup while the classes are *)
(* written finds this very constant: collecting and writing a constant are  *)
(* two independent walks over the same tree, pop_class and write_class, and *)
(* no step between them checks that they agree.                            *)
LookupsHit ==
  \A f \in found :
    /\ f.index # NO_INDEX
    /\ array[f.constant.pool][f.index + 1] = f.constant.key

(* The closure is complete in a single pass: the parts of every constant   *)
(* (shorty descriptor, parameter types, names, ...) are in their pools at  *)
(* the index its id item stores.                                           *)
IdItemsExact ==
  pc \in {"classes", "done"} =>
    \A p \in Pools : \A i \in 1..Len(array[p]) :
      LET parts == IdItem(p, array[p][i])
      IN  \A k \in 1..Len(parts) :
            LET stored == ids[p][i][k]
            IN  stored # NO_INDEX /\ array[parts[k].pool][stored + 1] = parts[k].key

(* A pool stays sorted and duplicate free once make_unique has been called *)
(* on it: no later step of the closure adds to it.  The binary searches    *)
(* and the dex format both rely on it.                                     *)
PoolsStaySorted ==
  \A p \in unique :
    /\ ToSet(array[p]) = pool[p]
    /\ \A i, j \in 1..Len(array[p]) : i < j => Less(array[p][i], array[p][j])

(* The dex format orders prototypes, fields and methods by the indices of  *)
(* their parts, the writer orders them by the strings of their parts: both *)
(* orders agree because each pool of parts is itself sorted.               *)
SortKey(p, item) ==
  CASE p = "protos" -> Tail(item)
    [] p = "fields" -> <<item[1], item[3], item[2]>>
    [] p = "methods" -> <<item[1], item[3], item[2]>>
    [] OTHER -> item

IdItemsOrdered ==
  pc \in {"classes", "done"} =>
    \A p \in Pools \ {"strs"} : \A i, j \in 1..Len(ids[p]) :
      i < j => Less(SortKey(p, ids[p][i]), SortKey(p, ids[p][j]))

(* Nothing is written that no element needs: when no class has more static *)
(* values than static fields, every constant of the pools is looked up by  *)
(* a class or is a part of another constant.                               *)
NoSpareConstants ==
  pc = "done" /\ (\A i \in 1..Len(dex) : Whole(dex[i])) =>
    \A p \in Pools : \A key \in ToSet(array[p]) :
      \/ \E f \in found : f.constant = [pool |-> p, key |-> key]
      \/ \E q \in Pools : \E other \in ToSet(array[q]) :
           [pool |-> p, key |-> key] \in ToSet(IdItem(q, other))
=============================================================================
