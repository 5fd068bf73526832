-------------------------- MODULE OdexFile_proofs ---------------------------
(***************************************************************************)
(* Odex files, whatever the classes, their hashes, the dependencies and    *)
(* the chunks of the aux data.  First the class lookup: what a walk finds, *)
(* and that writing the file implements ClassIndex step by step.  Then the *)
(* bytes of the file: every reader finds what the writer put there, and    *)
(* damage is noticed before anything is read.                              *)
(***************************************************************************)
EXTENDS OdexFile, Common_proofs, FiniteSetTheorems
-----------------------------------------------------------------------------
(* The table of classes: Findable, for every list of classes, every hash   *)
(* function and every size of the table.                                   *)

(* A masked value is an entry of the table.                                *)
LEMMA ModRange ==
  ASSUME NEW n \in Nat \ {0}, NEW x \in Nat
  PROVE  x % n \in 0..n - 1
  OBVIOUS

(* The masked step goes to the next entry, or round to the first.          *)
LEMMA ModStep ==
  ASSUME NEW n \in Nat \ {0}, NEW p \in 0..n - 1
  PROVE  (p + 1) % n = IF p = n - 1 THEN 0 ELSE p + 1
  OBVIOUS

(* The home of a class is an entry of the table.                           *)
LEMMA HomeSlot ==
  ASSUME TypeOK, NEW c \in 1..class_sz
  PROVE  Home(classes[c]) \in Slots
  <1>1. classes[c] \in Descs
    BY ListAssumption DEF TypeOK, class_sz
  <1>2. Hash[classes[c]] \in Nat
    BY <1>1, HashAssumption
  <1> QED
    BY <1>2, ModRange DEF TypeOK, Home, Slots

(* The words stored for a class are words, and the entry is in use.        *)
LEMMA EntryUsed ==
  ASSUME TypeOK, NEW c \in 0..class_sz - 1
  PROVE  /\ Entry(c) \in [hash : Nat, desc_off : Nat, def_off : Nat]
         /\ Entry(c).def_off # 0
  <1>1. classes[c + 1] \in Descs
    BY ListAssumption DEF TypeOK, class_sz
  <1>2. Hash[classes[c + 1]] \in Nat /\ DescOff[classes[c + 1]] \in Nat
    BY <1>1, HashAssumption, OffsetAssumption
  <1>3. class_off + 32 * c \in Nat /\ class_off + 32 * c # 0
    BY OffsetAssumption DEF TypeOK, class_sz
  <1> QED
    BY <1>2, <1>3 DEF Entry

(* At the start the variables have their types.                            *)
LEMMA InitTypeOK == Init => TypeOK
  <1>1. ASSUME Init PROVE class_sz \in Nat
    BY <1>1, ListAssumption DEF Init, class_sz
  <1> QED
    BY <1>1 DEF Init, TypeOK

(* Every action keeps the types of the variables.                          *)
LEMMA NextTypeOK ==
  ASSUME TypeOK, [Next]_vars
  PROVE  TypeOK'
  <1>1. class_sz \in Nat /\ i \in Nat
    BY ListAssumption DEF TypeOK, class_sz
  <1>2. CASE Double
    BY <1>1, <1>2 DEF Double, TooSmall, TypeOK, class_sz
  <1>3. CASE Alloc
    <2>1. Free \in [hash : Nat, desc_off : Nat, def_off : Nat]
      BY DEF Free
    <2> QED
      BY <1>1, <1>3, <2>1 DEF Alloc, TooSmall, TypeOK, class_sz, Slots
  <1>4. CASE NextClass
    <2>1. i + 1 \in 1..class_sz
      BY <1>1, <1>4 DEF NextClass
    <2>2. Home(classes[i + 1]) \in Slots
      BY <2>1, HomeSlot
    <2>3. pos' \in Slots /\ pos' \in Nat
      BY <1>4, <2>2 DEF NextClass, TypeOK, Slots
    <2>4. Slots' = Slots /\ class_sz' = class_sz
      BY <1>4 DEF NextClass, Slots, class_sz
    <2> QED
      BY <1>1, <1>4, <2>3, <2>4 DEF NextClass, TypeOK
  <1>5. CASE Collide
    <2>1. pos + 1 \in Nat /\ entries \in Nat \ {0}
      BY <1>5 DEF TypeOK
    <2>2. pos' \in Slots
      BY <1>5, <2>1, ModRange DEF Collide, Advance, Slots
    <2>3. pos' \in Nat
      BY <2>1, <2>2 DEF Slots
    <2>4. Slots' = Slots /\ class_sz' = class_sz
      BY <1>5 DEF Collide, Slots, class_sz
    <2> QED
      BY <1>5, <2>2, <2>3, <2>4 DEF Collide, TypeOK
  <1>6. CASE Store
    <2>1. i \in 0..class_sz - 1
      BY <1>1, <1>6 DEF Store, TypeOK
    <2>2. Entry(i) \in [hash : Nat, desc_off : Nat, def_off : Nat]
      BY <2>1, EntryUsed
    <2>3. tab' \in [Slots -> [hash : Nat, desc_off : Nat, def_off : Nat]]
      BY <1>6, <2>2 DEF Store, TypeOK
    <2>4. Slots' = Slots /\ class_sz' = class_sz
      BY <1>6 DEF Store, Slots, class_sz
    <2>5. i' \in 0..class_sz
      BY <1>1, <1>6, <2>1 DEF Store
    <2> QED
      BY <1>6, <2>3, <2>4, <2>5 DEF Store, TypeOK
  <1>7. CASE Finish
    BY <1>7 DEF Finish, TypeOK, class_sz, Slots
  <1>8. CASE UNCHANGED vars
    BY <1>8 DEF vars, TypeOK, class_sz, Slots
  <1> QED
    BY <1>2, <1>3, <1>4, <1>5, <1>6, <1>7, <1>8 DEF Next

(* Steps that change neither the table nor the number of classes in it     *)
(* keep what is said of them.                                              *)
LEMMA SameTable ==
  ASSUME TypeOK, EntriesInv, WalkInv, UNCHANGED <<classes, entries, i, tab>>,
         pc # "size"
  PROVE  EntriesInv' /\ WalkInv'
  <1>1. /\ \A p \in Slots : Used(p)' <=> Used(p)
        /\ \A c : Entry(c)' = Entry(c)
        /\ \A d, q, p : Before(d, q, p)' <=> Before(d, q, p)
        /\ Slots' = Slots
    BY DEF Used, Entry, Before, Dist, Home, Slots
  <1>2. {p \in Slots : Used(p)}' = {p \in Slots : Used(p)}
    BY <1>1
  <1> QED
    BY <1>1, <1>2 DEF EntriesInv, WalkInv

(* The new table is free, and no class is in it.                           *)
LEMMA AllocInv ==
  ASSUME TypeOK, Alloc, i = 0
  PROVE  EntriesInv' /\ WalkInv'
  <1>1. \A p \in Slots' : ~Used(p)'
    BY DEF Alloc, Used, Free, Slots
  <1>2. {p \in Slots : Used(p)}' = {}
    BY <1>1
  <1>3. i' = 0
    BY DEF Alloc
  <1>4. Cardinality({}) = 0
    BY FS_EmptySet
  <1>5. EntriesInv'
    <2>1. Cardinality({p \in Slots : Used(p)}') = i'
      BY <1>2, <1>3, <1>4
    <2> QED
      BY <1>1, <2>1 DEF EntriesInv
  <1> QED
    BY <1>3, <1>5 DEF WalkInv

(* A step of the walk passes one more entry, the one that was in use.      *)
LEMMA DistStep ==
  ASSUME NEW h \in Slots, NEW p \in Slots, NEW q \in Slots, entries \in Nat \ {0},
         NEW r, r = IF p = entries - 1 THEN 0 ELSE p + 1,
         Dist(h, q) < Dist(h, r)
  PROVE  q = p \/ Dist(h, q) < Dist(h, p)
  BY DEF Dist, Slots

(* After a collision the probe is one slot further from the home slot.     *)
LEMMA CollideProbe ==
  ASSUME TypeOK, ProbeInv, Collide
  PROVE  ProbeInv'
  <1> DEFINE h == Home(classes[i + 1])
  <1>1. /\ pos \in Slots /\ entries \in Nat \ {0}
        /\ h \in Slots
    <2>1. i + 1 \in 1..class_sz
      BY ListAssumption DEF Collide, TypeOK, class_sz
    <2> QED
      BY <2>1, HomeSlot DEF Collide, TypeOK
  <1>2. pos' = IF pos = entries - 1 THEN 0 ELSE pos + 1
    BY <1>1, ModStep DEF Collide, Advance, Slots
  <1>3. ASSUME NEW q \in Slots, Dist(h, q) < Dist(h, pos')
        PROVE  Used(q)
    <2>1. q = pos \/ Dist(h, q) < Dist(h, pos)
      BY <1>1, <1>2, <1>3, DistStep
    <2>2. CASE q = pos
      BY <2>2 DEF Collide
    <2>3. CASE Dist(h, q) < Dist(h, pos)
      BY <2>3 DEF ProbeInv, Before, Collide
    <2> QED
      BY <2>1, <2>2, <2>3
  <1>4. Slots' = Slots /\ \A q \in Slots : Used(q)' <=> Used(q)
    BY DEF Collide, Slots, Used
  <1>5. \A q \in Slots : Before(classes[i + 1], q, pos)' <=> Dist(h, q) < Dist(h, pos')
    BY DEF Collide, Before, Dist, Home
  <1> QED
    BY <1>3, <1>4, <1>5 DEF ProbeInv

(* The walk that starts at the home has passed nothing.                    *)
LEMMA NextProbe ==
  ASSUME TypeOK, NextClass
  PROVE  ProbeInv'
  <1> DEFINE h == Home(classes[i + 1])
  <1>1. h \in Slots /\ entries \in Nat \ {0}
    <2>1. i + 1 \in 1..class_sz
      BY ListAssumption DEF NextClass, TypeOK, class_sz
    <2> QED
      BY <2>1, HomeSlot DEF TypeOK
  <1>2. \A q \in Slots : ~(Dist(h, q) < Dist(h, h))
    BY <1>1 DEF Dist, Slots
  <1>3. \A q \in Slots : Before(classes[i + 1], q, pos)' <=> Dist(h, q) < Dist(h, h)
    BY DEF NextClass, Before, Dist, Home
  <1>4. Slots' = Slots
    BY DEF NextClass, Slots
  <1> QED
    BY <1>2, <1>3, <1>4 DEF ProbeInv

(* An insertion adds one entry in use, that of class i.                    *)
LEMMA StoreEntries ==
  ASSUME TypeOK, EntriesInv, Store
  PROVE  /\ EntriesInv'
         /\ \A q \in Slots : Used(q) => tab'[q] = tab[q]
         /\ tab'[pos] = Entry(i)
  <1> DEFINE U == {p \in Slots : Used(p)}
  <1>1. /\ pos \in Slots /\ ~Used(pos)
        /\ entries \in Nat \ {0} /\ class_sz \in Nat
        /\ i \in 0..class_sz - 1
        /\ tab \in [Slots -> [hash : Nat, desc_off : Nat, def_off : Nat]]
    BY ListAssumption DEF Store, TypeOK, class_sz
  <1>2. tab' = [tab EXCEPT ![pos] = Entry(i)] /\ i' = i + 1 /\ Slots' = Slots
    BY DEF Store, Slots
  <1>3. \A q \in Slots : tab'[q] = IF q = pos THEN Entry(i) ELSE tab[q]
    BY <1>1, <1>2
  <1>4. \A c : Entry(c)' = Entry(c)
    BY DEF Store, Entry
  <1>5. Entry(i).def_off # 0
    BY <1>1, EntryUsed
  <1>6. \A q \in Slots : Used(q)' <=> (q = pos \/ Used(q))
    BY <1>1, <1>3, <1>5 DEF Used
  <1>7. U' = U \cup {pos}
    BY <1>1, <1>2, <1>6
  <1>8. IsFiniteSet(U)
    <2>1. IsFiniteSet(0..entries - 1)
      BY <1>1, FS_Interval
    <2> QED
      BY <2>1, FS_Subset DEF Slots
  <1>9. Cardinality(U') = i'
    <2>1. Cardinality(U) = i
      BY DEF EntriesInv, Store
    <2>2. Cardinality(U \cup {pos}) = Cardinality(U) + 1
      BY <1>1, <1>8, FS_AddElement
    <2> QED
      BY <1>2, <1>7, <2>1, <2>2
  <1>10. ASSUME NEW q \in Slots, Used(q)'
         PROVE  \E c \in 0..i' - 1 : tab'[q] = Entry(c)'
    <2>1. CASE q = pos
      BY <1>1, <1>2, <1>3, <1>4, <2>1
    <2>2. CASE q # pos
      <3>1. \E c \in 0..i - 1 : tab[q] = Entry(c)
        BY <1>6, <1>10, <2>2 DEF EntriesInv, Store
      <3> QED
        BY <1>1, <1>2, <1>3, <1>4, <2>2, <3>1
    <2> QED
      BY <2>1, <2>2
  <1> HIDE DEF U
  <1>11. EntriesInv'
    BY <1>2, <1>9, <1>10 DEF EntriesInv, U
  <1> QED
    BY <1>1, <1>3, <1>11

(* The walks of earlier classes are untouched; the walk of class i meets   *)
(* the entries that the insertion has passed.                              *)
LEMMA StoreWalk ==
  ASSUME TypeOK, EntriesInv, WalkInv, ProbeInv, Store
  PROVE  WalkInv'
  <1>1. /\ pos \in Slots /\ ~Used(pos)
        /\ class_sz \in Nat
        /\ i \in 0..class_sz - 1
        /\ i' = i + 1 /\ Slots' = Slots /\ classes' = classes
    <2>1. class_sz \in Nat
      BY ListAssumption DEF TypeOK, class_sz
    <2>2. pos \in Slots /\ i \in 0..class_sz - 1
      BY <2>1 DEF Store, TypeOK
    <2>3. Slots' = Slots
      BY DEF Store, Slots
    <2> QED
      BY <2>1, <2>2, <2>3 DEF Store
  <1>2. \A c : Entry(c)' = Entry(c)
    BY DEF Store, Entry
  <1>3. \A d, q, p : Before(d, q, p)' <=> Before(d, q, p)
    BY DEF Store, Before, Dist, Home
  <1>4. /\ \A q \in Slots : Used(q) => tab'[q] = tab[q]
        /\ tab'[pos] = Entry(i)
    BY StoreEntries
  <1>5. \A b \in 0..i, q \in Slots : tab[q] = Entry(b) => Used(q)
    BY <1>1, EntryUsed DEF Used
  <1>6. ASSUME NEW c \in 0..i - 1
        PROVE  \E p \in Slots :
                 /\ tab'[p] = Entry(c)
                 /\ \A q \in Slots : Before(classes[c + 1], q, p) =>
                      \E b \in 0..c - 1 : tab'[q] = Entry(b)
    <2>1. PICK p \in Slots :
            /\ tab[p] = Entry(c)
            /\ \A q \in Slots : Before(classes[c + 1], q, p) =>
                 \E b \in 0..c - 1 : tab[q] = Entry(b)
      BY DEF WalkInv, Store
    <2>2. tab'[p] = Entry(c)
      BY <1>1, <1>4, <1>5, <2>1
    <2>3. ASSUME NEW q \in Slots, Before(classes[c + 1], q, p)
          PROVE  \E b \in 0..c - 1 : tab'[q] = Entry(b)
      BY <1>1, <1>4, <1>5, <2>1, <2>3
    <2> QED
      BY <2>2, <2>3
  <1>7. \E p \in Slots :
          /\ tab'[p] = Entry(i)
          /\ \A q \in Slots : Before(classes[i + 1], q, p) =>
               \E b \in 0..i - 1 : tab'[q] = Entry(b)
    <2>1. ASSUME NEW q \in Slots, Before(classes[i + 1], q, pos)
          PROVE  \E b \in 0..i - 1 : tab'[q] = Entry(b)
      <3>1. Used(q)
        BY <2>1 DEF ProbeInv, Store
      <3> QED
        BY <1>4, <3>1 DEF EntriesInv, Store
    <2> QED
      BY <1>1, <1>4, <2>1
  <1>8. ASSUME NEW c \in 0..i' - 1
        PROVE  \E p \in Slots :
                 /\ tab'[p] = Entry(c)
                 /\ \A q \in Slots : Before(classes[c + 1], q, p) =>
                      \E b \in 0..c - 1 : tab'[q] = Entry(b)
    <2>1. c = i \/ c \in 0..i - 1
      BY <1>1
    <2> QED
      BY <1>6, <1>7, <2>1
  <1> QED
    BY <1>1, <1>2, <1>3, <1>8 DEF WalkInv

(* The invariant holds at the start.                                       *)
LEMMA InitIndInv == Init => IndInv
  BY InitTypeOK DEF Init, IndInv, EntriesInv, WalkInv, ProbeInv

(* Nothing is inserted before the table is allocated.                      *)
ZeroInv == pc = "size" => i = 0

(* Every step keeps the invariant.                                         *)
LEMMA NextIndInv ==
  ASSUME IndInv, ZeroInv, [Next]_vars
  PROVE  IndInv' /\ ZeroInv'
  <1>1. TypeOK'
    BY NextTypeOK DEF IndInv
  <1>2. CASE Double
    BY <1>1, <1>2 DEF Double, IndInv, EntriesInv, WalkInv, ProbeInv, ZeroInv
  <1>3. CASE Alloc
    <2>1. EntriesInv' /\ WalkInv'
      BY <1>3, AllocInv DEF IndInv, ZeroInv, Alloc
    <2> QED
      BY <1>1, <1>3, <2>1 DEF Alloc, IndInv, ProbeInv, ZeroInv
  <1>4. CASE NextClass
    <2>1. EntriesInv' /\ WalkInv'
      BY <1>4, SameTable DEF IndInv, NextClass
    <2>2. ProbeInv'
      BY <1>4, NextProbe DEF IndInv
    <2> QED
      BY <1>1, <1>4, <2>1, <2>2 DEF IndInv, NextClass, ZeroInv
  <1>5. CASE Collide
    <2>1. EntriesInv' /\ WalkInv'
      BY <1>5, SameTable DEF IndInv, Collide
    <2>2. ProbeInv'
      BY <1>5, CollideProbe DEF IndInv
    <2> QED
      BY <1>1, <1>5, <2>1, <2>2 DEF IndInv, Collide, ZeroInv
  <1>6. CASE Store
    <2>1. EntriesInv' /\ WalkInv'
      BY <1>6, StoreEntries, StoreWalk DEF IndInv
    <2> QED
      BY <1>1, <1>6, <2>1 DEF IndInv, Store, ProbeInv, ZeroInv
  <1>7. CASE Finish
    <2>1. EntriesInv' /\ WalkInv'
      BY <1>7, SameTable DEF IndInv, Finish
    <2> QED
      BY <1>1, <1>7, <2>1 DEF IndInv, Finish, ProbeInv, ZeroInv
  <1>8. CASE UNCHANGED vars
    <2>1. CASE pc = "size"
      BY <1>1, <1>8, <2>1 DEF vars, IndInv, EntriesInv, WalkInv, ProbeInv, ZeroInv
    <2>2. CASE pc # "size"
      <3>1. EntriesInv' /\ WalkInv'
        BY <1>8, <2>2, SameTable DEF IndInv, vars
      <3>2. ProbeInv'
        BY <1>8 DEF vars, IndInv, ProbeInv, Before, Dist, Home, Used, Slots
      <3> QED
        BY <1>1, <1>8, <2>2, <3>1, <3>2 DEF IndInv, ZeroInv, vars
    <2> QED
      BY <2>1, <2>2
  <1> QED
    BY <1>2, <1>3, <1>4, <1>5, <1>6, <1>7, <1>8 DEF Next

(* A table with fewer classes than entries has a free entry.               *)
LEMMA FreeSlot ==
  ASSUME TypeOK, EntriesInv, pc # "size"
  PROVE  \E p \in Slots : ~Used(p)
  <1> SUFFICES ASSUME \A p \in Slots : Used(p) PROVE FALSE
    OBVIOUS
  <1>1. {p \in Slots : Used(p)} = 0..entries - 1
    BY DEF Slots
  <1>2. class_sz \in Nat /\ i \in 0..class_sz /\ 2 * class_sz <= entries
        /\ entries \in Nat \ {0}
    BY ListAssumption DEF TypeOK, class_sz
  <1>3. Cardinality(0..entries - 1) = entries
    BY <1>2, FS_Interval
  <1>4. Cardinality({p \in Slots : Used(p)}) = i
    BY DEF EntriesInv
  <1>5. i = entries
    BY <1>1, <1>3, <1>4
  <1> QED
    BY <1>2, <1>5

(* The invariant implies that lookups find what was inserted and end.      *)
LEMMA IndInvFindable == IndInv => Findable
  <1> SUFFICES ASSUME IndInv, pc # "size"
               PROVE  /\ \A c \in 0..i - 1 : \E p \in Slots :
                           /\ tab[p] = Entry(c)
                           /\ \A q \in Slots : Before(classes[c + 1], q, p) =>
                                Used(q) /\ tab[q].desc_off # DescOff[classes[c + 1]]
                      /\ \E p \in Slots : ~Used(p)
    BY DEF Findable
  <1>1. \E p \in Slots : ~Used(p)
    BY FreeSlot DEF IndInv
  <1>2. class_sz \in Nat /\ i \in 0..class_sz
    BY ListAssumption DEF IndInv, TypeOK, class_sz
  <1>3. ASSUME NEW c \in 0..i - 1
        PROVE  \E p \in Slots :
                 /\ tab[p] = Entry(c)
                 /\ \A q \in Slots : Before(classes[c + 1], q, p) =>
                      Used(q) /\ tab[q].desc_off # DescOff[classes[c + 1]]
    <2>1. PICK p \in Slots :
            /\ tab[p] = Entry(c)
            /\ \A q \in Slots : Before(classes[c + 1], q, p) =>
                 \E b \in 0..c - 1 : tab[q] = Entry(b)
      BY DEF IndInv, WalkInv
    <2>2. ASSUME NEW q \in Slots, Before(classes[c + 1], q, p)
          PROVE  Used(q) /\ tab[q].desc_off # DescOff[classes[c + 1]]
      <3>1. PICK b \in 0..c - 1 : tab[q] = Entry(b)
        BY <2>1, <2>2
      <3>2. Used(q)
        BY <1>2, <3>1, EntryUsed DEF Used, IndInv
      <3>3. /\ classes[b + 1] \in Descs /\ classes[c + 1] \in Descs
            /\ classes[b + 1] # classes[c + 1]
        BY <1>2, ListAssumption DEF IndInv, TypeOK, class_sz
      <3>4. tab[q].desc_off = DescOff[classes[b + 1]]
        BY <3>1 DEF Entry
      <3> QED
        BY <3>2, <3>3, <3>4, OffsetAssumption
    <2> QED
      BY <2>1, <2>2
  <1> QED
    BY <1>1, <1>3

(* The inductive invariant holds in every reachable state.                 *)
THEOREM TableInvariant == Spec => [](IndInv /\ ZeroInv)
  <1>1. Init => IndInv /\ ZeroInv
    BY InitIndInv DEF Init, ZeroInv
  <1>2. IndInv /\ ZeroInv /\ [Next]_vars => (IndInv /\ ZeroInv)'
    BY NextIndInv
  <1> QED
    BY <1>1, <1>2, PTL DEF Spec

(* Types of the table: opt_write.h never stores outside of the table.      *)
THEOREM TableTypes == Spec => []TypeOK
  <1>1. IndInv /\ ZeroInv => TypeOK
    BY DEF IndInv
  <1> QED
    BY <1>1, TableInvariant, PTL

(* A lookup that stops at the first free entry finds every class that      *)
(* write_aux inserted, and the lookup of any other descriptor ends.        *)
THEOREM LookupFinds == Spec => []Findable
  <1>1. IndInv /\ ZeroInv => Findable
    BY IndInvFindable
  <1> QED
    BY <1>1, TableInvariant, PTL
-----------------------------------------------------------------------------
(* The walks of a lookup, and the index of classes that the table is.      *)

(* The entry that the walk for d meets after k steps, the numbers of steps *)
(* after which a walk may stop, and the first of them.                     *)
At(d, k) == (Home(d) + k) % entries
Stops(d) == {k \in Slots : ~Used(At(d, k)) \/ tab[At(d, k)].desc_off = DescOff[d]}
First(d) == CHOOSE k \in Stops(d) : \A j \in Stops(d) : k <= j

(* A walk of fewer steps than the table has entries goes round once.       *)
LEMMA ModSum ==
  ASSUME NEW n \in Nat \ {0}, NEW h \in 0..n - 1, NEW k \in 0..n - 1
  PROVE  (h + k) % n = IF h + k < n THEN h + k ELSE h + k - n
  <1>1. CASE h + k < n
    BY <1>1
  <1>2. CASE h + k >= n
    <2>1. h + k - n \in 0..n - 1 /\ h + k = n * 1 + (h + k - n)
      BY <1>2
    <2> QED
      BY <1>2, <2>1
  <1> QED
    BY <1>1, <1>2

(* Found in terms of the first stop.                                       *)
LEMMA FoundFirst ==
  ASSUME NEW d \in Descs
  PROVE  Found(d) = IF pc = "size" \/ Stops(d) = {} THEN 0
                    ELSE IF Used(At(d, First(d)))
                      THEN ((tab[At(d, First(d))].def_off - class_off) \div 32) + 1
                      ELSE 0
  BY DEF Found, First, Stops, At

(* The home of a descriptor is an entry of the table.                      *)
LEMMA HomeOfDesc ==
  ASSUME NEW d \in Descs, entries \in Nat \ {0}
  PROVE  Home(d) \in Slots
  BY HashAssumption, ModRange DEF Home, Slots

(* Every entry is met by the walk, after Dist steps.                       *)
LEMMA AtDist ==
  ASSUME NEW d \in Descs, entries \in Nat \ {0}, NEW p \in Slots
  PROVE  /\ Dist(Home(d), p) \in Slots
         /\ At(d, Dist(Home(d), p)) = p
  <1>1. Home(d) \in Slots
    BY HomeOfDesc
  <1>2. Dist(Home(d), p) \in Slots
    BY <1>1 DEF Dist, Slots
  <1>3. At(d, Dist(Home(d), p)) =
          IF Home(d) + Dist(Home(d), p) < entries THEN Home(d) + Dist(Home(d), p)
          ELSE Home(d) + Dist(Home(d), p) - entries
    BY <1>1, <1>2, ModSum DEF At, Slots
  <1> QED
    BY <1>1, <1>2, <1>3 DEF Dist, Slots

(* After k steps the walk is at an entry k steps away.                     *)
LEMMA DistAt ==
  ASSUME NEW d \in Descs, entries \in Nat \ {0}, NEW k \in Slots
  PROVE  /\ At(d, k) \in Slots
         /\ Dist(Home(d), At(d, k)) = k
  <1>1. Home(d) \in Slots
    BY HomeOfDesc
  <1>2. At(d, k) = IF Home(d) + k < entries THEN Home(d) + k ELSE Home(d) + k - entries
    BY <1>1, ModSum DEF At, Slots
  <1> QED
    BY <1>1, <1>2 DEF Dist, Slots

(* Some entry is free, so every walk stops, first at First.                *)
LEMMA WalkStops ==
  ASSUME IndInv, pc # "size", NEW d \in Descs
  PROVE  First(d) \in Stops(d) /\ \A j \in Stops(d) : First(d) <= j
  <1>1. entries \in Nat \ {0}
    BY DEF IndInv, TypeOK
  <1>2. PICK p \in Slots : ~Used(p)
    BY FreeSlot DEF IndInv
  <1>3. Dist(Home(d), p) \in Stops(d)
    BY <1>1, <1>2, AtDist DEF Stops
  <1>4. Stops(d) \in SUBSET Nat
    BY <1>1 DEF Stops, Slots
  <1>5. \E k \in Stops(d) : \A j \in Stops(d) : k <= j
    BY <1>3, <1>4, LeastElement
  <1> QED
    BY <1>5 DEF First

(* A descriptor in the table is found at its class.                        *)
LEMMA FoundInserted ==
  ASSUME IndInv, pc # "size", NEW c \in 0..i - 1
  PROVE  Found(classes[c + 1]) = c + 1
  <1> DEFINE d == classes[c + 1]
  <1>1. /\ entries \in Nat \ {0} /\ c \in 0..class_sz - 1
        /\ class_sz \in Nat
    BY ListAssumption DEF IndInv, TypeOK, class_sz
  <1>2. d \in Descs
    BY <1>1, ListAssumption DEF IndInv, TypeOK, class_sz
  <1>3. PICK p \in Slots :
          /\ tab[p] = Entry(c)
          /\ \A q \in Slots : Before(d, q, p) =>
               Used(q) /\ tab[q].desc_off # DescOff[d]
    BY IndInvFindable DEF Findable
  <1> DEFINE n == Dist(Home(d), p)
  <1>4. n \in Stops(d) /\ n \in Slots /\ At(d, n) = p
    <2>1. n \in Slots /\ At(d, n) = p
      BY <1>1, <1>2, AtDist
    <2>2. tab[p].desc_off = DescOff[d]
      BY <1>3 DEF Entry
    <2> QED
      BY <2>1, <2>2 DEF Stops
  <1>5. ASSUME NEW j \in Stops(d)
        PROVE  ~(j < n)
    <2>1. SUFFICES ASSUME j < n PROVE FALSE
      OBVIOUS
    <2>2. j \in Slots /\ (~Used(At(d, j)) \/ tab[At(d, j)].desc_off = DescOff[d])
      BY DEF Stops
    <2>3. At(d, j) \in Slots /\ Dist(Home(d), At(d, j)) = j
      BY <1>1, <1>2, <2>2, DistAt
    <2>4. Before(d, At(d, j), p)
      BY <2>1, <2>3 DEF Before
    <2> QED
      BY <1>3, <2>2, <2>3, <2>4
  <1>6. First(d) = n
    <2>1. First(d) \in Stops(d) /\ First(d) <= n
      BY <1>2, <1>4, WalkStops
    <2>2. First(d) \in Int /\ n \in Int
      BY <1>1, <1>4, <2>1 DEF Stops, Slots
    <2> QED
      BY <1>5, <2>1, <2>2
  <1>7. tab[p].def_off = class_off + 32 * c
    BY <1>3 DEF Entry
  <1>8. Used(p)
    BY <1>1, <1>3, EntryUsed DEF Used, IndInv
  <1>9. Found(d) = ((tab[p].def_off - class_off) \div 32) + 1
    <2> HIDE DEF n, d
    <2> QED
      BY <1>2, <1>4, <1>6, <1>8, FoundFirst
  <1>10. (class_off + 32 * c) - class_off = 32 * c /\ (32 * c) \div 32 = c
    BY <1>1, OffsetAssumption
  <1> QED
    BY <1>7, <1>9, <1>10

(* A descriptor that is not in the table is not found.                     *)
LEMMA FoundAbsent ==
  ASSUME IndInv, pc # "size", NEW d \in Descs, \A c \in 0..i - 1 : classes[c + 1] # d
  PROVE  Found(d) = 0
  <1>1. entries \in Nat \ {0} /\ class_sz \in Nat /\ i \in 0..class_sz
    BY ListAssumption DEF IndInv, TypeOK, class_sz
  <1>2. First(d) \in Stops(d)
    BY WalkStops
  <1> DEFINE q == At(d, First(d))
  <1>3. First(d) \in Slots /\ (~Used(q) \/ tab[q].desc_off = DescOff[d])
    BY <1>2 DEF Stops
  <1>4. q \in Slots
    BY <1>1, <1>3, DistAt
  <1>5. ~Used(q)
    <2>1. SUFFICES ASSUME Used(q) PROVE FALSE
      OBVIOUS
    <2>2. PICK c \in 0..i - 1 : tab[q] = Entry(c)
      BY <1>4, <2>1 DEF IndInv, EntriesInv
    <2>3. DescOff[classes[c + 1]] = DescOff[d]
      BY <1>3, <2>1, <2>2 DEF Entry
    <2>4. classes[c + 1] \in Descs
      BY <1>1, ListAssumption DEF IndInv, TypeOK, class_sz
    <2> QED
      BY <2>3, <2>4, OffsetAssumption
  <1> QED
    BY <1>2, <1>5, FoundFirst

-----------------------------------------------------------------------------
(* The table of a file that another program wrote: nothing was inserted.   *)
NoTable ==
  /\ classes = << >> /\ pc = "done" /\ entries = 1 /\ i = 0
  /\ tab = [p \in 0..0 |-> Free]

(* A file that is written has a table that grows, or none that grows.      *)
TableInv == (IndInv /\ ZeroInv) \/ NoTable

(* A lookup finds the classes inserted so far, at their numbers.           *)
FoundInv ==
  \A d \in Descs :
    /\ \A c \in 0..i - 1 : classes[c + 1] = d => Found(d) = c + 1
    /\ (\A c \in 0..i - 1 : classes[c + 1] # d) => Found(d) = 0

(* Without a table no walk starts anywhere but at the one free entry.      *)
LEMMA NoTableFound ==
  ASSUME NoTable, NEW d \in Descs
  PROVE  Found(d) = 0
  <1>1. Slots = {0} /\ Hash[d] \in Nat
    BY HashAssumption DEF NoTable, Slots
  <1>2. At(d, 0) = 0
    BY <1>1 DEF NoTable, At, Home
  <1>3. ~Used(0)
    BY DEF NoTable, Used, Free
  <1>4. Stops(d) = {0}
    BY <1>1, <1>2, <1>3 DEF Stops
  <1>5. First(d) = 0
    BY <1>4 DEF First
  <1> QED
    BY <1>2, <1>3, <1>4, <1>5, FoundFirst

(* The invariant of the table says what every lookup finds.                *)
LEMMA TableFound ==
  ASSUME TableInv
  PROVE  FoundInv
  <1>1. CASE NoTable
    <2>1. i = 0
      BY <1>1 DEF NoTable
    <2> QED
      BY <1>1, <2>1, NoTableFound DEF FoundInv
  <1>2. CASE IndInv /\ ZeroInv /\ pc = "size"
    <2>1. i = 0
      BY <1>2 DEF ZeroInv
    <2>2. \A d \in Descs : Found(d) = 0
      BY <1>2, FoundFirst
    <2> QED
      BY <2>1, <2>2 DEF FoundInv
  <1>3. CASE IndInv /\ pc # "size"
    BY <1>3, FoundInserted, FoundAbsent DEF FoundInv
  <1> QED
    BY <1>1, <1>2, <1>3 DEF TableInv

(* And that a walk finds what was inserted and ends.                       *)
LEMMA TableFindable ==
  ASSUME TableInv
  PROVE  Findable
  <1>1. CASE NoTable
    BY <1>1 DEF NoTable, Findable, Slots, Used, Free
  <1> QED
    BY <1>1, IndInvFindable DEF TableInv

(* The states before the file is written or read.                          *)
LEMMA InitTable == InitOdex => TableInv
  <1>1. ASSUME Init PROVE TableInv
    BY <1>1, InitIndInv DEF TableInv, ZeroInv, Init
  <1> QED
    BY <1>1 DEF InitOdex, TableInv, NoTable

(* Only the loops of write_aux change the table.                           *)
LEMMA NextTable ==
  ASSUME [NextOdex]_allVars
  PROVE  BuildTable \/ UNCHANGED <<vars, meta>>
  <1>1. CASE Cut \/ Corrupt
    BY <1>1, Zenon DEF Cut, Corrupt, CorruptTail, CorruptDex, CorruptHeader
  <1>2. CASE ReadOdex
    BY <1>2, Zenon DEF ReadOdex, OpenOdex, OpenDeps, ReadDep, DepsRead, OpenAux, ReadChunk,
                       AuxRead, CheckDex
  <1>3. CASE WriteOdex \/ Over \/ UNCHANGED allVars
    BY <1>3, Zenon DEF WriteOdex, Over, allVars, odexVars
  <1> QED
    BY <1>1, <1>2, <1>3 DEF NextOdex

(* Without a table there is nothing to build.                              *)
LEMMA NoTableStays ==
  ASSUME NoTable, Next
  PROVE  FALSE
  BY DEF NoTable, Next, Double, Alloc, NextClass, Collide, Store, Finish

(* A step keeps the table that a table, and none none.                     *)
LEMMA TableStep ==
  ASSUME TableInv, [NextOdex]_allVars
  PROVE  TableInv'
  <1>1. BuildTable \/ UNCHANGED <<vars, meta>>
    BY NextTable
  <1>2. CASE NoTable
    <2>1. UNCHANGED vars
      BY <1>1, <1>2, NoTableStays DEF BuildTable
    <2> QED
      BY <1>2, <2>1 DEF TableInv, NoTable, vars
  <1>3. CASE IndInv /\ ZeroInv
    <2>1. [Next]_vars
      BY <1>1 DEF BuildTable
    <2> QED
      BY <1>3, <2>1, NextIndInv DEF TableInv
  <1> QED
    BY <1>2, <1>3 DEF TableInv

(* The table is sound in every state of the program.                       *)
THEOREM OdexTable == SpecOdex => []TableInv
  BY InitTable, TableStep, PTL DEF SpecOdex

(* A lookup in the table of an odex file finds every class inserted so far *)
(* and ends for any other descriptor, while the file is written, damaged   *)
(* and read (write_aux).                                                   *)
THEOREM OdexLookupFinds == SpecOdex => []Findable
  BY OdexTable, TableFindable, PTL
-----------------------------------------------------------------------------
(* At the start nothing is known.                                          *)
LEMMA IndexInit ==
  ASSUME InitOdex
  PROVE  Lookups!Init
  <1>1. classes \in Seq(Descs) /\ << >> \in Seq(Descs)
    <2>1. << >> \in Seq(Descs)
      OBVIOUS
    <2>2. classes \in ClassLists \/ classes = << >>
      BY DEF InitOdex, Init
    <2> QED
      BY <2>1, <2>2, ListAssumption
  <1>2. i = 0 /\ FoundInv
    BY InitTable, TableFound DEF InitOdex, Init
  <1>3. \A d \in Descs : Found(d) = 0
    BY <1>2 DEF FoundInv
  <1> QED
    BY <1>1, <1>3 DEF Lookups!Init

(* A step that inserts nothing changes no lookup.                          *)
LEMMA FoundSame ==
  ASSUME FoundInv, FoundInv', UNCHANGED <<classes, i>>
  PROVE  [d \in Descs |-> Found(d)]' = [d \in Descs |-> Found(d)]
  <1>1. ASSUME NEW d \in Descs
        PROVE  Found(d)' = Found(d)
    BY DEF FoundInv
  <1> QED
    BY <1>1

(* An insertion makes one more class known, under its own number: Store is *)
(* Add.                                                                    *)
LEMMA StoreAdds ==
  ASSUME TableInv, FoundInv, FoundInv', Store, meta.has_class_lookup, UNCHANGED meta
  PROVE  Lookups!Add
  <1>1. IndInv /\ class_sz \in Nat /\ i \in 0..class_sz - 1 /\ i' = i + 1
        /\ classes' = classes
    <2>1. IndInv
      BY DEF TableInv, NoTable, Store
    <2>2. class_sz \in Nat
      BY <2>1, ListAssumption DEF IndInv, TypeOK, class_sz
    <2>3. i \in 0..class_sz - 1
      BY <2>1, <2>2 DEF IndInv, TypeOK, Store
    <2> QED
      BY <2>1, <2>2, <2>3 DEF Store
  <1> DEFINE c == i + 1
  <1>2. \A b \in 1..class_sz : classes[b] \in Descs
    BY <1>1, ListAssumption DEF IndInv, TypeOK, class_sz
  <1>3. \A b, e \in 1..class_sz : classes[b] = classes[e] => b = e
    BY <1>1, ListAssumption DEF IndInv, TypeOK, class_sz
  <1>4. \A b \in 1..c - 1 : Found(classes[b]) = b
    <2>1. ASSUME NEW b \in 1..c - 1 PROVE Found(classes[b]) = b
      <3>1. b - 1 \in 0..i - 1 /\ (b - 1) + 1 = b /\ b \in 1..class_sz
        BY <1>1
      <3> QED
        BY <1>2, <3>1 DEF FoundInv
    <2> QED
      BY <2>1
  <1>5. c \in 1..class_sz /\ Found(classes[c]) = 0
    <2>1. c \in 1..class_sz
      BY <1>1
    <2>2. ASSUME NEW b \in 0..i - 1 PROVE classes[b + 1] # classes[c]
      <3>1. b + 1 \in 1..class_sz /\ b + 1 # c
        BY <1>1
      <3> QED
        BY <1>3, <2>1, <3>1
    <2> QED
      BY <1>2, <2>1, <2>2 DEF FoundInv
  <1>6. ASSUME NEW d \in Descs
        PROVE  Found(d)' = IF d = classes[c] THEN c ELSE Found(d)
    <2>1. 0..i' - 1 = (0..i - 1) \cup {i}
      BY <1>1
    <2>2. CASE d = classes[c]
      <3>1. i \in 0..i' - 1
        BY <2>1
      <3> QED
        BY <1>1, <2>2, <3>1 DEF FoundInv
    <2>3. CASE d # classes[c] /\ \E b \in 0..i - 1 : classes[b + 1] = d
      BY <1>1, <2>1, <2>3 DEF FoundInv
    <2>4. CASE d # classes[c] /\ \A b \in 0..i - 1 : classes[b + 1] # d
      BY <1>1, <2>1, <2>4 DEF FoundInv
    <2> QED
      BY <2>2, <2>3, <2>4
  <1>7. [d \in Descs |-> Found(d)]' = [[d \in Descs |-> Found(d)] EXCEPT ![classes[c]] = c]
    BY <1>6
  <1>8. Found(classes[c]) # c
    BY <1>1, <1>5
  <1>9. \A b \in 1..c : classes[b] \in Descs
    BY <1>1, <1>2
  <1> QED
    BY <1>1, <1>4, <1>5, <1>7, <1>8, <1>9 DEF Lookups!Add, Lookups!Known, class_sz

(* The table is still the initial one where no class lookup is wanted.     *)
LEMMA IndexStep ==
  ASSUME TableInv, FoundInv, FoundInv', [NextOdex]_allVars
  PROVE  [Lookups!Add]_(Lookups!vars)
  <1>1. BuildTable \/ UNCHANGED <<vars, meta>>
    BY NextTable
  <1>2. UNCHANGED meta
    BY <1>1 DEF BuildTable, odexVars
  <1>3. CASE BuildTable /\ Store
    BY <1>2, <1>3, StoreAdds DEF BuildTable
  <1>4. CASE UNCHANGED <<classes, i>>
    <2>1. [d \in Descs |-> Found(d)]' = [d \in Descs |-> Found(d)]
      BY <1>4, FoundSame
    <2> QED
      BY <1>2, <1>4, <2>1 DEF Lookups!vars
  <1>5. (BuildTable /\ Store) \/ UNCHANGED <<classes, i>>
    BY <1>1 DEF BuildTable, Next, Double, Alloc, NextClass, Collide, Finish, vars
  <1> QED
    BY <1>3, <1>4, <1>5

(* Writing an odex file implements the steps of ClassIndex: an insertion   *)
(* makes the next class of the file known and changes no other lookup, all *)
(* other steps change none (write_aux).  That every class becomes known is *)
(* a liveness property, LookupSpec, which TLC checks.                      *)
THEOREM OdexIndexes == SpecOdex => Lookups!Init /\ [][Lookups!Add]_(Lookups!vars)
  <1>1. InitOdex => Lookups!Init
    BY IndexInit
  <1>2. TableInv => FoundInv
    BY TableFound
  <1>3. TableInv /\ FoundInv /\ FoundInv' /\ [NextOdex]_allVars
          => [Lookups!Add]_(Lookups!vars)
    BY IndexStep
  <1> QED
    BY <1>1, <1>2, <1>3, OdexTable, PTL DEF SpecOdex
-----------------------------------------------------------------------------
(* A function on 1..n is a list of n elements.                             *)
LEMMA FunctionIsSeq ==
  ASSUME NEW S, NEW n \in Nat, NEW f \in [1..n -> S]
  PROVE  f \in Seq(S) /\ Len(f) = n
  OBVIOUS

(* A concatenation holds its parts.                                        *)
LEMMA TwoParts ==
  ASSUME NEW S, NEW a \in Seq(S), NEW b \in Seq(S)
  PROVE  /\ a \o b \in Seq(S) /\ Len(a \o b) = Len(a) + Len(b)
         /\ Len(a) \in Nat /\ Len(b) \in Nat
         /\ Segment(a \o b, 0, a) /\ Segment(a \o b, Len(a), b)
  <1>1. a \o b \in Seq(S) /\ Len(a \o b) = Len(a) + Len(b) /\ Len(a) \in Nat /\ Len(b) \in Nat
    OBVIOUS
  <1>2. Segment(a \o b, 0, a)
    BY SegmentSelf, SegmentLeft
  <1>3. Segment(a \o b, Len(a) + 0, b)
    BY SegmentSelf, SegmentRight
  <1> QED
    BY <1>1, <1>2, <1>3

(* The parts of a concatenation of four are its segments: the header of a  *)
(* section and what follows it.                                            *)
LEMMA FourParts ==
  ASSUME NEW S, NEW a \in Seq(S), NEW b \in Seq(S), NEW c \in Seq(S), NEW d \in Seq(S)
  PROVE  /\ Len(a) \in Nat /\ Len(b) \in Nat /\ Len(c) \in Nat /\ Len(d) \in Nat
         /\ a \o b \o c \o d \in Seq(S)
         /\ Len(a \o b \o c \o d) = Len(a) + Len(b) + Len(c) + Len(d)
         /\ Segment(a \o b \o c \o d, 0, a)
         /\ Segment(a \o b \o c \o d, Len(a), b)
         /\ Segment(a \o b \o c \o d, Len(a) + Len(b), c)
         /\ Segment(a \o b \o c \o d, Len(a) + Len(b) + Len(c), d)
  <1>1. /\ a \o b \in Seq(S) /\ Len(a \o b) = Len(a) + Len(b)
        /\ Len(a) \in Nat /\ Len(b) \in Nat
        /\ Segment(a \o b, 0, a) /\ Segment(a \o b, Len(a), b)
    BY TwoParts
  <1> DEFINE s == a \o b
  <1> HIDE DEF s
  <1>2. s \in Seq(S) /\ Len(s) = Len(a) + Len(b)
    BY <1>1 DEF s
  <1>3. /\ s \o c \in Seq(S) /\ Len(s \o c) = Len(a) + Len(b) + Len(c) /\ Len(c) \in Nat
        /\ Segment(s \o c, 0, s) /\ Segment(s \o c, Len(a) + Len(b), c)
    <2>1. /\ s \o c \in Seq(S) /\ Len(s \o c) = Len(s) + Len(c) /\ Len(c) \in Nat
          /\ Segment(s \o c, 0, s) /\ Segment(s \o c, Len(s), c)
      BY <1>2, TwoParts
    <2> QED
      BY <1>2, <2>1
  <1>4. Segment(s \o c, 0, a) /\ Segment(s \o c, Len(a), b)
    BY <1>1, <1>2, SegmentLeft DEF s
  <1> DEFINE t == s \o c
  <1> HIDE DEF t
  <1>5. /\ t \o d \in Seq(S) /\ Len(t \o d) = Len(a) + Len(b) + Len(c) + Len(d) /\ Len(d) \in Nat
        /\ Segment(t \o d, Len(a) + Len(b) + Len(c), d)
    <2>1. t \in Seq(S) /\ Len(t) = Len(a) + Len(b) + Len(c)
      BY <1>3 DEF t
    <2> QED
      BY <2>1, TwoParts
  <1>6. Segment(t \o d, 0, a) /\ Segment(t \o d, Len(a), b) /\ Segment(t \o d, Len(a) + Len(b), c)
    <2>1. t \in Seq(S) /\ Len(a) + Len(b) \in Nat
      BY <1>1, <1>3 DEF t
    <2>2. Segment(t, 0, a) /\ Segment(t, Len(a), b) /\ Segment(t, Len(a) + Len(b), c)
      BY <1>3, <1>4 DEF t
    <2> QED
      BY <1>1, <2>1, <2>2, SegmentLeft
  <1>7. a \o b \o c \o d = t \o d
    BY DEF t, s
  <1> QED
    BY <1>1, <1>3, <1>5, <1>6, <1>7

(* A number is read as it was written.                                     *)
LEMMA UintBytes ==
  ASSUME NEW v \in Nat
  PROVE  /\ Uint(v) \in Seq(Nat) /\ Len(Uint(v)) = 4
         /\ UintIn(Uint(v), 1) = v
  <1> DEFINE a == v % 256
             q == v \div 256
             b == q % 256
             r == v \div 65536
             c == r % 256
             d == v \div 16777216
  <1>1. /\ q \in Nat /\ r \in Nat /\ d \in Nat /\ a \in Nat /\ b \in Nat /\ c \in Nat
    OBVIOUS
  <1>2. v = 256 * q + a
    OBVIOUS
  <1>3. q = 256 * r + b
    <2>1. q \div 256 = r
      OBVIOUS
    <2> QED
      BY <1>1, <2>1
  <1>4. r = 256 * d + c
    <2>1. r \div 256 = d
      OBVIOUS
    <2> QED
      BY <1>1, <2>1
  <1>5. Uint(v) = <<a, b, c, d>>
    BY DEF Uint
  <1>6. UintIn(<<a, b, c, d>>, 1) = a + 256 * b + 65536 * c + 16777216 * d
    BY DEF UintIn
  <1> HIDE DEF a, b, c, d, q, r
  <1>7. v = a + 256 * b + 65536 * c + 16777216 * d
    BY <1>1, <1>2, <1>3, <1>4
  <1> QED
    BY <1>1, <1>5, <1>6, <1>7

(* And wherever its bytes are.                                             *)
LEMMA UintSegment ==
  ASSUME NEW s, NEW off \in Nat, NEW v \in Nat, Segment(s, off, Uint(v))
  PROVE  UintIn(s, off + 1) = v
  <1>1. Len(Uint(v)) = 4
    BY UintBytes
  <1>2. s[off + 1] = Uint(v)[1] /\ s[off + 2] = Uint(v)[2]
        /\ s[off + 3] = Uint(v)[3] /\ s[off + 4] = Uint(v)[4]
    BY <1>1 DEF Segment
  <1>3. UintIn(s, off + 1) = UintIn(Uint(v), 1)
    <2>1. (off + 1) + 1 = off + 2 /\ (off + 1) + 2 = off + 3 /\ (off + 1) + 3 = off + 4
      OBVIOUS
    <2> QED
      BY <1>2, <2>1 DEF UintIn
  <1> QED
    BY <1>3, UintBytes

(* The padding goes up to the next multiple of 8.                          *)
LEMMA PadFacts ==
  ASSUME NEW n \in Nat
  PROVE  /\ PadTo8(n) \in 0..7 /\ (n + PadTo8(n)) % 8 = 0
         /\ Zeros(PadTo8(n)) \in Seq(Nat) /\ Len(Zeros(PadTo8(n))) = PadTo8(n)
  <1>1. PadTo8(n) \in 0..7 /\ (n + PadTo8(n)) % 8 = 0
    BY DEF PadTo8
  <1>2. \A p \in Nat : Zeros(p) \in [1..p -> Nat]
    BY DEF Zeros
  <1>3. PadTo8(n) \in Nat
    <2>1. PadTo8(n) \in 0..7
      BY <1>1
    <2> QED
      BY <2>1
  <1>4. Zeros(PadTo8(n)) \in Seq(Nat) /\ Len(Zeros(PadTo8(n))) = PadTo8(n)
    BY <1>2, <1>3, FunctionIsSeq
  <1> QED
    BY <1>1, <1>4

(* A chunk takes as many bytes as the reader steps over.                   *)
LEMMA ChunkBytes ==
  ASSUME NEW code \in Nat, NEW data \in Seq(Nat)
  PROVE  /\ Chunk(code, data) \in Seq(Nat)
         /\ Len(Chunk(code, data)) = ChunkStep(Len(data))
         /\ Segment(Chunk(code, data), 0, Uint(code))
         /\ Segment(Chunk(code, data), 4, Uint(Len(data)))
  <1>1. Len(data) \in Nat
    OBVIOUS
  <1>2. /\ Uint(code) \in Seq(Nat) /\ Uint(Len(data)) \in Seq(Nat)
        /\ Len(Uint(code)) = 4 /\ Len(Uint(Len(data))) = 4
    BY <1>1, UintBytes
  <1>3. /\ Zeros(PadTo8(Len(data))) \in Seq(Nat)
        /\ Len(Zeros(PadTo8(Len(data)))) = PadTo8(Len(data))
        /\ PadTo8(Len(data)) \in 0..7 /\ (Len(data) + PadTo8(Len(data))) % 8 = 0
    BY <1>1, PadFacts
  <1>4. /\ Chunk(code, data) \in Seq(Nat)
        /\ Len(Chunk(code, data)) = 4 + 4 + Len(data) + PadTo8(Len(data))
        /\ Segment(Chunk(code, data), 0, Uint(code))
        /\ Segment(Chunk(code, data), 4, Uint(Len(data)))
    <2> DEFINE a == Uint(code)
               b == Uint(Len(data))
               z == Zeros(PadTo8(Len(data)))
    <2>1. a \in Seq(Nat) /\ b \in Seq(Nat) /\ data \in Seq(Nat) /\ z \in Seq(Nat)
      BY <1>2, <1>3
    <2>2. Len(a) = 4 /\ Len(b) = 4 /\ Len(z) = PadTo8(Len(data))
      BY <1>2, <1>3
    <2>3. Chunk(code, data) = a \o b \o data \o z
      BY DEF Chunk
    <2> HIDE DEF a, b, z
    <2>4. /\ a \o b \o data \o z \in Seq(Nat)
          /\ Len(a \o b \o data \o z) = Len(a) + Len(b) + Len(data) + Len(z)
          /\ Segment(a \o b \o data \o z, 0, a)
          /\ Segment(a \o b \o data \o z, Len(a), b)
      BY <2>1, FourParts
    <2>5. /\ Chunk(code, data) \in Seq(Nat)
          /\ Len(Chunk(code, data)) = 4 + 4 + Len(data) + PadTo8(Len(data))
          /\ Segment(Chunk(code, data), 0, a)
          /\ Segment(Chunk(code, data), 4, b)
      BY <2>2, <2>3, <2>4
    <2> QED
      BY <2>5 DEF a, b
  <1>5. \A n \in Nat, p \in 0..7 : (n + p) % 8 = 0 => 4 + 4 + n + p = ((n + 8 + 7) \div 8) * 8
    OBVIOUS
  <1> QED
    BY <1>1, <1>3, <1>4, <1>5 DEF ChunkStep

(* The parts of a dependency.                                              *)
Dependencies == [name : Seq(1..255), sha : [1..20 -> 0..255]]

(* A byte is a number.                                                     *)
LEMMA ByteIsNat == \A x \in 0..255 : x \in Nat
  OBVIOUS

(* A function of bytes on 1..n is a sequence of n numbers, as a sha is.    *)
LEMMA ByteSeq ==
  ASSUME NEW n \in Nat, NEW t \in [1..n -> 0..255]
  PROVE  t \in Seq(Nat) /\ Len(t) = n
  <1>1. t \in [1..n -> Nat]
    BY ByteIsNat
  <1> QED
    BY <1>1, FunctionIsSeq

(* A byte of a name does not end it.                                       *)
LEMMA NameByte == \A x \in 1..255 : x \in 0..255 /\ x \notin {0, -1}
  OBVIOUS

(* A name is a sequence of numbers.                                        *)
LEMMA NameSeq ==
  ASSUME NEW t \in Seq(1..255)
  PROVE  t \in Seq(Nat) /\ Len(t) \in Nat
  <1>1. Len(t) \in Nat /\ t \in [1..Len(t) -> 1..255]
    BY LenProperties
  <1>2. \A x \in 1..255 : x \in 0..255
    OBVIOUS
  <1>3. t \in [1..Len(t) -> 0..255]
    BY <1>1, <1>2
  <1> QED
    BY <1>1, <1>3, ByteSeq

(* Where the parts of a dependency lie: its length, name, zero and sha.    *)
LEMMA DepParts ==
  ASSUME NEW dep \in Dependencies
  PROVE  /\ Len(dep.name) \in Nat
         /\ DepBytes(dep) \in Seq(Nat)
         /\ Len(DepBytes(dep)) = 25 + Len(dep.name)
         /\ Segment(DepBytes(dep), 0, Uint(Len(dep.name) + 1))
         /\ Segment(DepBytes(dep), 4, dep.name)
         /\ Segment(DepBytes(dep), 4 + Len(dep.name), <<0>>)
         /\ Segment(DepBytes(dep), 5 + Len(dep.name), dep.sha)
  <1>1. dep.name \in Seq(1..255) /\ dep.sha \in [1..20 -> 0..255]
    BY DEF Dependencies
  <1>2. dep.name \in Seq(Nat) /\ Len(dep.name) \in Nat
    BY <1>1, NameSeq
  <1>3. dep.sha \in Seq(Nat) /\ Len(dep.sha) = 20
    <2>1. \A t \in [1..20 -> 0..255] : t \in Seq(Nat) /\ Len(t) = 20
      BY ByteSeq
    <2> QED
      BY <1>1, <2>1
  <1>4. Uint(Len(dep.name) + 1) \in Seq(Nat) /\ Len(Uint(Len(dep.name) + 1)) = 4
    <2>1. Len(dep.name) + 1 \in Nat
      BY <1>2
    <2> QED
      BY <2>1, UintBytes
  <1>5. <<0>> \in Seq(Nat) /\ Len(<<0>>) = 1
    OBVIOUS
  <1>6. /\ DepBytes(dep) \in Seq(Nat)
        /\ Len(DepBytes(dep)) = 4 + Len(dep.name) + 1 + 20
        /\ Segment(DepBytes(dep), 0, Uint(Len(dep.name) + 1))
        /\ Segment(DepBytes(dep), 4, dep.name)
        /\ Segment(DepBytes(dep), 4 + Len(dep.name), <<0>>)
        /\ Segment(DepBytes(dep), 4 + Len(dep.name) + 1, dep.sha)
    <2> DEFINE a == Uint(Len(dep.name) + 1)
               b == dep.name
               c == <<0>>
               d == dep.sha
    <2>1. a \in Seq(Nat) /\ b \in Seq(Nat) /\ c \in Seq(Nat) /\ d \in Seq(Nat)
      BY <1>2, <1>3, <1>4, <1>5
    <2>2. Len(a) = 4 /\ Len(c) = 1 /\ Len(d) = 20
      BY <1>3, <1>4, <1>5
    <2>3. DepBytes(dep) = a \o b \o c \o d
      BY DEF DepBytes
    <2> HIDE DEF a, b, c, d
    <2>4. /\ a \o b \o c \o d \in Seq(Nat)
          /\ Len(a \o b \o c \o d) = Len(a) + Len(b) + Len(c) + Len(d)
          /\ Segment(a \o b \o c \o d, 0, a)
          /\ Segment(a \o b \o c \o d, Len(a), b)
          /\ Segment(a \o b \o c \o d, Len(a) + Len(b), c)
          /\ Segment(a \o b \o c \o d, Len(a) + Len(b) + Len(c), d)
      BY <2>1, FourParts
    <2>5. /\ DepBytes(dep) \in Seq(Nat)
          /\ Len(DepBytes(dep)) = 4 + Len(b) + 1 + 20
          /\ Segment(DepBytes(dep), 0, a)
          /\ Segment(DepBytes(dep), 4, b)
          /\ Segment(DepBytes(dep), 4 + Len(b), c)
          /\ Segment(DepBytes(dep), 4 + Len(b) + 1, d)
      BY <2>2, <2>3, <2>4
    <2> QED
      BY <2>5 DEF a, b, c, d
  <1>7. 4 + Len(dep.name) + 1 = 5 + Len(dep.name)
        /\ 4 + Len(dep.name) + 1 + 20 = 25 + Len(dep.name)
    BY <1>2
  <1> QED
    BY <1>2, <1>6, <1>7
-----------------------------------------------------------------------------
(* The dependencies section: its fields, and where each dependency is.     *)
DepsAt(P, s, len, m) ==
  /\ P \in [0..Len(m.deps) -> Nat] /\ P[0] = 16 /\ P[Len(m.deps)] = len
  /\ Segment(s, 0, Uint(m.dex_mod_time)) /\ Segment(s, 4, Uint(m.dex_crc))
  /\ Segment(s, 8, Uint(m.vm_version)) /\ Segment(s, 12, Uint(Len(m.deps)))
  /\ \A k \in 0..Len(m.deps) : P[k] >= 16 /\ P[k] <= len
  /\ \A k \in 1..Len(m.deps) : /\ P[k] = P[k - 1] + Len(DepBytes(m.deps[k]))
                               /\ Segment(s, P[k - 1], DepBytes(m.deps[k]))

(* The types of the fields of an OdexData.                                 *)
LEMMA DataFields ==
  ASSUME NEW m \in OdexData
  PROVE  /\ m.odex_version \in {35, 36}
         /\ m.flags \in Nat /\ m.dex_mod_time \in Nat /\ m.dex_crc \in Nat /\ m.vm_version \in Nat
         /\ m.deps \in Seq(Dependencies) /\ Len(m.deps) \in Nat
         /\ \A k \in 1..Len(m.deps) : m.deps[k] \in Dependencies
         /\ m.aux_format \in {FORMAT_NEW, FORMAT_OLD}
         /\ m.has_class_lookup \in BOOLEAN /\ m.has_register_maps \in BOOLEAN
  <1>1. /\ m.odex_version \in {35, 36}
        /\ m.flags \in Nat /\ m.dex_mod_time \in Nat /\ m.dex_crc \in Nat /\ m.vm_version \in Nat
        /\ m.aux_format \in {FORMAT_NEW, FORMAT_OLD}
        /\ m.has_class_lookup \in BOOLEAN /\ m.has_register_maps \in BOOLEAN
    BY DEF OdexData
  <1>2. m.deps \in Seq(Dependencies)
    BY DEF OdexData, Dependencies
  <1>3. \A D : \A s \in Seq(D) : Len(s) \in Nat /\ \A k \in 1..Len(s) : s[k] \in D
    OBVIOUS
  <1> QED
    BY <1>1, <1>2, <1>3

(* write_deps writes such a section.                                       *)
LEMMA DepsWritten ==
  ASSUME NEW m \in OdexData
  PROVE  /\ write_deps(m) \in Seq(Nat) /\ Len(write_deps(m)) \in Nat
         /\ \A s \in Seq(Nat) : Segment(s, 0, write_deps(m)) =>
              \E P : DepsAt(P, s, Len(write_deps(m)), m)
  <1> DEFINE n == Len(m.deps)
             ss == [k \in DOMAIN m.deps |-> DepBytes(m.deps[k])]
             a == Uint(m.dex_mod_time)
             b == Uint(m.dex_crc)
             c == Uint(m.vm_version)
             d == Uint(n)
             h == a \o b \o c \o d
             t == FlattenSeq(ss)
             w == write_deps(m)
  <1>1. n \in Nat /\ m.deps \in Seq(Dependencies)
    BY DataFields
  <1>2. ss \in Seq(Seq(Nat)) /\ Len(ss) = n /\ \A k \in 1..n : ss[k] = DepBytes(m.deps[k])
    <2>1. \A k \in 1..n : DepBytes(m.deps[k]) \in Seq(Nat)
      BY DataFields, DepParts
    <2>2. DOMAIN m.deps = 1..n
      BY <1>1
    <2>3. ss \in [1..n -> Seq(Nat)] /\ \A k \in 1..n : ss[k] = DepBytes(m.deps[k])
      BY <2>1, <2>2
    <2> HIDE DEF ss
    <2> QED
      BY <1>1, <2>3, FunctionIsSeq
  <1>3. /\ a \in Seq(Nat) /\ b \in Seq(Nat) /\ c \in Seq(Nat) /\ d \in Seq(Nat)
        /\ Len(a) = 4 /\ Len(b) = 4 /\ Len(c) = 4 /\ Len(d) = 4
    <2>1. \A v \in Nat : Uint(v) \in Seq(Nat) /\ Len(Uint(v)) = 4
      BY UintBytes
    <2> QED
      BY <1>1, <2>1, DataFields
  <1>4. t \in Seq(Nat)
        /\ \E F \in [0..n -> Nat] :
             /\ F[0] = 0 /\ F[n] = Len(t)
             /\ \A k \in 1..n : F[k] = F[k - 1] + Len(ss[k]) /\ Segment(t, F[k - 1], ss[k])
    <2> HIDE DEF ss
    <2> QED
      BY <1>2, FlattenSegments
  <1>5. w = h \o t
    BY DEF write_deps
  <1> HIDE DEF a, b, c, d, t, w
  <1>6. /\ h \in Seq(Nat) /\ Len(h) = 16 /\ Segment(h, 0, a) /\ Segment(h, 4, b)
        /\ Segment(h, 8, c) /\ Segment(h, 12, d)
    <2>0. a \in Seq(Nat) /\ b \in Seq(Nat) /\ c \in Seq(Nat) /\ d \in Seq(Nat)
      BY <1>3
    <2>1. /\ h \in Seq(Nat) /\ Len(h) = Len(a) + Len(b) + Len(c) + Len(d)
          /\ Segment(h, 0, a) /\ Segment(h, Len(a), b)
          /\ Segment(h, Len(a) + Len(b), c) /\ Segment(h, Len(a) + Len(b) + Len(c), d)
      BY <2>0, FourParts
    <2> HIDE DEF h
    <2> QED
      BY <1>3, <2>1
  <1> HIDE DEF h
  <1>7. /\ w \in Seq(Nat) /\ Len(w) = 16 + Len(t) /\ Len(t) \in Nat
        /\ Segment(w, 0, h) /\ Segment(w, 16, t)
    <2>1. /\ w \in Seq(Nat) /\ Len(w) = Len(h) + Len(t) /\ Len(t) \in Nat
          /\ Segment(w, 0, h) /\ Segment(w, Len(h), t)
      BY <1>4, <1>5, <1>6, TwoParts
    <2> QED
      BY <1>6, <2>1
  <1>8. ASSUME NEW s \in Seq(Nat), Segment(s, 0, w)
        PROVE  \E P : DepsAt(P, s, Len(w), m)
    <2>1. Segment(s, 0, h) /\ Segment(s, 16, t)
      <3>1. Segment(s, 0 + 0, h) /\ Segment(s, 0 + 16, t)
        BY <1>4, <1>6, <1>7, <1>8, SegmentTrans
      <3> QED
        BY <3>1
    <2>2. Segment(s, 0, a) /\ Segment(s, 4, b) /\ Segment(s, 8, c) /\ Segment(s, 12, d)
      <3>1. /\ Segment(s, 0 + 0, a) /\ Segment(s, 0 + 4, b)
            /\ Segment(s, 0 + 8, c) /\ Segment(s, 0 + 12, d)
        BY <1>3, <1>6, <2>1, SegmentTrans
      <3> QED
        BY <3>1
    <2>3. PICK F \in [0..n -> Nat] :
             /\ F[0] = 0 /\ F[n] = Len(t)
             /\ \A k \in 1..n : F[k] = F[k - 1] + Len(ss[k]) /\ Segment(t, F[k - 1], ss[k])
      BY <1>4
    <2> DEFINE P == [k \in 0..n |-> 16 + F[k]]
    <2>4. P \in [0..n -> Nat] /\ \A k \in 0..n : P[k] = 16 + F[k] /\ F[k] \in Nat
      <3>1. \A k \in 0..n : F[k] \in Nat /\ 16 + F[k] \in Nat
        <4>1. \A k \in 0..n : F[k] \in Nat
          OBVIOUS
        <4> QED
          BY <4>1
      <3> QED
        BY <3>1
    <2>5. ASSUME NEW k \in 1..n
          PROVE  /\ P[k] = P[k - 1] + Len(DepBytes(m.deps[k]))
                 /\ Segment(s, P[k - 1], DepBytes(m.deps[k]))
                 /\ F[k] <= Len(t)
      <3>1. k - 1 \in 0..n /\ k \in 0..n
        BY <1>1
      <3>2. F[k] = F[k - 1] + Len(ss[k]) /\ Segment(t, F[k - 1], ss[k])
        BY <2>3
      <3>3. ss[k] \in Seq(Nat) /\ ss[k] = DepBytes(m.deps[k]) /\ Len(ss[k]) \in Nat
        <4>1. \A x \in Seq(Seq(Nat)) : \A j \in 1..Len(x) : x[j] \in Seq(Nat) /\ Len(x[j]) \in Nat
          OBVIOUS
        <4> HIDE DEF ss
        <4> QED
          BY <1>2, <4>1
      <3> HIDE DEF ss
      <3>4. Segment(s, 16 + F[k - 1], ss[k])
        BY <1>4, <2>1, <2>4, <3>1, <3>2, <3>3, SegmentTrans
      <3>5. F[k - 1] + Len(ss[k]) <= Len(t)
        BY <3>2 DEF Segment
      <3> HIDE DEF P
      <3>6. P[k] = 16 + F[k] /\ P[k - 1] = 16 + F[k - 1] /\ F[k - 1] \in Nat
        BY <2>4, <3>1
      <3> QED
        BY <3>2, <3>3, <3>4, <3>5, <3>6
    <2> HIDE DEF P
    <2>6. \A k \in 0..n : P[k] >= 16 /\ P[k] <= Len(w)
      <3>1. ASSUME NEW k \in 0..n PROVE F[k] <= Len(t)
        <4>1. CASE k = 0
          BY <1>7, <2>3, <4>1
        <4>2. CASE k # 0
          <5>1. k \in 1..n
            BY <4>2
          <5> QED
            BY <2>5, <5>1
        <4> QED
          BY <4>1, <4>2
      <3>2. ASSUME NEW k \in 0..n PROVE P[k] >= 16 /\ P[k] <= Len(w)
        <4>1. P[k] = 16 + F[k] /\ F[k] \in Nat /\ F[k] <= Len(t)
          BY <2>4, <3>1
        <4> QED
          BY <1>7, <4>1
      <3> QED
        BY <3>2
    <2>7. P[0] = 16 /\ P[n] = Len(w)
      <3>1. 0 \in 0..n /\ n \in 0..n
        BY <1>1
      <3>2. P[0] = 16 + F[0] /\ P[n] = 16 + F[n]
        BY <2>4, <3>1
      <3>3. F[0] = 0 /\ F[n] = Len(t)
        BY <2>3
      <3> QED
        BY <1>7, <3>2, <3>3
    <2>8. /\ Segment(s, 0, Uint(m.dex_mod_time)) /\ Segment(s, 4, Uint(m.dex_crc))
          /\ Segment(s, 8, Uint(m.vm_version)) /\ Segment(s, 12, Uint(n))
      BY <2>2 DEF a, b, c, d
    <2>9. DepsAt(P, s, Len(w), m)
      BY <2>4, <2>5, <2>6, <2>7, <2>8 DEF DepsAt
    <2> QED
      BY <2>9
  <1>9. Len(w) \in Nat
    BY <1>7
  <1> QED
    BY <1>7, <1>8, <1>9 DEF w
-----------------------------------------------------------------------------
(* The chunks of the new format, in any number, of any code but the one    *)
(* that marks the old format and the one that ends them.                   *)
Chunks == [code : Nat \ {0, AUX_END}, data : Seq(Nat)]

ChunkBytesOf(c) == [k \in 1..Len(c) |-> Chunk(c[k].code, c[k].data)]

HasChunk(c, n, code) == \E k \in 1..n : c[k].code = code

(* The aux data that tells what m tells.                                   *)
AuxData(m, aux) ==
  \/ /\ m.aux_format = FORMAT_OLD /\ ~m.has_register_maps
     /\ \E rest \in Seq(Nat) : aux = Uint(0) \o rest
  \/ /\ m.aux_format = FORMAT_NEW
     /\ \E c \in Seq(Chunks) :
          /\ aux = FlattenSeq(ChunkBytesOf(c)) \o Uint(AUX_END)
          /\ m.has_class_lookup = HasChunk(c, Len(c), AUX_CLASS_LOOKUP)
          /\ m.has_register_maps = HasChunk(c, Len(c), AUX_REGISTER_MAPS)

(* Where the chunks c are, from base to the end of s.                      *)
ChunksAt(Q, c, s, base, m) ==
  /\ c \in Seq(Chunks) /\ Len(c) \in Nat
  /\ Q \in [0..Len(c) -> Nat] /\ Q[0] = base
  /\ \A k \in 1..Len(c) :
       /\ Q[k] = Q[k - 1] + ChunkStep(Len(c[k].data))
       /\ Segment(s, Q[k - 1], Uint(c[k].code))
       /\ Segment(s, Q[k - 1] + 4, Uint(Len(c[k].data)))
  /\ Segment(s, Q[Len(c)], Uint(AUX_END))
  /\ \A k \in 0..Len(c) : Q[k] >= base /\ Q[k] <= Len(s) - 4 /\ (Q[k] - base) % 8 = 0
  /\ m.has_class_lookup = HasChunk(c, Len(c), AUX_CLASS_LOOKUP)
  /\ m.has_register_maps = HasChunk(c, Len(c), AUX_REGISTER_MAPS)

AuxAt(s, base, m) ==
  \/ m.aux_format = FORMAT_OLD /\ ~m.has_register_maps /\ Segment(s, base, Uint(0))
  \/ m.aux_format = FORMAT_NEW /\ \E c, Q : ChunksAt(Q, c, s, base, m)

(* The mark that ends the chunks takes four bytes.                         *)
LEMMA EndCode == AUX_END \in Nat /\ Uint(AUX_END) \in Seq(Nat) /\ Len(Uint(AUX_END)) = 4
  <1>1. AUX_END \in Nat
    BY DEF AUX_END
  <1> QED
    BY <1>1, UintBytes

(* A chunk of the list has a code that is neither zero nor the end mark.   *)
LEMMA ChunkFields ==
  ASSUME NEW c \in Seq(Chunks)
  PROVE  /\ Len(c) \in Nat
         /\ \A k \in 1..Len(c) :
              /\ c[k].code \in Nat /\ c[k].code # 0 /\ c[k].code # AUX_END
              /\ c[k].data \in Seq(Nat) /\ Len(c[k].data) \in Nat
  <1>1. \A D : \A s \in Seq(D) : Len(s) \in Nat /\ \A k \in 1..Len(s) : s[k] \in D
    OBVIOUS
  <1>2. \A d \in Chunks : /\ d.code \in Nat /\ d.code # 0 /\ d.code # AUX_END
                          /\ d.data \in Seq(Nat)
    BY DEF Chunks
  <1>3. \A s \in Seq(Nat) : Len(s) \in Nat
    OBVIOUS
  <1> QED
    BY <1>1, <1>2, <1>3

(* A step over a chunk is at least its header, and keeps the alignment.    *)
LEMMA ChunkStepFacts ==
  ASSUME NEW n \in Nat
  PROVE  ChunkStep(n) \in Nat /\ ChunkStep(n) >= 8 /\ ChunkStep(n) % 8 = 0
  BY DEF ChunkStep

(* Multiples of eight add up to one.                                       *)
LEMMA SumOfEights ==
  ASSUME NEW x \in Nat, NEW y \in Nat, x % 8 = 0, y % 8 = 0
  PROVE  (x + y) % 8 = 0
  <1>1. x = 8 * (x \div 8) /\ y = 8 * (y \div 8)
    OBVIOUS
  <1>2. PICK a \in Nat : x = 8 * a
    BY <1>1
  <1>3. PICK b \in Nat : y = 8 * b
    BY <1>1
  <1>4. x + y = 8 * (a + b) /\ a + b \in Nat
    BY <1>2, <1>3
  <1>5. \A q \in Nat : (8 * q) % 8 = 0
    OBVIOUS
  <1> QED
    BY <1>4, <1>5

(* Chunks laid out one after the other start at multiples of 8.            *)
LEMMA ChunksAligned ==
  ASSUME NEW n \in Nat, NEW F \in [0..n -> Nat], F[0] = 0,
         NEW w \in [1..n -> Nat],
         \A k \in 1..n : F[k] = F[k - 1] + w[k] /\ w[k] % 8 = 0
  PROVE  \A k \in 0..n : F[k] % 8 = 0
  <1> DEFINE T == {k \in Nat : k <= n => F[k] % 8 = 0}
  <1>1. 0 \in T
    OBVIOUS
  <1>2. ASSUME NEW k \in T PROVE k + 1 \in T
    <2>1. SUFFICES ASSUME k + 1 <= n PROVE F[k + 1] % 8 = 0
      OBVIOUS
    <2>2. k + 1 \in 1..n /\ (k + 1) - 1 = k /\ k \in 0..n /\ F[k] % 8 = 0
      BY <2>1
    <2>3. F[k + 1] = F[k] + w[k + 1] /\ w[k + 1] % 8 = 0
      BY <2>2
    <2>4. F[k] \in Nat /\ w[k + 1] \in Nat
      BY <2>2
    <2>5. (F[k] + w[k + 1]) % 8 = 0
      BY <2>2, <2>3, <2>4, SumOfEights
    <2> QED
      BY <2>3, <2>5
  <1> HIDE DEF T
  <1>3. T = Nat
    <2>1. T \in SUBSET Nat
      BY DEF T
    <2> QED
      BY <1>1, <1>2, <2>1, SetInduction
  <1>4. ASSUME NEW k \in 0..n PROVE F[k] % 8 = 0
    <2>1. k \in Nat /\ k <= n
      OBVIOUS
    <2> QED
      BY <1>3, <2>1 DEF T
  <1> QED
    BY <1>4

(* Aux data is found wherever it is the end of the file.                   *)
LEMMA AuxFound ==
  ASSUME NEW m, NEW aux, AuxData(m, aux)
  PROVE  /\ aux \in Seq(Nat) /\ Len(aux) \in Nat
         /\ \A s \in Seq(Nat) : \A base \in Nat :
              Segment(s, base, aux) /\ base + Len(aux) = Len(s) => AuxAt(s, base, m)
  <1>1. CASE m.aux_format = FORMAT_OLD
    <2>0. m.aux_format # FORMAT_NEW
      BY <1>1 DEF FORMAT_OLD, FORMAT_NEW
    <2>1. PICK rest \in Seq(Nat) : aux = Uint(0) \o rest
      BY <2>0 DEF AuxData
    <2>2. ~m.has_register_maps
      BY <2>0 DEF AuxData
    <2>3. Uint(0) \in Seq(Nat)
      BY UintBytes
    <2>4. /\ aux \in Seq(Nat) /\ Len(aux) = Len(Uint(0)) + Len(rest)
          /\ Segment(aux, 0, Uint(0))
      BY <2>1, <2>3, TwoParts
    <2>5. ASSUME NEW s \in Seq(Nat), NEW base \in Nat, Segment(s, base, aux)
          PROVE  AuxAt(s, base, m)
      <3>1. Segment(s, base + 0, Uint(0))
        BY <2>3, <2>4, <2>5, SegmentTrans
      <3> QED
        BY <1>1, <2>2, <3>1 DEF AuxAt
    <2>6. Len(aux) \in Nat
      BY <2>4
    <2> QED
      BY <2>4, <2>5, <2>6
  <1>2. CASE m.aux_format # FORMAT_OLD
    <2>1. m.aux_format = FORMAT_NEW
      BY <1>2 DEF AuxData
    <2>2. PICK c \in Seq(Chunks) :
            /\ aux = FlattenSeq(ChunkBytesOf(c)) \o Uint(AUX_END)
            /\ m.has_class_lookup = HasChunk(c, Len(c), AUX_CLASS_LOOKUP)
            /\ m.has_register_maps = HasChunk(c, Len(c), AUX_REGISTER_MAPS)
      BY <1>2 DEF AuxData
    <2> DEFINE n == Len(c)
               ss == ChunkBytesOf(c)
               t == FlattenSeq(ss)
               e == Uint(AUX_END)
               w == [k \in 1..n |-> ChunkStep(Len(c[k].data))]
    <2>3. n \in Nat
      BY ChunkFields
    <2>4. ss \in Seq(Seq(Nat)) /\ Len(ss) = n
          /\ \A k \in 1..n : ss[k] = Chunk(c[k].code, c[k].data)
      <3>1. \A k \in 1..n : Chunk(c[k].code, c[k].data) \in Seq(Nat)
        BY ChunkFields, ChunkBytes
      <3>2. ss \in [1..n -> Seq(Nat)] /\ \A k \in 1..n : ss[k] = Chunk(c[k].code, c[k].data)
        BY <3>1 DEF ChunkBytesOf
      <3> HIDE DEF ss
      <3> QED
        BY <2>3, <3>2, FunctionIsSeq
    <2>5. \A k \in 1..n : /\ Len(ss[k]) = w[k] /\ w[k] \in Nat /\ w[k] % 8 = 0
                          /\ ss[k] \in Seq(Nat)
                          /\ Segment(ss[k], 0, Uint(c[k].code))
                          /\ Segment(ss[k], 4, Uint(Len(c[k].data)))
      <3>1. ASSUME NEW k \in 1..n
            PROVE  /\ Len(ss[k]) = w[k] /\ w[k] \in Nat /\ w[k] % 8 = 0
                   /\ ss[k] \in Seq(Nat)
                   /\ Segment(ss[k], 0, Uint(c[k].code))
                   /\ Segment(ss[k], 4, Uint(Len(c[k].data)))
        <4>1. c[k].code \in Nat /\ c[k].data \in Seq(Nat) /\ Len(c[k].data) \in Nat
          BY ChunkFields
        <4>2. w[k] = ChunkStep(Len(c[k].data))
          OBVIOUS
        <4>3. ss[k] = Chunk(c[k].code, c[k].data)
          BY <2>4
        <4> HIDE DEF ss, w
        <4> QED
          BY <4>1, <4>2, <4>3, ChunkBytes, ChunkStepFacts
      <3> QED
        BY <3>1
    <2> HIDE DEF ss
    <2>6. t \in Seq(Nat) /\ Len(t) \in Nat
          /\ \E F \in [0..n -> Nat] :
               /\ F[0] = 0 /\ F[n] = Len(t)
               /\ \A k \in 1..n : F[k] = F[k - 1] + Len(ss[k]) /\ Segment(t, F[k - 1], ss[k])
      BY <2>4, FlattenSegments
    <2>7. e \in Seq(Nat) /\ Len(e) = 4
      BY EndCode
    <2>8. aux = t \o e
      BY <2>2 DEF ss
    <2> HIDE DEF t, e
    <2>9. /\ aux \in Seq(Nat) /\ Len(aux) = Len(t) + 4
          /\ Segment(aux, 0, t) /\ Segment(aux, Len(t), e)
      <3>1. /\ t \o e \in Seq(Nat) /\ Len(t \o e) = Len(t) + Len(e)
            /\ Segment(t \o e, 0, t) /\ Segment(t \o e, Len(t), e)
        BY <2>6, <2>7, TwoParts
      <3> QED
        BY <2>7, <2>8, <3>1
    <2>10. ASSUME NEW s \in Seq(Nat), NEW base \in Nat, Segment(s, base, aux),
                  base + Len(aux) = Len(s)
           PROVE  AuxAt(s, base, m)
      <3>1. Segment(s, base, t) /\ Segment(s, base + Len(t), e)
        <4>1. Segment(s, base + 0, t)
          BY <2>6, <2>9, <2>10, SegmentTrans
        <4>2. Segment(s, base + Len(t), e)
          BY <2>6, <2>7, <2>9, <2>10, SegmentTrans
        <4> QED
          BY <4>1, <4>2
      <3>2. PICK F \in [0..n -> Nat] :
               /\ F[0] = 0 /\ F[n] = Len(t)
               /\ \A k \in 1..n : F[k] = F[k - 1] + Len(ss[k]) /\ Segment(t, F[k - 1], ss[k])
        BY <2>6
      <3>3. \A k \in 0..n : F[k] % 8 = 0
        <4>1. w \in [1..n -> Nat]
          <5>1. \A k \in 1..n : w[k] \in Nat
            BY <2>5
          <5>2. \A k \in 1..n : w[k] = ChunkStep(Len(c[k].data))
            OBVIOUS
          <5>3. \A k \in 1..n : ChunkStep(Len(c[k].data)) \in Nat
            BY <5>1, <5>2
          <5> QED
            BY <5>3
        <4>2. \A k \in 1..n : F[k] = F[k - 1] + w[k] /\ w[k] % 8 = 0
          <5> HIDE DEF w
          <5> QED
            BY <2>5, <3>2
        <4> HIDE DEF w
        <4> QED
          BY <2>3, <3>2, <4>1, <4>2, ChunksAligned
      <3> DEFINE Q == [k \in 0..n |-> base + F[k]]
      <3>4. Q \in [0..n -> Nat] /\ \A k \in 0..n : Q[k] = base + F[k] /\ F[k] \in Nat
        <4>1. \A k \in 0..n : F[k] \in Nat
          OBVIOUS
        <4>2. \A k \in 0..n : base + F[k] \in Nat
          BY <4>1
        <4> QED
          BY <4>1, <4>2
      <3> HIDE DEF Q
      <3>5. ASSUME NEW k \in 1..n
            PROVE  /\ Q[k] = Q[k - 1] + ChunkStep(Len(c[k].data))
                   /\ Segment(s, Q[k - 1], Uint(c[k].code))
                   /\ Segment(s, Q[k - 1] + 4, Uint(Len(c[k].data)))
                   /\ F[k] <= Len(t)
        <4>1. k - 1 \in 0..n /\ k \in 0..n
          BY <2>3
        <4>2. F[k] = F[k - 1] + Len(ss[k]) /\ Segment(t, F[k - 1], ss[k])
          BY <3>2
        <4>3. /\ Len(ss[k]) = w[k] /\ w[k] \in Nat
              /\ ss[k] \in Seq(Nat)
              /\ Segment(ss[k], 0, Uint(c[k].code))
              /\ Segment(ss[k], 4, Uint(Len(c[k].data)))
          <5> HIDE DEF w
          <5> QED
            BY <2>5
        <4>4. w[k] = ChunkStep(Len(c[k].data))
          OBVIOUS
        <4> HIDE DEF w
        <4>5. Q[k] = base + F[k] /\ Q[k - 1] = base + F[k - 1] /\ F[k - 1] \in Nat /\ Q[k - 1] \in Nat
          BY <3>4, <4>1
        <4>6. Segment(s, base + F[k - 1], ss[k])
          BY <2>6, <3>1, <4>2, <4>3, <4>5, SegmentTrans
        <4>7. c[k].code \in Nat /\ c[k].data \in Seq(Nat) /\ Len(c[k].data) \in Nat
          BY ChunkFields
        <4>8. Uint(c[k].code) \in Seq(Nat) /\ Uint(Len(c[k].data)) \in Seq(Nat)
          BY <4>7, UintBytes
        <4>9. /\ Segment(s, Q[k - 1] + 0, Uint(c[k].code))
              /\ Segment(s, Q[k - 1] + 4, Uint(Len(c[k].data)))
          BY <4>3, <4>5, <4>6, <4>8, SegmentTrans
        <4>10. F[k - 1] + Len(ss[k]) <= Len(t)
          BY <4>2 DEF Segment
        <4>11. Q[k - 1] + 0 = Q[k - 1]
          BY <4>5
        <4> QED
          BY <4>2, <4>3, <4>4, <4>5, <4>9, <4>10, <4>11
      <3>6. \A k \in 0..n : Q[k] >= base /\ Q[k] <= Len(s) - 4 /\ (Q[k] - base) % 8 = 0
        <4>1. ASSUME NEW k \in 0..n
              PROVE  Q[k] >= base /\ Q[k] <= Len(s) - 4 /\ (Q[k] - base) % 8 = 0
          <5>1. F[k] <= Len(t)
            <6>1. CASE k = 0
              BY <2>6, <3>2, <6>1
            <6>2. CASE k # 0
              <7>1. k \in 1..n
                BY <6>2
              <7> QED
                BY <3>5, <7>1
            <6> QED
              BY <6>1, <6>2
          <5>2. Q[k] = base + F[k] /\ F[k] \in Nat /\ F[k] % 8 = 0
            BY <3>3, <3>4
          <5>3. Len(s) = base + Len(t) + 4 /\ Len(t) \in Nat
            BY <2>6, <2>9, <2>10
          <5>4. Q[k] - base = F[k]
            BY <5>2
          <5>5. Q[k] >= base /\ Q[k] <= Len(s) - 4
            BY <5>1, <5>2, <5>3
          <5> QED
            BY <5>2, <5>4, <5>5
        <4> QED
          BY <4>1
      <3>7. Q[0] = base /\ Segment(s, Q[n], Uint(AUX_END))
        <4>1. 0 \in 0..n /\ n \in 0..n
          BY <2>3
        <4>2. Q[0] = base + F[0] /\ Q[n] = base + F[n] /\ F[0] = 0 /\ F[n] = Len(t)
          BY <3>2, <3>4, <4>1
        <4>3. Segment(s, Q[n], e)
          BY <3>1, <4>2
        <4> QED
          BY <4>2, <4>3 DEF e
      <3>8. ChunksAt(Q, c, s, base, m)
        BY <2>2, <2>3, <3>4, <3>5, <3>6, <3>7 DEF ChunksAt
      <3> QED
        BY <2>1, <3>8 DEF AuxAt
    <2>11. Len(aux) \in Nat
      BY <2>6, <2>9
    <2> QED
      BY <2>9, <2>10, <2>11
  <1> QED
    BY <1>1, <1>2
-----------------------------------------------------------------------------
Damages ==
  {"none", "cut", "tail", "dex", "deps", "version", "dex_off", "dex_len", "deps_off",
   "deps_len", "aux_off", "aux_len", "flags", "crc"}

OdexFiles ==
  [version : Int, dex_off : Nat, dex_len : Nat, deps_off : Nat, deps_len : Nat,
   aux_off : Nat, aux_len : Nat, flags : Nat, crc : Seq(Int),
   dex : [off : Nat, len : Nat, ok : BOOLEAN], tail : Seq(Nat), size : Int,
   damage : Damages]

(* Where the sections are.                                                 *)
Sections(f) ==
  /\ f.dex.off = 40 /\ f.dex.len >= 112 /\ f.deps_off = 40 + f.dex.len
  /\ f.deps_off <= f.aux_off /\ (f.aux_off - 40) % 8 = 0
  /\ f.aux_len >= 4

(* The damage that leaves alone what the checksum covers: none, or one in  *)
(* the dex file or the header; the latter two show in a comparison.        *)
Marked(f) ==
  /\ f.damage \in {"none", "dex", "dex_off", "dex_len"} \cup Unnoticed
  /\ f.damage = "none" =>
       /\ f.dex_off = f.dex.off /\ f.dex_len = f.dex.len /\ f.dex.ok = TRUE
       /\ f.deps_off + f.deps_len <= f.aux_off
  /\ f.damage \in {"dex", "dex_off", "dex_len"} =>
       f.dex_off # f.dex.off \/ f.dex_len # f.dex.len \/ f.dex.ok = FALSE

(* The list of dependencies that was written; the header may tell another  *)
(* length.                                                                 *)
ListAt(P, len, f, m) ==
  /\ len \in Nat /\ len >= 16 /\ DepsAt(P, f.tail, len, m)
  /\ f.deps_off + len <= f.aux_off
  /\ f.damage # "deps_len" => f.deps_len = len

(* The file holds what m tells.                                            *)
Holds(f, m) ==
  /\ f \in OdexFiles /\ Sections(f) /\ Marked(f)
  /\ f.size = f.aux_off + f.aux_len
  /\ Len(f.tail) = f.size - f.deps_off
  /\ f.crc = f.tail \/ f.crc = NoChecksum
  /\ f.flags = m.flags /\ f.version = m.odex_version
  /\ \E P, len : ListAt(P, len, f, m)
  /\ AuxAt(f.tail, f.aux_off - f.deps_off, m)

(* An aux section is never empty: it holds at least one word.              *)
LEMMA AuxLength ==
  ASSUME NEW m, NEW aux, AuxData(m, aux)
  PROVE  aux \in Seq(Nat) /\ Len(aux) \in Nat /\ Len(aux) >= 4
  <1>1. aux \in Seq(Nat) /\ Len(aux) \in Nat
    BY AuxFound
  <1>2. Segment(aux, 0, aux)
    BY <1>1, SegmentSelf
  <1>3. AuxAt(aux, 0, m)
    <2>1. 0 + Len(aux) = Len(aux)
      BY <1>1
    <2>2. \A s \in Seq(Nat) : \A base \in Nat :
            Segment(s, base, aux) /\ base + Len(aux) = Len(s) => AuxAt(s, base, m)
      BY AuxFound
    <2> QED
      BY <1>1, <1>2, <2>1, <2>2
  <1>4. CASE Segment(aux, 0, Uint(0))
    <2>1. PICK u : u = Uint(0) /\ Len(u) = 4 /\ Segment(aux, 0, u)
      <3>1. Len(Uint(0)) = 4
        BY UintBytes
      <3> QED
        BY <1>4, <3>1
    <2>2. 0 + 4 <= Len(aux)
      BY <2>1 DEF Segment
    <2> QED
      BY <1>1, <2>2
  <1>5. CASE \E c, Q : ChunksAt(Q, c, aux, 0, m)
    <2>1. PICK c, Q : ChunksAt(Q, c, aux, 0, m)
      BY <1>5
    <2>2. Q[0] >= 0 /\ Q[0] <= Len(aux) - 4 /\ Q[0] = 0
      BY <2>1 DEF ChunksAt
    <2> QED
      BY <1>1, <2>2
  <1> QED
    BY <1>1, <1>3, <1>4, <1>5 DEF AuxAt

(* dxc_write_file lays out such a file.                                    *)
LEMMA PackHolds ==
  ASSUME NEW m \in OdexData, NEW sz \in Nat, sz >= 112, NEW aux, AuxData(m, aux)
  PROVE  Holds(Pack(m, sz, write_deps(m), aux), m)
  <1> DEFINE deps == write_deps(m)
             pad == PadTo8(sz + Len(deps))
             zeros == Zeros(pad)
             padded == deps \o zeros
             tail == padded \o aux
             f == Pack(m, sz, write_deps(m), aux)
  <1>1. /\ deps \in Seq(Nat) /\ Len(deps) \in Nat
        /\ \A s \in Seq(Nat) : Segment(s, 0, deps) => \E P : DepsAt(P, s, Len(deps), m)
    BY DepsWritten
  <1>2. f = [version |-> m.odex_version, dex_off |-> 40, dex_len |-> sz,
             deps_off |-> 40 + sz, deps_len |-> Len(deps),
             aux_off |-> 40 + sz + Len(padded), aux_len |-> Len(aux), flags |-> m.flags,
             crc |-> tail, dex |-> [off |-> 40, len |-> sz, ok |-> TRUE],
             tail |-> tail, size |-> 40 + sz + Len(tail), damage |-> "none"]
    BY DEF Pack
  <1> HIDE DEF deps, f
  <1>3. /\ pad \in Nat /\ (sz + Len(deps) + pad) % 8 = 0
        /\ zeros \in Seq(Nat) /\ Len(zeros) = pad
    <2>1. sz + Len(deps) \in Nat
      BY <1>1
    <2>2. \A n \in 0..7 : n \in Nat
      OBVIOUS
    <2> QED
      BY <2>1, <2>2, PadFacts
  <1> HIDE DEF pad, zeros
  <1>4. /\ padded \in Seq(Nat) /\ Len(padded) = Len(deps) + pad /\ Len(padded) \in Nat
        /\ Segment(padded, 0, deps)
    <2>1. /\ deps \o zeros \in Seq(Nat) /\ Len(deps \o zeros) = Len(deps) + Len(zeros)
          /\ Segment(deps \o zeros, 0, deps)
      BY <1>1, <1>3, TwoParts
    <2> QED
      BY <1>1, <1>3, <2>1
  <1> HIDE DEF padded
  <1>5. /\ aux \in Seq(Nat) /\ Len(aux) \in Nat /\ Len(aux) >= 4
        /\ \A s \in Seq(Nat) : \A base \in Nat :
             Segment(s, base, aux) /\ base + Len(aux) = Len(s) => AuxAt(s, base, m)
    BY AuxFound, AuxLength
  <1>6. /\ tail \in Seq(Nat) /\ Len(tail) = Len(padded) + Len(aux)
        /\ Segment(tail, 0, padded) /\ Segment(tail, Len(padded), aux)
    BY <1>4, <1>5, TwoParts
  <1> HIDE DEF tail
  <1>7. \E P : DepsAt(P, tail, Len(deps), m)
    <2>1. Segment(tail, 0 + 0, deps)
      BY <1>1, <1>4, <1>6, SegmentTrans
    <2> QED
      BY <1>1, <1>6, <2>1
  <1>8. AuxAt(tail, Len(padded), m)
    BY <1>4, <1>5, <1>6
  <1>9. f \in OdexFiles
    <2>1. 40 + sz \in Nat /\ 40 + sz + Len(padded) \in Nat /\ 40 + sz + Len(tail) \in Int
      <3>1. Len(padded) \in Nat /\ Len(tail) \in Nat
        <4>1. \A p, q \in Nat : p + q \in Nat
          OBVIOUS
        <4> QED
          BY <1>4, <1>5, <1>6, <4>1
      <3>2. \A p \in Nat : 40 + sz + p \in Nat /\ 40 + sz + p \in Int /\ 40 + sz \in Nat
        OBVIOUS
      <3> QED
        BY <3>1, <3>2
    <2>2. tail \in Seq(Int)
      <3>1. \A s \in Seq(Nat) : s \in Seq(Int)
        OBVIOUS
      <3> QED
        BY <1>6, <3>1
    <2>3. m.flags \in Nat /\ m.odex_version \in Int
      <3>1. m.flags \in Nat /\ m.odex_version \in {35, 36}
        BY DataFields
      <3> QED
        BY <3>1
    <2>4. [off |-> 40, len |-> sz, ok |-> TRUE] \in [off : Nat, len : Nat, ok : BOOLEAN]
      OBVIOUS
    <2>5. "none" \in Damages
      BY DEF Damages
    <2> QED
      BY <1>1, <1>2, <1>5, <1>6, <2>1, <2>2, <2>3, <2>4, <2>5 DEF OdexFiles
  <1>10. /\ f.dex_off = 40 /\ f.dex_len = sz /\ f.deps_off = 40 + sz /\ f.deps_len = Len(deps)
         /\ f.aux_off = 40 + sz + Len(padded) /\ f.aux_len = Len(aux) /\ f.flags = m.flags
         /\ f.crc = tail /\ f.tail = tail /\ f.size = 40 + sz + Len(tail) /\ f.damage = "none"
         /\ f.version = m.odex_version
         /\ f.dex.off = 40 /\ f.dex.len = sz /\ f.dex.ok = TRUE
    BY <1>2
  <1>11. Sections(f) /\ Marked(f) /\ f.deps_off + f.deps_len <= f.aux_off
    <2>1. /\ 40 + sz + Len(deps) <= 40 + sz + Len(padded)
          /\ 40 + sz <= 40 + sz + Len(padded)
      BY <1>1, <1>3, <1>4
    <2>2. (40 + sz + Len(padded)) - 40 = sz + Len(deps) + pad
      BY <1>1, <1>3, <1>4
    <2>3. f.deps_off + f.deps_len <= f.aux_off
      BY <1>10, <2>1
    <2>4. Marked(f)
      BY <1>10, <2>3 DEF Marked
    <2> QED
      BY <1>3, <1>5, <1>10, <2>1, <2>2, <2>3, <2>4 DEF Sections
  <1>12. /\ f.size = f.aux_off + f.aux_len /\ Len(f.tail) = f.size - f.deps_off
         /\ f.aux_off - f.deps_off = Len(padded)
    <2>1. /\ Len(tail) = Len(padded) + Len(aux) /\ Len(padded) \in Nat /\ Len(aux) \in Nat
      BY <1>4, <1>5, <1>6
    <2>2. \A p, a, l \in Nat : l = p + a =>
            /\ 40 + sz + l = (40 + sz + p) + a /\ l = (40 + sz + l) - (40 + sz)
            /\ (40 + sz + p) - (40 + sz) = p
      OBVIOUS
    <2>3. Len(tail) \in Nat
      BY <2>1
    <2> QED
      BY <1>10, <2>1, <2>2, <2>3
  <1>13. \E P, len : ListAt(P, len, f, m)
    <2>1. PICK P : DepsAt(P, tail, Len(deps), m)
      BY <1>7
    <2>2. Len(deps) >= 16
      <3>1. 0 \in 0..Len(m.deps)
        BY DataFields
      <3>2. P[0] = 16 /\ P[0] <= Len(deps)
        BY <2>1, <3>1 DEF DepsAt
      <3> QED
        BY <1>1, <3>2
    <2>3. ListAt(P, Len(deps), f, m)
      BY <1>1, <1>10, <1>11, <2>1, <2>2 DEF ListAt
    <2> QED
      BY <2>3
  <1>14. Holds(f, m)
    BY <1>8, <1>9, <1>10, <1>11, <1>12, <1>13 DEF Holds
  <1> QED
    BY <1>14 DEF f

-----------------------------------------------------------------------------
(* The aux data of the writer.                                             *)
LEMMA TableWritten ==
  ASSUME TypeOK, pc = "done"
  PROVE  TableBytes \in Seq(Nat)
  <1> DEFINE line(k) == LET e == tab[k - 1] IN Uint(e.hash) \o Uint(e.desc_off) \o Uint(e.def_off)
             ss == [k \in 1..entries |-> line(k)]
  <1>1. entries \in Nat /\ tab \in [Slots -> [hash : Nat, desc_off : Nat, def_off : Nat]]
    BY DEF TypeOK
  <1>2. ASSUME NEW k \in 1..entries PROVE line(k) \in Seq(Nat)
    <2>1. k - 1 \in Slots
      BY <1>1 DEF Slots
    <2>2. tab[k - 1].hash \in Nat /\ tab[k - 1].desc_off \in Nat /\ tab[k - 1].def_off \in Nat
      BY <1>1, <2>1
    <2>3. \A v \in Nat : Uint(v) \in Seq(Nat)
      BY UintBytes
    <2>4. \A a, b, c \in Seq(Nat) : a \o b \o c \in Seq(Nat)
      OBVIOUS
    <2> QED
      BY <2>2, <2>3, <2>4
  <1>3. ss \in [1..entries -> Seq(Nat)]
    BY <1>2
  <1>4. ss \in Seq(Seq(Nat))
    <2> HIDE DEF ss
    <2> QED
      BY <1>1, <1>3, FunctionIsSeq
  <1>5. TableBytes = FlattenSeq(ss)
    BY DEF TableBytes
  <1> HIDE DEF ss
  <1> QED
    BY <1>4, <1>5, FlattenSegments

(* What write_aux writes, once the table is complete, is an aux section    *)
(* that tells the OdexData: the lookup chunk if there is a table, and the  *)
(* end.                                                                    *)
LEMMA AuxWritten ==
  ASSUME NEW m \in OdexData, ~m.has_register_maps, TypeOK,
         m.has_class_lookup => pc = "done"
  PROVE  AuxData(m, write_aux(m))
  <1> DEFINE lookup == Uint(8 + entries * 12) \o Uint(entries) \o TableBytes
  <1>1. \A v \in Nat : Uint(v) \in Seq(Nat)
    BY UintBytes
  <1>2. m.has_class_lookup => lookup \in Seq(Nat)
    <2>1. SUFFICES ASSUME m.has_class_lookup PROVE lookup \in Seq(Nat)
      OBVIOUS
    <2>2. TableBytes \in Seq(Nat)
      BY <2>1, TableWritten
    <2>3. entries \in Nat /\ 8 + entries * 12 \in Nat
      BY DEF TypeOK
    <2>4. \A a, b, c \in Seq(Nat) : a \o b \o c \in Seq(Nat)
      OBVIOUS
    <2> QED
      BY <1>1, <2>2, <2>3, <2>4
  <1>3. CASE m.aux_format = FORMAT_OLD
    <2>1. write_aux(m) = Uint(0) \o (IF m.has_class_lookup THEN lookup ELSE << >>)
      BY <1>3 DEF write_aux
    <2>2. (IF m.has_class_lookup THEN lookup ELSE << >>) \in Seq(Nat)
      <3>1. << >> \in Seq(Nat)
        OBVIOUS
      <3> HIDE DEF lookup
      <3> QED
        BY <1>2, <3>1
    <2> HIDE DEF lookup
    <2> QED
      BY <1>3, <2>1, <2>2 DEF AuxData
  <1> HIDE DEF lookup
  <1>4. CASE m.aux_format # FORMAT_OLD
    <2>1. m.aux_format = FORMAT_NEW
      BY <1>4, DataFields
    <2>2. write_aux(m) = (IF m.has_class_lookup THEN Chunk(AUX_CLASS_LOOKUP, lookup) ELSE << >>)
                           \o Uint(AUX_END)
      BY <1>4 DEF write_aux, lookup
    <2>3. ASSUME NEW c \in Seq(Chunks),
                 write_aux(m) = FlattenSeq(ChunkBytesOf(c)) \o Uint(AUX_END),
                 m.has_class_lookup = HasChunk(c, Len(c), AUX_CLASS_LOOKUP),
                 ~HasChunk(c, Len(c), AUX_REGISTER_MAPS)
          PROVE  AuxData(m, write_aux(m))
      <3>1. m.has_register_maps = HasChunk(c, Len(c), AUX_REGISTER_MAPS)
        <4>1. m.has_register_maps \in BOOLEAN
          BY DataFields
        <4> QED
          BY <2>3, <4>1 DEF HasChunk
      <3> QED
        BY <2>1, <2>3, <3>1 DEF AuxData
    <2>4. CASE m.has_class_lookup
      <3> DEFINE c == <<[code |-> AUX_CLASS_LOOKUP, data |-> lookup]>>
      <3>1. lookup \in Seq(Nat)
        BY <1>2, <2>4
      <3>2. c \in Seq(Chunks) /\ Len(c) = 1
            /\ c[1].code = AUX_CLASS_LOOKUP /\ c[1].data = lookup
        <4>1. [code |-> AUX_CLASS_LOOKUP, data |-> lookup] \in Chunks
          BY <3>1 DEF Chunks, AUX_CLASS_LOOKUP, AUX_END
        <4>2. \A x \in Chunks : <<x>> \in Seq(Chunks) /\ Len(<<x>>) = 1 /\ <<x>>[1] = x
          OBVIOUS
        <4> QED
          BY <4>1, <4>2
      <3> HIDE DEF c
      <3> DEFINE t == Chunk(AUX_CLASS_LOOKUP, lookup)
      <3>3. ChunkBytesOf(c) = <<t>>
        BY <3>2 DEF ChunkBytesOf
      <3>4. t \in Seq(Nat)
        <4>1. AUX_CLASS_LOOKUP \in Nat
          BY DEF AUX_CLASS_LOOKUP
        <4> QED
          BY <3>1, <4>1, ChunkBytes
      <3>5. write_aux(m) = t \o Uint(AUX_END)
        BY <2>2, <2>4
      <3> HIDE DEF t
      <3>6. FlattenSeq(ChunkBytesOf(c)) = t
        BY <3>3, <3>4, FlattenOne
      <3>7. HasChunk(c, Len(c), AUX_CLASS_LOOKUP) = TRUE
        BY <3>2 DEF HasChunk
      <3>8. ~HasChunk(c, Len(c), AUX_REGISTER_MAPS)
        <4>1. AUX_CLASS_LOOKUP # AUX_REGISTER_MAPS
          BY DEF AUX_CLASS_LOOKUP, AUX_REGISTER_MAPS
        <4> QED
          BY <3>2, <4>1 DEF HasChunk
      <3>9. m.has_class_lookup = TRUE
        BY <2>4, DataFields
      <3> QED
        BY <2>3, <3>2, <3>5, <3>6, <3>7, <3>8, <3>9
    <2>5. CASE ~m.has_class_lookup
      <3> DEFINE c == << >>
      <3>1. c \in Seq(Chunks) /\ Len(c) = 0
        OBVIOUS
      <3>2. ChunkBytesOf(c) = << >>
        BY DEF ChunkBytesOf
      <3>3. FlattenSeq(<< >>) = << >>
        BY DEF FlattenSeq
      <3>4. write_aux(m) = << >> \o Uint(AUX_END)
        BY <2>2, <2>5
      <3>5. \A code : HasChunk(c, Len(c), code) = FALSE
        BY DEF HasChunk
      <3>6. m.has_class_lookup = FALSE
        BY <2>5, DataFields
      <3> HIDE DEF c
      <3> QED
        BY <2>3, <3>1, <3>2, <3>3, <3>4, <3>5, <3>6
    <2> QED
      BY <2>4, <2>5
  <1> QED
    BY <1>3, <1>4
-----------------------------------------------------------------------------
(* The OdexData that a reader of the file finds: flags and version are     *)
(* those of its header.                                                    *)
ToldBy(m, f) == [m EXCEPT !.flags = f.flags, !.odex_version = f.version]
Told == ToldBy(meta, file)

(* The header of a file that holds an OdexData: the sections follow each   *)
(* other inside the file, the aux data on a multiple of 8.                 *)
LEMMA HoldsFields ==
  ASSUME Holds(file, Told)
  PROVE  /\ file.dex.off = 40 /\ file.dex.len \in Nat /\ file.dex.len >= 112
         /\ file.deps_off = 40 + file.dex.len /\ file.deps_off \in Nat
         /\ file.deps_len \in Nat /\ file.aux_off \in Nat /\ file.aux_len \in Nat
         /\ file.deps_off + 16 <= file.aux_off
         /\ (file.aux_off - 40) % 8 = 0
         /\ file.aux_len >= 4
         /\ file.size = file.aux_off + file.aux_len
         /\ file.tail \in Seq(Nat)
         /\ Len(file.tail) = file.size - file.deps_off
         /\ file.flags \in Nat
  <1>1. file \in OdexFiles /\ Sections(file)
    BY DEF Holds
  <1>2. /\ file.dex.len \in Nat /\ file.deps_len \in Nat /\ file.aux_off \in Nat
        /\ file.aux_len \in Nat /\ file.tail \in Seq(Nat) /\ file.flags \in Nat
        /\ file.deps_off \in Nat
    BY <1>1 DEF OdexFiles
  <1>3. file.deps_off + 16 <= file.aux_off
    <2>1. PICK P, len : ListAt(P, len, file, Told)
      BY DEF Holds
    <2>2. len \in Nat /\ len >= 16 /\ file.deps_off + len <= file.aux_off
      BY <2>1 DEF ListAt
    <2> QED
      BY <1>2, <2>2
  <1> QED
    BY <1>1, <1>2, <1>3 DEF Holds, Sections

(* The reader finds a byte of the tail at its place in the file.           *)
LEMMA ByteFound ==
  ASSUME Holds(file, Told), NEW x \in Nat, x + 1 <= Len(file.tail)
  PROVE  ByteAt(file.deps_off + x) = file.tail[x + 1]
  <1>1. /\ file.dex.off + file.dex.len = file.deps_off /\ file.deps_off \in Nat
        /\ file.tail \in Seq(Nat)
    BY HoldsFields
  <1>2. (file.deps_off + x) - file.deps_off + 1 = x + 1
    BY <1>1
  <1>3. x + 1 \in DOMAIN file.tail
    BY <1>1
  <1> QED
    BY <1>1, <1>2, <1>3 DEF ByteAt

(* The bytes of a segment of the file are those of the segment.            *)
LEMMA BytesFound ==
  ASSUME Holds(file, Told), NEW x \in Nat, NEW S, NEW n \in Nat, NEW t \in [1..n -> S],
         Segment(file.tail, x, t)
  PROVE  Bytes(file.deps_off + x, n) = t
  <1>1. file.deps_off \in Nat /\ Len(file.tail) \in Nat
    <2>1. \A u \in Seq(Nat) : Len(u) \in Nat
      OBVIOUS
    <2> QED
      BY <2>1, HoldsFields
  <1>2. Len(t) = n
    BY FunctionIsSeq
  <1>3. ASSUME NEW k \in 1..n
        PROVE  ByteAt((file.deps_off + x) + k - 1) = t[k]
    <2>1. x + k - 1 \in Nat /\ (file.deps_off + x) + k - 1 = file.deps_off + (x + k - 1)
          /\ (x + k - 1) + 1 = x + k
      BY <1>1
    <2>2. x + n <= Len(file.tail) /\ file.tail[x + k] = t[k]
      BY <1>2 DEF Segment
    <2>3. (x + k - 1) + 1 <= Len(file.tail)
      BY <1>1, <2>2
    <2>4. ByteAt(file.deps_off + (x + k - 1)) = file.tail[x + k]
      BY <2>1, <2>3, ByteFound
    <2> QED
      BY <2>1, <2>2, <2>4
  <1> QED
    BY <1>3 DEF Bytes

(* The reader finds a number of the writer at its place in the file.       *)
LEMMA UintFound ==
  ASSUME Holds(file, Told), NEW x \in Nat, NEW v \in Nat, Segment(file.tail, x, Uint(v))
  PROVE  UintAt(file.deps_off + x) = v
  <1>1. Uint(v) \in Seq(Nat) /\ Len(Uint(v)) = 4 /\ UintIn(Uint(v), 1) = v
    BY UintBytes
  <1>2. Uint(v) \in [1..4 -> Nat]
    <2>1. \A s \in Seq(Nat) : s \in [1..Len(s) -> Nat]
      BY LenProperties
    <2> QED
      BY <1>1, <2>1
  <1>3. Bytes(file.deps_off + x, 4) = Uint(v)
    BY <1>2, BytesFound
  <1> QED
    BY <1>1, <1>3 DEF UintAt

(* The reader finds a name that a zero follows.                            *)
LEMMA CStringFound ==
  ASSUME Holds(file, Told), NEW x \in Nat, NEW t \in Seq(1..255),
         Segment(file.tail, x, t), Segment(file.tail, x + Len(t), << 0 >>)
  PROVE  CString(file.deps_off + x) = t
  <1> DEFINE l == Len(t)
             D == file.deps_off
             S == {n \in 0..Len(file.tail) : ByteAt((D + x) + n) \in {0, -1}}
  <1>1. D \in Nat /\ file.tail \in Seq(Nat) /\ Len(file.tail) \in Nat
    <2>1. \A u \in Seq(Nat) : Len(u) \in Nat
      OBVIOUS
    <2> QED
      BY <2>1, HoldsFields
  <1>2. l \in Nat /\ t \in [1..l -> 1..255]
    BY LenProperties
  <1>3. x + l + 1 <= Len(file.tail) /\ file.tail[x + l + 1] = 0
    <2>1. Len(<<0>>) = 1 /\ <<0>>[1] = 0
      OBVIOUS
    <2> QED
      BY <2>1 DEF Segment
  <1> HIDE DEF D, l
  <1>4. \A n \in Nat : /\ (D + x) + n = D + (x + n) /\ x + n \in Nat
                       /\ (x + n) + 1 = x + (n + 1)
    BY <1>1
  <1>5. l \in S
    <2>1. ByteAt(D + (x + l)) = 0
      <3>1. x + l \in Nat /\ (x + l) + 1 <= Len(file.tail) /\ (x + l) + 1 = x + l + 1
        BY <1>1, <1>2, <1>3
      <3> QED
        BY <1>3, <3>1, ByteFound DEF D
    <2>2. l \in 0..Len(file.tail)
      BY <1>1, <1>2, <1>3
    <2> QED
      BY <1>2, <1>4, <2>1, <2>2
  <1>6. ASSUME NEW n \in 0..l - 1
        PROVE  ByteAt((D + x) + n) \in 1..255
    <2>1. n + 1 \in 1..l /\ n \in Nat /\ x + n \in Nat /\ (x + n) + 1 <= Len(file.tail)
          /\ (x + n) + 1 = x + (n + 1)
      BY <1>1, <1>2, <1>3
    <2>2. ByteAt(D + (x + n)) = file.tail[x + (n + 1)]
      BY <2>1, ByteFound DEF D
    <2>3. file.tail[x + (n + 1)] = t[n + 1]
      BY <2>1 DEF Segment, l
    <2>4. t[n + 1] \in 1..255
      BY <1>2, <2>1
    <2> QED
      BY <1>4, <2>1, <2>2, <2>3, <2>4
  <1>7. \A n \in S : l <= n
    <2>1. SUFFICES ASSUME NEW n \in S, n < l PROVE FALSE
      BY <1>1, <1>2
    <2>2. n \in 0..l - 1
      BY <1>2, <2>1
    <2>3. ByteAt((D + x) + n) \in 1..255
      BY <1>6, <2>2
    <2>4. ByteAt((D + x) + n) \in {0, -1}
      BY <2>1
    <2> QED
      BY <2>3, <2>4, NameByte
  <1>8. S \subseteq Nat
    BY <1>1
  <1> HIDE DEF S
  <1>9. Min(S) = l
    <2>1. \A m \in S : (\A y \in S : m <= y) => m = l
      BY <1>2, <1>5, <1>7, <1>8
    <2>2. \E m \in S : \A y \in S : m <= y
      BY <1>5, <1>7
    <2>3. Min(S) \in S /\ \A y \in S : Min(S) <= y
      BY <2>2 DEF Min
    <2> QED
      BY <2>1, <2>3
  <1>10. CString(D + x) = Bytes(D + x, l)
    BY <1>9 DEF CString, S
  <1>11. Bytes(D + x, l) = t
    BY <1>2, BytesFound DEF D, l
  <1> QED
    BY <1>10, <1>11 DEF D

(* Sections that follow each other fit.                                    *)
LEMMA Sizes ==
  ASSUME NEW e \in Nat, NEW l \in Nat, NEW d \in Nat, NEW a \in Nat, NEW z \in Nat,
         e >= 112, d = 40 + e, d + 16 <= a, d + l <= a
  PROVE  /\ ~(a + z < 112) /\ ~(40 + e > a + z) /\ ~(e < 112)
         /\ ~(d + l > a + z) /\ ~(a + z > a + z) /\ ~(a < d)
  OBVIOUS

(* A file that nobody damaged passes the checks of dxc_read_buffer; damage *)
(* outside the bytes that the checksum covers leaves the checksum right.   *)
LEMMA HeaderHolds ==
  ASSUME Holds(file, Told), Told \in OdexData
  PROVE  (file.damage = "none" => ~HeaderFails) /\ ~WrongChecksum
  <1>0. /\ file.dex.off = 40 /\ file.dex.len \in Nat /\ file.dex.len >= 112
        /\ file.deps_off = 40 + file.dex.len /\ file.deps_len \in Nat
        /\ file.deps_off \in Nat /\ file.aux_off \in Nat /\ file.aux_len \in Nat
        /\ file.deps_off + 16 <= file.aux_off
        /\ file.size = file.aux_off + file.aux_len
        /\ Len(file.tail) = file.size - file.deps_off /\ file.tail \in Seq(Nat)
    BY HoldsFields
  <1>1. ASSUME file.damage = "none" PROVE ~HeaderFails
    <2>0. /\ file.dex_off = file.dex.off /\ file.dex_len = file.dex.len
          /\ file.deps_off + file.deps_len <= file.aux_off
      BY <1>1 DEF Holds, Marked
    <2> DEFINE e == file.dex.len
               l == file.deps_len
               d == file.deps_off
               a == file.aux_off
               z == file.aux_len
    <2>1. /\ e \in Nat /\ l \in Nat /\ d \in Nat /\ a \in Nat /\ z \in Nat
          /\ e >= 112 /\ d = 40 + e /\ d + 16 <= a /\ d + l <= a
          /\ file.size = a + z /\ file.dex_off = 40 /\ file.dex_len = e
      BY <1>0, <2>0
    <2>2. /\ ~(file.size < 112) /\ ~(file.dex_off + file.dex_len > file.size)
          /\ ~(file.dex_len < 112) /\ ~(d + l > file.size)
          /\ ~(a + z > file.size) /\ ~(a < d)
      <3> HIDE DEF e, l, d, a, z
      <3> QED
        BY <2>1, Sizes
    <2>7. file.version \in {35, 36}
      BY DataFields DEF Holds
    <2> QED
      BY <2>2, <2>7 DEF HeaderFails
  <1>2. Covered = file.tail
    <2>1. /\ file.deps_off # 0 /\ file.aux_off # 0
          /\ (file.aux_off + file.aux_len) - file.deps_off = Len(file.tail)
          /\ file.tail \in Seq(Nat)
      <3>1. file.deps_off # 0
        BY <1>0
      <3>2. file.aux_off # 0
        BY <1>0
      <3> QED
        BY <1>0, <3>1, <3>2
    <2>2. Covered = Bytes(file.deps_off, Len(file.tail))
      <3>1. Covered = Bytes(file.deps_off, (file.aux_off + file.aux_len) - file.deps_off)
        <4> DEFINE s == IF file.deps_off # 0 THEN file.deps_off ELSE file.aux_off
                   e == IF file.aux_off # 0 THEN file.aux_off + file.aux_len
                        ELSE IF file.deps_off # 0 THEN DepsEnd ELSE 0
        <4>1. s = file.deps_off /\ e = file.aux_off + file.aux_len
          BY <2>1
        <4>2. Covered = Bytes(s, e - s)
          BY DEF Covered
        <4>3. e - s = (file.aux_off + file.aux_len) - file.deps_off
          BY <4>1
        <4> HIDE DEF s, e
        <4>4. Covered = Bytes(s, (file.aux_off + file.aux_len) - file.deps_off)
          BY <4>2, <4>3
        <4> QED
          BY <4>1, <4>4
      <3> QED
        BY <2>1, <3>1
    <2>3. Segment(file.tail, 0, file.tail)
      BY <2>1, SegmentSelf
    <2>4. Len(file.tail) \in Nat /\ file.tail \in [1..Len(file.tail) -> Nat]
      BY <2>1, LenProperties
    <2>5. Bytes(file.deps_off + 0, Len(file.tail)) = file.tail
      BY <2>3, <2>4, BytesFound
    <2>6. file.deps_off + 0 = file.deps_off
      BY HoldsFields
    <2> QED
      BY <2>2, <2>5, <2>6
  <1>3. ~WrongChecksum
    BY <1>2 DEF WrongChecksum, Holds
  <1> QED
    BY <1>1, <1>3

-----------------------------------------------------------------------------
(* What the reader filled after k dependencies and some chunks.            *)
ReadSoFar(m, k, lookup, maps) ==
  [odex_version |-> m.odex_version, flags |-> m.flags, dex_mod_time |-> m.dex_mod_time, dex_crc |-> m.dex_crc,
   vm_version |-> m.vm_version, deps |-> SubSeq(m.deps, 1, k), aux_format |-> FORMAT_NEW,
   has_class_lookup |-> lookup, has_register_maps |-> maps]

AtStart == rd = Closed /\ read = EmptyData

AtDeps ==
  /\ rd = [at |-> "deps", off |-> 0, left |-> 0]
  /\ read = [EmptyData EXCEPT !.odex_version = Told.odex_version, !.flags = Told.flags]

AtDep ==
  \E P, len : \E k \in 0..Len(Told.deps) :
    /\ ListAt(P, len, file, Told) /\ P[k] <= file.deps_len
    /\ rd = [at |-> "dep", off |-> file.deps_off + P[k], left |-> Len(Told.deps) - k]
    /\ read = ReadSoFar(Told, k, FALSE, FALSE)

AtAux ==
  /\ \E o : rd = [at |-> "aux", off |-> o, left |-> 0]
  /\ read = ReadSoFar(Told, Len(Told.deps), FALSE, FALSE)

AtChunk ==
  /\ Told.aux_format = FORMAT_NEW
  /\ \E c, Q : \E k \in 0..Len(c) :
       /\ ChunksAt(Q, c, file.tail, file.aux_off - file.deps_off, Told)
       /\ rd = [at |-> "chunk", off |-> file.deps_off + Q[k], left |-> 0]
       /\ read = ReadSoFar(Told, Len(Told.deps), HasChunk(c, k, AUX_CLASS_LOOKUP),
                           HasChunk(c, k, AUX_REGISTER_MAPS))

ReadTold == read = [Told EXCEPT !.has_class_lookup = @ \/ Told.aux_format = FORMAT_OLD]

AtDex == (\E o : rd = [at |-> "dex", off |-> o, left |-> 0]) /\ ReadTold

AtEnd ==
  /\ \E o : rd = [at |-> "accepted", off |-> o, left |-> 0]
  /\ file.damage \in {"none"} \cup Unnoticed
  /\ ReadTold

ReadDeps == Seq([name : Seq(1..255), sha : Seq(0..255)])

AtReject ==
  /\ rd.at = "rejected" /\ rd.left \in Nat
  /\ file.damage # "none" /\ read.deps \in ReadDeps

Writing ==
  /\ file = NoFile /\ rd = Closed /\ read = EmptyData
  /\ meta \in OdexData /\ ~meta.has_register_maps
  /\ dex_sz \in Nat /\ dex_sz >= 112
  /\ IndInv /\ ZeroInv

(* The file tells the OdexData it was written from, but for damaged flags  *)
(* or a damaged version.                                                   *)
Telling ==
  /\ meta \in OdexData /\ Told \in OdexData /\ Holds(file, Told)
  /\ file.damage # "flags" => file.flags = meta.flags
  /\ file.damage # "version" => file.version = meta.odex_version

Reading ==
  /\ Telling
  /\ AtStart \/ AtDeps \/ AtDep \/ AtAux \/ AtChunk \/ AtDex \/ AtEnd \/ AtReject

Damaged ==
  /\ file \in OdexFiles /\ file.damage # "none"
  /\ HeaderFails \/ WrongChecksum
  /\ read = EmptyData
  /\ rd = Closed \/ rd = [at |-> "rejected", off |-> 0, left |-> 0]

OdexInv == Writing \/ Reading \/ Damaged

(* A dependency stored at p of the section ends at q, as the reader sees   *)
(* it; the list that it finds starts its dependencies at Q.                *)
DepEntry(f, p, q) ==
  LET ln == UintIn(f.tail, p + 1)
  IN  /\ p + 4 <= f.deps_len
      /\ q = p + ln + 24 /\ q <= f.deps_len
      /\ f.tail[p + ln + 4] = 0
Count(f) == UintIn(f.tail, 13)
Chain(f, Q, k) ==
  /\ f.deps_len >= 16
  /\ Q \in [0..k -> Nat] /\ Q[0] = 16
  /\ \A j \in 1..k : DepEntry(f, Q[j - 1], Q[j])

(* A section that holds no list of dependencies: it is too short, or one   *)
(* of its lengths leads out of it or not to a zero.                        *)
Listless(f) ==
  /\ f \in OdexFiles /\ Sections(f) /\ f.damage # "none"
  /\ f.tail \in Seq(0..255) /\ f.deps_len <= Len(f.tail)
  /\ ~\E Q : Chain(f, Q, Count(f))

(* A file of another writer holds what it should, or no list of            *)
(* dependencies.                                                           *)
HoldsWhatItShould(f) ==
  /\ f.meta \in OdexData
  /\ \E sz \in Nat : \E aux :
       /\ sz >= 112 /\ AuxData(f.meta, aux)
       /\ \/ f.file = Pack(f.meta, sz, write_deps(f.meta), aux)
          \/ f.file = [Pack(f.meta, sz, write_deps(f.meta), aux) EXCEPT !.crc = NoChecksum]
ForeignHolds == \A f \in Foreign : HoldsWhatItShould(f) \/ Listless(f.file)

(* It makes no difference to a file that it has no checksum.               *)
LEMMA NoChecksumHolds ==
  ASSUME NEW f, NEW m, Holds(f, m)
  PROVE  Holds([f EXCEPT !.crc = NoChecksum], m)
  <1> DEFINE g == [f EXCEPT !.crc = NoChecksum]
  <1>1. f \in OdexFiles
    BY DEF Holds
  <1>2. NoChecksum \in Seq(Int)
    BY DEF NoChecksum
  <1>3. g \in OdexFiles
    BY <1>1, <1>2 DEF OdexFiles
  <1>4. /\ g.dex_off = f.dex_off /\ g.dex_len = f.dex_len /\ g.deps_off = f.deps_off
        /\ g.deps_len = f.deps_len /\ g.aux_off = f.aux_off /\ g.aux_len = f.aux_len
        /\ g.flags = f.flags /\ g.crc = NoChecksum /\ g.tail = f.tail /\ g.size = f.size
        /\ g.damage = f.damage /\ g.version = f.version /\ g.dex = f.dex
    BY <1>1 DEF OdexFiles
  <1> HIDE DEF g
  <1>5. Sections(g) /\ Marked(g) /\ \E P, len : ListAt(P, len, g, m)
    <2>1. Sections(g) /\ Marked(g)
      BY <1>4 DEF Holds, Sections, Marked
    <2>2. PICK P, len : ListAt(P, len, f, m)
      BY DEF Holds
    <2>3. ListAt(P, len, g, m)
      BY <1>4, <2>2 DEF ListAt
    <2> QED
      BY <2>1, <2>3
  <1>6. Holds(g, m)
    BY <1>3, <1>4, <1>5 DEF Holds
  <1> QED
    BY <1>6 DEF g

(* The OdexData is the record of its fields.                               *)
LEMMA DataRecord ==
  ASSUME NEW m \in OdexData
  PROVE  m = [odex_version |-> m.odex_version, flags |-> m.flags,
              dex_mod_time |-> m.dex_mod_time,
              dex_crc |-> m.dex_crc, vm_version |-> m.vm_version,
              deps |-> m.deps, aux_format |-> m.aux_format,
              has_class_lookup |-> m.has_class_lookup,
              has_register_maps |-> m.has_register_maps]
  <1>1. \A V, A, D, F, B :
          \A r \in [odex_version : V, flags : A, dex_mod_time : A, dex_crc : A,
                    vm_version : A, deps : D,
                    aux_format : F, has_class_lookup : B, has_register_maps : B] :
            r = [odex_version |-> r.odex_version, flags |-> r.flags,
                 dex_mod_time |-> r.dex_mod_time,
                 dex_crc |-> r.dex_crc, vm_version |-> r.vm_version,
                 deps |-> r.deps, aux_format |-> r.aux_format,
                 has_class_lookup |-> r.has_class_lookup,
                 has_register_maps |-> r.has_register_maps]
    OBVIOUS
  <1> QED
    BY <1>1 DEF OdexData

(* What a file tells is an OdexData with the flags and the version of the  *)
(* file.                                                                   *)
LEMMA ToldFields ==
  ASSUME NEW m \in OdexData, NEW f, f.flags \in Nat, f.version \in {35, 36}
  PROVE  /\ ToldBy(m, f) \in OdexData
         /\ ToldBy(m, f).flags = f.flags /\ ToldBy(m, f).odex_version = f.version
         /\ ToldBy(m, f).dex_mod_time = m.dex_mod_time
         /\ ToldBy(m, f).dex_crc = m.dex_crc /\ ToldBy(m, f).vm_version = m.vm_version
         /\ ToldBy(m, f).deps = m.deps /\ ToldBy(m, f).aux_format = m.aux_format
         /\ ToldBy(m, f).has_class_lookup = m.has_class_lookup
         /\ ToldBy(m, f).has_register_maps = m.has_register_maps
  <1> DEFINE D == Seq([name : Seq(1..255), sha : [1..20 -> 0..255]])
             V == {35, 36}
             F == {FORMAT_NEW, FORMAT_OLD}
             B == BOOLEAN
  <1>1. OdexData = [odex_version : V, flags : Nat, dex_mod_time : Nat, dex_crc : Nat,
                    vm_version : Nat, deps : D, aux_format : F,
                    has_class_lookup : B, has_register_maps : B]
    BY DEF OdexData
  <1>2. f.version \in V
    OBVIOUS
  <1>3. ToldBy(m, f) = [m EXCEPT !.flags = f.flags, !.odex_version = f.version]
    BY DEF ToldBy
  <1> HIDE DEF D, V, F, B
  <1> DEFINE x == f.flags
             v == f.version
             t == ToldBy(m, f)
  <1>4. x \in Nat /\ v \in V /\ t = [m EXCEPT !.flags = x, !.odex_version = v]
    BY <1>2, <1>3
  <1> HIDE DEF x, v, t
  <1>5. /\ t \in OdexData /\ t.flags = x /\ t.odex_version = v
        /\ t.dex_mod_time = m.dex_mod_time /\ t.dex_crc = m.dex_crc
        /\ t.vm_version = m.vm_version /\ t.deps = m.deps
        /\ t.aux_format = m.aux_format /\ t.has_class_lookup = m.has_class_lookup
        /\ t.has_register_maps = m.has_register_maps
    BY <1>1, <1>4
  <1> QED
    BY <1>5 DEF x, v, t

(* A file with the flags and the version of the OdexData tells that.       *)
LEMMA ToldSame ==
  ASSUME NEW m \in OdexData, NEW f, f.flags = m.flags, f.version = m.odex_version
  PROVE  ToldBy(m, f) = m
  <1>1. f.flags \in Nat /\ f.version \in {35, 36}
    BY DataFields
  <1> DEFINE t == ToldBy(m, f)
  <1>2. /\ t \in OdexData /\ t.flags = m.flags /\ t.odex_version = m.odex_version
        /\ t.dex_mod_time = m.dex_mod_time /\ t.dex_crc = m.dex_crc
        /\ t.vm_version = m.vm_version /\ t.deps = m.deps
        /\ t.aux_format = m.aux_format /\ t.has_class_lookup = m.has_class_lookup
        /\ t.has_register_maps = m.has_register_maps
    BY <1>1, ToldFields
  <1> HIDE DEF t
  <1>3. t = [odex_version |-> t.odex_version, flags |-> t.flags,
             dex_mod_time |-> t.dex_mod_time, dex_crc |-> t.dex_crc,
             vm_version |-> t.vm_version, deps |-> t.deps, aux_format |-> t.aux_format,
             has_class_lookup |-> t.has_class_lookup,
             has_register_maps |-> t.has_register_maps]
    BY <1>2, DataRecord
  <1>4. m = [odex_version |-> m.odex_version, flags |-> m.flags,
             dex_mod_time |-> m.dex_mod_time, dex_crc |-> m.dex_crc,
             vm_version |-> m.vm_version, deps |-> m.deps, aux_format |-> m.aux_format,
             has_class_lookup |-> m.has_class_lookup,
             has_register_maps |-> m.has_register_maps]
    BY DataRecord
  <1>5. t = m
    BY <1>2, <1>3, <1>4
  <1> QED
    BY <1>5 DEF t

(* The invariant holds before anything is written, and for the files of    *)
(* other writers.                                                          *)
LEMMA OdexStart ==
  ASSUME InitOdex, ForeignHolds
  PROVE  OdexInv \/ \E f \in Foreign : file = f.file /\ Listless(file)
  <1>1. CASE Init /\ file = NoFile
             /\ \E x \in Inputs : classes = x[1] /\ meta = x[2] /\ dex_sz = x[3]
    <2>1. IndInv /\ ZeroInv
      BY <1>1, InitIndInv DEF Init, ZeroInv
    <2>2. meta \in OdexData /\ ~meta.has_register_maps /\ dex_sz \in Nat /\ dex_sz >= 112
      BY <1>1, InputsAssumption
    <2> QED
      BY <1>1, <2>1, <2>2 DEF InitOdex, OdexInv, Writing
  <1>2. CASE \E f \in Foreign : /\ meta = f.meta /\ file = f.file
                               /\ HoldsWhatItShould(f)
    <2>1. PICK f \in Foreign : meta = f.meta /\ file = f.file /\ HoldsWhatItShould(f)
      BY <1>2
    <2>2. PICK sz \in Nat : \E aux :
            /\ sz >= 112 /\ AuxData(f.meta, aux)
            /\ \/ f.file = Pack(f.meta, sz, write_deps(f.meta), aux)
               \/ f.file = [Pack(f.meta, sz, write_deps(f.meta), aux) EXCEPT !.crc = NoChecksum]
      BY <2>1 DEF HoldsWhatItShould
    <2>3. PICK aux :
            /\ sz >= 112 /\ AuxData(f.meta, aux)
            /\ \/ f.file = Pack(f.meta, sz, write_deps(f.meta), aux)
               \/ f.file = [Pack(f.meta, sz, write_deps(f.meta), aux) EXCEPT !.crc = NoChecksum]
      BY <2>2
    <2>4. f.meta \in OdexData
      BY <2>1 DEF HoldsWhatItShould
    <2>5. Holds(Pack(f.meta, sz, write_deps(f.meta), aux), f.meta)
      BY <2>3, <2>4, PackHolds
    <2>6. Holds(f.file, f.meta)
      BY <2>3, <2>5, NoChecksumHolds
    <2>7. Telling
      <3>1. Holds(file, meta) /\ meta \in OdexData
        BY <2>1, <2>4, <2>6
      <3>2. file.flags = meta.flags /\ file.version = meta.odex_version
        BY <3>1 DEF Holds
      <3>3. Told = meta
        BY <3>1, <3>2, ToldSame DEF Told
      <3> QED
        BY <3>1, <3>2, <3>3 DEF Telling
    <2> QED
      BY <2>7 DEF InitOdex, OdexInv, Reading, AtStart
  <1> QED
    BY <1>1, <1>2 DEF InitOdex, ForeignHolds

(* Filling the class lookup leaves the OdexData and the reader alone.      *)
LEMMA BuildStep ==
  ASSUME OdexInv, BuildTable
  PROVE  OdexInv'
  <1>1. file = NoFile /\ [Next]_vars /\ UNCHANGED odexVars
    BY DEF BuildTable
  <1>2. Writing
    <2>1. NoFile \notin OdexFiles
      <3>1. \A f \in OdexFiles : "tail" \in DOMAIN f
        BY DEF OdexFiles
      <3>2. "tail" \notin DOMAIN NoFile
        BY DEF NoFile
      <3> QED
        BY <3>1, <3>2
    <2> QED
      BY <1>1, <2>1 DEF OdexInv, Reading, Telling, Damaged, Holds
  <1>3. IndInv' /\ ZeroInv'
    BY <1>1, <1>2, NextIndInv DEF Writing
  <1> QED
    BY <1>1, <1>2, <1>3 DEF OdexInv, Writing, odexVars

(* The file that dxc_write_file lays out holds its OdexData.               *)
LEMMA WriteStep ==
  ASSUME OdexInv, WriteOdex
  PROVE  OdexInv'
  <1>1. file = NoFile
    BY DEF WriteOdex
  <1>2. Writing
    <2>1. NoFile \notin OdexFiles
      <3>1. \A f \in OdexFiles : "tail" \in DOMAIN f
        BY DEF OdexFiles
      <3>2. "tail" \notin DOMAIN NoFile
        BY DEF NoFile
      <3> QED
        BY <3>1, <3>2
    <2> QED
      BY <1>1, <2>1 DEF OdexInv, Reading, Telling, Damaged, Holds
  <1>3. AuxData(meta, write_aux(meta))
    BY <1>2, AuxWritten DEF Writing, IndInv, WriteOdex
  <1>4. Holds(Pack(meta, dex_sz, write_deps(meta), write_aux(meta)), meta)
    BY <1>2, <1>3, PackHolds DEF Writing
  <1>5. Holds(file', meta)
    BY <1>4 DEF WriteOdex
  <1>6. meta' = meta /\ rd' = rd /\ read' = read /\ meta \in OdexData
    BY <1>2 DEF WriteOdex, Writing
  <1>7. file'.flags = meta.flags /\ file'.version = meta.odex_version
    BY <1>5 DEF Holds
  <1>8. Told' = meta
    BY <1>6, <1>7, ToldSame DEF Told
  <1>9. Telling'
    BY <1>5, <1>6, <1>7, <1>8 DEF Telling, OdexData
  <1> QED
    BY <1>2, <1>6, <1>9 DEF OdexInv, Reading, AtStart, Writing, Closed, EmptyData
-----------------------------------------------------------------------------
(* Where the reader is, by what it is doing.                               *)
LEMMA ReaderPlace ==
  /\ AtStart => rd.at = "closed"
  /\ AtDeps => rd.at = "deps"
  /\ AtDep => rd.at = "dep"
  /\ AtAux => rd.at = "aux"
  /\ AtChunk => rd.at = "chunk"
  /\ AtDex => rd.at = "dex"
  /\ AtEnd => rd.at = "accepted"
  /\ AtReject => rd.at = "rejected"
  <1>1. AtStart => rd.at = "closed"
    BY DEF AtStart, Closed
  <1>2. AtDeps => rd.at = "deps"
    BY DEF AtDeps
  <1>3. ASSUME AtDep PROVE rd.at = "dep"
    <2>1. PICK o, l : rd = [at |-> "dep", off |-> o, left |-> l]
      BY <1>3, Zenon DEF AtDep
    <2> QED
      BY <2>1
  <1>4. ASSUME AtAux PROVE rd.at = "aux"
    <2>1. PICK o : rd = [at |-> "aux", off |-> o, left |-> 0]
      BY <1>4, Zenon DEF AtAux
    <2> QED
      BY <2>1
  <1>5. ASSUME AtChunk PROVE rd.at = "chunk"
    <2>1. PICK o : rd = [at |-> "chunk", off |-> o, left |-> 0]
      BY <1>5, Zenon DEF AtChunk
    <2> QED
      BY <2>1
  <1>6. ASSUME AtEnd PROVE rd.at = "accepted"
    <2>1. PICK o : rd = [at |-> "accepted", off |-> o, left |-> 0]
      BY <1>6, Zenon DEF AtEnd
    <2> QED
      BY <2>1
  <1>7. ASSUME AtDex PROVE rd.at = "dex"
    <2>1. PICK o : rd = [at |-> "dex", off |-> o, left |-> 0]
      BY <1>7, Zenon DEF AtDex
    <2> QED
      BY <2>1
  <1>8. AtReject => rd.at = "rejected"
    BY DEF AtReject
  <1> QED
    BY <1>1, <1>2, <1>3, <1>4, <1>5, <1>6, <1>7, <1>8

(* A file that may still be damaged is as it was written, has a checksum,  *)
(* and nobody reads it.                                                    *)
LEMMA WrittenFile ==
  ASSUME OdexInv, Written
  PROVE  /\ meta \in OdexData /\ Holds(file, meta) /\ Told = meta /\ file \in OdexFiles
         /\ rd = Closed /\ read = EmptyData /\ file.crc = file.tail
         /\ file.damage = "none" /\ file.flags = meta.flags
         /\ file.version = meta.odex_version
  <1>1. file # NoFile /\ rd = Closed /\ file.damage = "none" /\ file.crc # NoChecksum
    BY DEF Written
  <1>2. Reading
    <2>1. ~Writing
      BY <1>1 DEF Writing
    <2>2. ~Damaged
      BY <1>1 DEF Damaged
    <2> QED
      BY <2>1, <2>2 DEF OdexInv
  <1>3. rd.at = "closed"
    BY <1>1 DEF Closed
  <1>4. AtStart
    <2>1. /\ rd.at # "deps" /\ rd.at # "dep" /\ rd.at # "aux" /\ rd.at # "dex"
          /\ rd.at # "chunk" /\ rd.at # "accepted" /\ rd.at # "rejected"
      BY <1>3
    <2> QED
      BY <1>2, <2>1, ReaderPlace DEF Reading
  <1>5. meta \in OdexData /\ file.flags = meta.flags /\ file.version = meta.odex_version
    BY <1>1, <1>2 DEF Reading, Telling
  <1>6. Told = meta
    BY <1>5, ToldSame DEF Told
  <1>7. Holds(file, meta)
    BY <1>2, <1>6 DEF Reading, Telling
  <1> QED
    BY <1>1, <1>4, <1>5, <1>6, <1>7 DEF AtStart, Holds

(* Where the sections of such a file are.                                  *)
LEMMA WrittenPlaces ==
  ASSUME OdexInv, Written
  PROVE  /\ file.deps_off \in Nat /\ file.aux_off \in Nat /\ file.aux_len \in Nat
         /\ file.deps_off >= 152 /\ file.deps_off + 16 <= file.aux_off
         /\ file.aux_len >= 4 /\ file.size = file.aux_off + file.aux_len
         /\ file.tail \in Seq(Nat) /\ Len(file.tail) \in Nat
         /\ Len(file.tail) = (file.aux_off + file.aux_len) - file.deps_off
         /\ file.dex.off = 40 /\ file.dex.len \in Nat /\ file.deps_off = 40 + file.dex.len
  <1>1. Holds(file, Told)
    BY WrittenFile
  <1>2. file.dex.len \in Nat /\ file.dex.len >= 112 /\ file.deps_off = 40 + file.dex.len
    BY <1>1, HoldsFields
  <1>3. \A e, d \in Nat : e >= 112 /\ d = 40 + e => d >= 152
    OBVIOUS
  <1>4. \A u \in Seq(Nat) : Len(u) \in Nat
    OBVIOUS
  <1> QED
    BY <1>1, <1>2, <1>3, <1>4, HoldsFields

(* Damage that the header or the checksum betrays.                         *)
LEMMA NowDamaged ==
  ASSUME OdexInv, Written, UNCHANGED <<rd, read>>, file' \in OdexFiles,
         file'.damage # "none", HeaderFails' \/ WrongChecksum'
  PROVE  OdexInv'
  <1>1. rd' = Closed /\ read' = EmptyData
    BY WrittenFile
  <1> QED
    BY <1>1 DEF OdexInv, Damaged, Closed, EmptyData

(* What a file holds does not depend on what the checksum does not cover.  *)
LEMMA HoldsOther ==
  ASSUME NEW f, NEW g \in OdexFiles, NEW m, NEW w, Holds(f, m), f.damage = "none", Marked(g),
         g.dex.off = f.dex.off, g.dex.len = f.dex.len, g.deps_off = f.deps_off,
         g.aux_off = f.aux_off, g.aux_len = f.aux_len, g.size = f.size, g.tail = f.tail,
         g.crc = g.tail \/ g.crc = NoChecksum,
         g.damage # "deps_len" => g.deps_len = f.deps_len,
         w.flags = g.flags, w.odex_version = g.version,
         w.dex_mod_time = m.dex_mod_time, w.dex_crc = m.dex_crc,
         w.vm_version = m.vm_version, w.deps = m.deps, w.aux_format = m.aux_format,
         w.has_class_lookup = m.has_class_lookup, w.has_register_maps = m.has_register_maps
  PROVE  Holds(g, w)
  <1>1. Sections(g)
    BY DEF Holds, Sections
  <1>2. \E P, len : ListAt(P, len, g, w)
    <2>1. PICK P, len : ListAt(P, len, f, m)
      BY DEF Holds
    <2>2. DepsAt(P, f.tail, len, m) /\ len \in Nat /\ len >= 16
          /\ f.deps_off + len <= f.aux_off /\ f.deps_len = len
      BY <2>1 DEF ListAt
    <2>3. DepsAt(P, g.tail, len, w)
      BY <2>2 DEF DepsAt
    <2>4. ListAt(P, len, g, w)
      BY <2>2, <2>3 DEF ListAt
    <2> QED
      BY <2>4
  <1>3. AuxAt(g.tail, g.aux_off - g.deps_off, w)
    <2>1. AuxAt(g.tail, g.aux_off - g.deps_off, m)
      BY DEF Holds
    <2>2. \A Q, c, t, b : ChunksAt(Q, c, t, b, m) => ChunksAt(Q, c, t, b, w)
      BY DEF ChunksAt
    <2> QED
      BY <2>1, <2>2 DEF AuxAt
  <1> QED
    BY <1>1, <1>2, <1>3 DEF Holds

(* Damage that neither betrays.                                            *)
LEMMA NowMarked ==
  ASSUME OdexInv, Written, UNCHANGED <<meta, rd, read>>, file' \in OdexFiles,
         Marked(file'), file'.damage # "none",
         file'.dex.off = file.dex.off, file'.dex.len = file.dex.len,
         file'.deps_off = file.deps_off, file'.aux_off = file.aux_off,
         file'.aux_len = file.aux_len, file'.size = file.size, file'.tail = file.tail,
         file'.crc = file.tail \/ file'.crc = NoChecksum,
         file'.damage # "deps_len" => file'.deps_len = file.deps_len,
         file'.damage # "flags" => file'.flags = file.flags,
         file'.damage # "version" => file'.version = file.version,
         file'.version \in {35, 36}
  PROVE  OdexInv'
  <1>1. /\ meta \in OdexData /\ Holds(file, meta) /\ rd = Closed /\ read = EmptyData
        /\ file.damage = "none" /\ file.flags = meta.flags
        /\ file.version = meta.odex_version
    BY WrittenFile
  <1> DEFINE g == file'
             w == ToldBy(meta, g)
  <1>2. g.flags \in Nat
    BY DEF OdexFiles
  <1>3. /\ w \in OdexData /\ w.flags = g.flags /\ w.odex_version = g.version
        /\ w.dex_mod_time = meta.dex_mod_time /\ w.dex_crc = meta.dex_crc
        /\ w.vm_version = meta.vm_version /\ w.deps = meta.deps
        /\ w.aux_format = meta.aux_format
        /\ w.has_class_lookup = meta.has_class_lookup
        /\ w.has_register_maps = meta.has_register_maps
    BY <1>1, <1>2, ToldFields
  <1>4. w = Told'
    BY DEF Told, ToldBy
  <1> HIDE DEF w
  <1>5. g \in OdexFiles /\ Marked(g) /\ (g.crc = g.tail \/ g.crc = NoChecksum)
    OBVIOUS
  <1>6. /\ g.dex.off = file.dex.off /\ g.dex.len = file.dex.len
        /\ g.deps_off = file.deps_off /\ g.aux_off = file.aux_off
        /\ g.aux_len = file.aux_len /\ g.size = file.size /\ g.tail = file.tail
        /\ g.damage # "deps_len" => g.deps_len = file.deps_len
    OBVIOUS
  <1>7. Holds(g, w)
    <2> HIDE DEF g
    <2> QED
      BY <1>1, <1>3, <1>5, <1>6, HoldsOther
  <1>8. Telling'
    <2>1. /\ file'.damage # "flags" => file'.flags = meta.flags
          /\ file'.damage # "version" => file'.version = meta.odex_version
      BY <1>1
    <2>2. meta' = meta /\ Told' \in OdexData /\ Holds(file', Told')
      BY <1>3, <1>4, <1>7
    <2>3. OdexData' = OdexData
      BY DEF OdexData
    <2> QED
      BY <1>1, <2>1, <2>2, <2>3 DEF Telling
  <1>9. AtStart'
    BY <1>1 DEF AtStart, Closed, EmptyData
  <1> QED
    BY <1>8, <1>9 DEF OdexInv, Reading

(* A prefix of the file is a damaged file that the header betrays.         *)
LEMMA CutStep ==
  ASSUME OdexInv, Cut
  PROVE  OdexInv'
  <1>1. Written /\ file \in OdexFiles /\ UNCHANGED <<rd, read>>
    BY WrittenFile DEF Cut
  <1>2. PICK n \in 0..file.size - 1 :
          file' = [file EXCEPT !.size = n, !.damage = "cut",
                               !.tail = SubSeq(file.tail, 1, n - file.deps_off)]
    BY Zenon DEF Cut
  <1>3. /\ file.deps_off \in Nat /\ file.aux_off \in Nat /\ file.aux_len \in Nat
        /\ file.deps_off >= 152 /\ file.deps_off + 16 <= file.aux_off
        /\ file.size = file.aux_off + file.aux_len
        /\ file.tail \in Seq(Nat)
        /\ Len(file.tail) = (file.aux_off + file.aux_len) - file.deps_off
    BY <1>1, WrittenPlaces
  <1>4. n \in Int /\ n < file.size /\ n - file.deps_off <= Len(file.tail)
        /\ n - file.deps_off \in Int
    <2>1. \A d, a, l, x \in Int :
            x < a + l => x - d <= (a + l) - d /\ x - d \in Int
      OBVIOUS
    <2>2. n \in Int /\ n < file.size
      BY <1>3
    <2>3. file.deps_off \in Int /\ file.aux_off \in Int /\ file.aux_len \in Int
      BY <1>3
    <2> QED
      BY <1>3, <2>1, <2>2, <2>3
  <1>5. SubSeq(file.tail, 1, n - file.deps_off) \in Seq(Nat)
    <2>1. \A s \in Seq(Nat), k \in Int : k <= Len(s) => SubSeq(s, 1, k) \in Seq(Nat)
      OBVIOUS
    <2> QED
      BY <1>3, <1>4, <2>1
  <1>6. file' \in OdexFiles /\ file'.damage # "none" /\ file'.size = n
        /\ file'.aux_off = file.aux_off /\ file'.aux_len = file.aux_len
    BY <1>1, <1>2, <1>4, <1>5 DEF OdexFiles, Damages
  <1>7. HeaderFails'
    <2>1. file'.aux_off # 0 /\ file'.aux_off + file'.aux_len > file'.size
      BY <1>3, <1>4, <1>6
    <2> QED
      BY <2>1 DEF HeaderFails
  <1> QED
    BY <1>1, <1>6, <1>7, NowDamaged

(* A changed byte behind the dex file is a damage that the checksum        *)
(* betrays.                                                                *)
LEMMA CorruptTailStep ==
  ASSUME OdexInv, CorruptTail
  PROVE  OdexInv'
  <1>1. /\ Written /\ file \in OdexFiles /\ file.crc = file.tail /\ file.crc # NoChecksum
        /\ UNCHANGED <<rd, read>>
    BY WrittenFile DEF CorruptTail, Written
  <1>2. PICK k \in DOMAIN file.tail : \E v \in Values \cap 0..255 :
          /\ v # file.tail[k]
          /\ file' = [file EXCEPT !.tail[k] = v, !.damage = "tail"]
    BY Zenon DEF CorruptTail
  <1>3. PICK v \in 0..255 :
          /\ v # file.tail[k]
          /\ file' = [file EXCEPT !.tail[k] = v, !.damage = "tail"]
    BY <1>2, Zenon
  <1>4. /\ file.deps_off \in Nat /\ file.aux_off \in Nat /\ file.aux_len \in Nat
        /\ file.deps_off >= 152 /\ file.deps_off + 16 <= file.aux_off
        /\ file.tail \in Seq(Nat) /\ Len(file.tail) \in Nat
        /\ Len(file.tail) = (file.aux_off + file.aux_len) - file.deps_off
        /\ file.dex.off = 40 /\ file.dex.len \in Nat /\ file.deps_off = 40 + file.dex.len
    BY <1>1, WrittenPlaces
  <1> DEFINE L == Len(file.tail)
             t == [file.tail EXCEPT ![k] = v]
  <1>5. k \in 1..L /\ v \in Nat
    BY <1>4, ByteIsNat
  <1>6. t \in Seq(Nat) /\ Len(t) = L /\ t[k] = v
    <2>1. \A s \in Seq(Nat), j, x \in Nat :
            j \in 1..Len(s) => /\ [s EXCEPT ![j] = x] \in Seq(Nat)
                               /\ Len([s EXCEPT ![j] = x]) = Len(s)
                               /\ [s EXCEPT ![j] = x][j] = x
      OBVIOUS
    <2>2. k \in Nat
      BY <1>5
    <2> QED
      BY <1>4, <1>5, <2>1, <2>2
  <1>7. file' = [file EXCEPT !.tail = t, !.damage = "tail"]
    BY <1>1, <1>3 DEF OdexFiles
  <1> HIDE DEF t
  <1>8. /\ file' \in OdexFiles /\ file'.damage # "none" /\ file'.tail = t
        /\ file'.dex = file.dex
        /\ file'.deps_off = file.deps_off
        /\ file'.aux_off = file.aux_off /\ file'.aux_len = file.aux_len
        /\ file'.crc = file.crc
    BY <1>1, <1>6, <1>7 DEF OdexFiles, Damages
  <1>9. Covered' # file.tail
    <2> DEFINE o == file.deps_off
               n == (file.aux_off + file.aux_len) - o
               B(x) == LET y == x - (file'.dex.off + file'.dex.len) + 1
                       IN  IF y \in DOMAIN file'.tail THEN file'.tail[y] ELSE -1
    <2>1. file'.deps_off = o /\ o # 0 /\ file'.aux_off # 0
          /\ (file'.aux_off + file'.aux_len) - o = n /\ n = L
      <3>1. o # 0 /\ file.aux_off # 0
        <4>1. \A x, y \in Nat : x >= 152 /\ x + 16 <= y => x # 0 /\ y # 0
          OBVIOUS
        <4> QED
          BY <1>4, <4>1
      <3> QED
        BY <1>4, <1>8, <3>1
    <2>2. Covered'[k] = B(o + k - 1)
      <3> DEFINE s == IF file'.deps_off # 0 THEN file'.deps_off ELSE file'.aux_off
                 e == IF file'.aux_off # 0 THEN file'.aux_off + file'.aux_len
                      ELSE IF file'.deps_off # 0 THEN DepsEnd' ELSE 0
      <3>1. s = o /\ e = file'.aux_off + file'.aux_len
        BY <2>1
      <3>2. Covered' = [j \in 1..e - s |-> B(s + j - 1)]
        BY DEF Covered, Bytes, ByteAt
      <3>3. e - s = n
        BY <2>1, <3>1
      <3> HIDE DEF s, e, o, n, B
      <3>4. Covered' = [j \in 1..n |-> B(o + j - 1)]
        BY <2>1, <3>1, <3>2, <3>3
      <3>5. k \in 1..n
        BY <1>5, <2>1
      <3> QED
        BY <3>4, <3>5
    <2>3. B(o + k - 1) = t[k]
      <3>1. (o + k - 1) - (file'.dex.off + file'.dex.len) + 1 = k
        <4>1. \A x, y, z \in Nat : (x + y - 1) - x + 1 = y
          OBVIOUS
        <4>2. k \in Nat /\ o \in Nat
          BY <1>4, <1>5
        <4>3. file'.dex.off + file'.dex.len = o
          BY <1>4, <1>8
        <4> HIDE DEF o
        <4> QED
          BY <4>1, <4>2, <4>3
      <3>2. k \in DOMAIN file'.tail
        BY <1>5, <1>6, <1>8
      <3>3. B(o + k - 1) = file'.tail[k]
        BY <3>1, <3>2
      <3> QED
        BY <1>8, <3>3
    <2> QED
      BY <1>3, <1>6, <2>2, <2>3
  <1>10. WrongChecksum'
    <2>1. file'.crc # NoChecksum /\ Covered' # file'.crc
      BY <1>1, <1>8, <1>9
    <2> QED
      BY <2>1 DEF WrongChecksum, NoChecksum
  <1> QED
    BY <1>1, <1>8, <1>10, NowDamaged

(* A changed byte of the dex file shows when the dex file is read.         *)
LEMMA CorruptDexStep ==
  ASSUME OdexInv, CorruptDex
  PROVE  OdexInv'
  <1>1. Written /\ UNCHANGED <<meta, rd, read>>
    BY DEF CorruptDex
  <1>2. /\ meta \in OdexData /\ file \in OdexFiles /\ file.crc = file.tail
        /\ file.version = meta.odex_version
    BY <1>1, WrittenFile
  <1>3. file' = [file EXCEPT !.dex = [file.dex EXCEPT !.ok = FALSE], !.damage = "dex"]
    BY <1>2 DEF CorruptDex, OdexFiles
  <1>4. file.dex \in [off : Nat, len : Nat, ok : BOOLEAN]
    BY <1>2 DEF OdexFiles
  <1> DEFINE d == [file.dex EXCEPT !.ok = FALSE]
  <1>5. /\ d \in [off : Nat, len : Nat, ok : BOOLEAN]
        /\ d.off = file.dex.off /\ d.len = file.dex.len /\ d.ok = FALSE
    BY <1>4
  <1> HIDE DEF d
  <1>6. file' = [file EXCEPT !.dex = d, !.damage = "dex"]
    BY <1>3 DEF d
  <1>7. /\ file' \in OdexFiles /\ file'.damage = "dex" /\ file'.dex = d
        /\ file'.deps_off = file.deps_off /\ file'.aux_off = file.aux_off
        /\ file'.aux_len = file.aux_len /\ file'.size = file.size /\ file'.tail = file.tail
        /\ file'.crc = file.crc /\ file'.deps_len = file.deps_len
        /\ file'.flags = file.flags /\ file'.version = file.version
    BY <1>2, <1>5, <1>6 DEF OdexFiles, Damages
  <1>8. Marked(file')
    BY <1>5, <1>7 DEF Marked
  <1>9. file'.version \in {35, 36}
    BY <1>2, <1>7, DataFields
  <1>10. /\ file'.dex.off = file.dex.off /\ file'.dex.len = file.dex.len
         /\ file'.crc = file.tail /\ file'.damage # "none"
    BY <1>2, <1>5, <1>7
  <1> QED
    BY <1>1, <1>7, <1>8, <1>9, <1>10, NowMarked

(* Where a section starts or how long the aux data is cannot change        *)
(* unnoticed: the checksum covers other bytes then, or the header fails.   *)
LEMMA OtherPlaces ==
  ASSUME OdexInv, Written, file'.crc = file.crc, file'.tail = file.tail, file'.dex = file.dex,
         NEW d \in Nat, NEW a \in Nat, NEW l \in Nat,
         file'.deps_off = d, file'.aux_off = a, file'.aux_len = l,
         file'.size = file.size,
         \/ d # file.deps_off /\ a = file.aux_off /\ l = file.aux_len
         \/ d = file.deps_off /\ a # file.aux_off /\ l = file.aux_len
         \/ d = file.deps_off /\ a = file.aux_off /\ l # file.aux_len
  PROVE  HeaderFails' \/ WrongChecksum'
  <1> DEFINE D == file.deps_off
             A == file.aux_off
             Z == file.aux_len
             L == Len(file.tail)
             s == IF d # 0 THEN d ELSE a
             e == IF a # 0 THEN a + l ELSE IF d # 0 THEN DepsEnd' ELSE 0
             B(x) == LET y == x - (file'.dex.off + file'.dex.len) + 1
                     IN  IF y \in DOMAIN file'.tail THEN file'.tail[y] ELSE -1
  <1>1. /\ D \in Nat /\ A \in Nat /\ Z \in Nat /\ D >= 152 /\ D + 16 <= A /\ Z >= 4
        /\ L \in Nat /\ L = (A + Z) - D
    BY WrittenPlaces
  <1>2. file.crc = file.tail /\ file.tail \in Seq(Nat) /\ file.crc # NoChecksum
    BY WrittenFile, WrittenPlaces DEF Written
  <1>3. CASE a < d \/ a = 0
    <2>1. a < d
      BY <1>1, <1>3
    <2> QED
      BY <2>1 DEF HeaderFails
  <1>4. CASE ~(a < d) /\ a # 0
    <2>1. e = a + l /\ e - s \in Nat /\ e - s # L
      <3>1. e = a + l
        BY <1>4
      <3> HIDE DEF e, D, A, Z, L
      <3>2. CASE d = 0
        <4>1. s = a
          BY <3>2
        <4>2. a = A /\ l = Z
          BY <1>1, <3>2 DEF D, A, Z
        <4> QED
          BY <1>1, <3>1, <4>1, <4>2
      <3>3. CASE d # 0
        <4>1. s = d
          BY <3>3
        <4>2. \/ d # D /\ a = A /\ l = Z
              \/ d = D /\ a # A /\ l = Z
              \/ d = D /\ a = A /\ l # Z
          BY DEF D, A, Z
        <4> HIDE DEF s
        <4> QED
          BY <1>1, <1>4, <3>1, <4>1, <4>2
      <3> QED
        BY <3>2, <3>3
    <2>2. Covered' = [j \in 1..e - s |-> B(s + j - 1)]
      BY DEF Covered, Bytes, ByteAt
    <2> HIDE DEF s, e, B
    <2>3. Covered' # file.tail
      <3>1. DOMAIN Covered' = 1..e - s
        BY <2>2
      <3>2. DOMAIN file.tail = 1..L
        BY <1>2
      <3>3. \A x, y \in Nat : 1..x = 1..y => x = y
        <4>1. ASSUME NEW x \in Nat, NEW y \in Nat, 1..x = 1..y PROVE x = y
          <5>1. x \in 1..x \/ x = 0
            OBVIOUS
          <5>2. y \in 1..y \/ y = 0
            OBVIOUS
          <5>3. \A z \in 1..y : z <= y
            OBVIOUS
          <5>4. \A z \in 1..x : z <= x
            OBVIOUS
          <5>5. x <= y
            BY <4>1, <5>1, <5>3
          <5>6. y <= x
            BY <4>1, <5>2, <5>4
          <5> QED
            BY <5>5, <5>6
        <4> QED
          BY <4>1
      <3> QED
        BY <1>1, <2>1, <3>1, <3>2, <3>3
    <2>4. file'.crc # NoChecksum /\ Covered' # file'.crc
      BY <1>2, <2>3
    <2> QED
      BY <2>4 DEF WrongChecksum, NoChecksum
  <1> QED
    BY <1>3, <1>4

(* A changed field of the header is betrayed at once, shows when the dex   *)
(* file is read, or is one of those that need not be noticed.              *)
LEMMA CorruptHeaderStep ==
  ASSUME OdexInv, CorruptHeader
  PROVE  OdexInv'
  <1>1. Written /\ UNCHANGED <<meta, rd, read>>
    BY Zenon DEF CorruptHeader
  <1>2. /\ meta \in OdexData /\ file \in OdexFiles /\ file.crc = file.tail
        /\ file.version \in {35, 36} /\ file.tail \in Seq(Nat)
    <2>1. meta \in OdexData /\ file \in OdexFiles /\ file.crc = file.tail
          /\ file.version = meta.odex_version
      BY <1>1, WrittenFile
    <2> QED
      BY <1>1, <2>1, DataFields, WrittenPlaces
  <1>3. file.dex_off = file.dex.off /\ file.dex_len = file.dex.len
    BY <1>1, WrittenFile DEF Holds, Marked
  <1>4. ASSUME NEW v \in {UnknownVersion, 35, 36},
               file' = [file EXCEPT !.version = v, !.damage = "version"]
        PROVE  OdexInv'
    <2>1. v \in Int
      BY DEF UnknownVersion
    <2>2. /\ file' \in OdexFiles /\ file'.damage = "version" /\ file'.version = v
          /\ file'.dex = file.dex /\ file'.deps_off = file.deps_off
          /\ file'.aux_off = file.aux_off /\ file'.aux_len = file.aux_len
          /\ file'.size = file.size /\ file'.tail = file.tail
          /\ file'.crc = file.crc /\ file'.deps_len = file.deps_len
          /\ file'.flags = file.flags
      BY <1>2, <1>4, <2>1 DEF OdexFiles, Damages
    <2>3. CASE v \in {35, 36}
      <3>1. Marked(file')
        BY <2>2 DEF Marked, Unnoticed
      <3>2. file'.crc = file.tail /\ file'.damage # "none" /\ file'.version \in {35, 36}
            /\ file'.dex.off = file.dex.off /\ file'.dex.len = file.dex.len
        BY <1>2, <2>2, <2>3
      <3> QED
        BY <1>1, <2>2, <3>1, <3>2, NowMarked
    <2>4. CASE v \notin {35, 36}
      <3>1. HeaderFails'
        BY <2>2, <2>4 DEF HeaderFails
      <3> QED
        BY <1>1, <2>2, <3>1, NowDamaged
    <2> QED
      BY <2>3, <2>4
  <1>5. ASSUME NEW c \in {NoChecksum, WrongSum},
               file' = [file EXCEPT !.crc = c, !.damage = "crc"]
        PROVE  OdexInv'
    <2>1. c \in Seq(Int)
      <3>1. <<-1>> \in Seq(Int) /\ <<-2>> \in Seq(Int)
        OBVIOUS
      <3> QED
        BY <3>1 DEF NoChecksum, WrongSum
    <2>2. /\ file' \in OdexFiles /\ file'.damage = "crc" /\ file'.version = file.version
          /\ file'.dex = file.dex /\ file'.deps_off = file.deps_off
          /\ file'.aux_off = file.aux_off /\ file'.aux_len = file.aux_len
          /\ file'.size = file.size /\ file'.tail = file.tail
          /\ file'.crc = c /\ file'.deps_len = file.deps_len
          /\ file'.flags = file.flags
      BY <1>2, <1>5, <2>1 DEF OdexFiles, Damages
    <2>3. CASE c = NoChecksum
      <3>1. Marked(file')
        BY <2>2 DEF Marked, Unnoticed
      <3>2. file'.crc = NoChecksum /\ file'.damage # "none" /\ file'.version \in {35, 36}
            /\ file'.dex.off = file.dex.off /\ file'.dex.len = file.dex.len
        BY <1>2, <2>2, <2>3
      <3> QED
        BY <1>1, <2>2, <3>1, <3>2, NowMarked
    <2>4. CASE c = WrongSum
      <3>1. WrongSum # NoChecksum /\ WrongSum \notin Seq(Nat)
        <4>1. WrongSum[1] \notin Nat /\ 1 \in 1..Len(WrongSum) /\ NoChecksum[1] # WrongSum[1]
          BY DEF WrongSum, NoChecksum
        <4>2. \A u \in Seq(Nat) : \A j \in 1..Len(u) : u[j] \in Nat
          OBVIOUS
        <4> QED
          BY <4>1, <4>2
      <3>2. Covered' = file.tail
        <4>1. Covered' = Covered
          BY <2>2 DEF Covered, Bytes, ByteAt, DepsEnd
        <4>2. ~WrongChecksum /\ file.crc # NoChecksum
          <5>1. Holds(file, Told) /\ Told \in OdexData
            BY <1>1, WrittenFile
          <5> QED
            BY <1>1, <5>1, HeaderHolds DEF Written
        <4>3. Covered = file.crc
          BY <4>2 DEF WrongChecksum
        <4> QED
          BY <1>2, <4>1, <4>3
      <3>3. file'.crc # NoChecksum /\ Covered' # file'.crc
        BY <1>2, <2>2, <2>4, <3>1, <3>2
      <3>4. WrongChecksum'
        BY <3>3 DEF WrongChecksum, NoChecksum
      <3> QED
        BY <1>1, <2>2, <3>4, NowDamaged
    <2> QED
      BY <2>3, <2>4
  <1>6. ASSUME NEW v \in Values, v # file.dex_off,
               file' = [file EXCEPT !.dex_off = v, !.damage = "dex_off"]
        PROVE  OdexInv'
    <2>1. v \in Nat
      BY ValuesAssumption
    <2>2. /\ file' \in OdexFiles /\ file'.damage = "dex_off" /\ file'.dex_off = v
          /\ file'.version = file.version /\ file'.dex = file.dex /\ file'.deps_off = file.deps_off
          /\ file'.aux_off = file.aux_off /\ file'.aux_len = file.aux_len /\ file'.size = file.size
          /\ file'.tail = file.tail /\ file'.crc = file.crc /\ file'.deps_len = file.deps_len
          /\ file'.flags = file.flags /\ file'.dex_len = file.dex_len
      BY <1>2, <1>6, <2>1 DEF OdexFiles, Damages
    <2>3. Marked(file')
      BY <1>3, <1>6, <2>2 DEF Marked
    <2>4. file'.crc = file.tail /\ file'.damage # "none" /\ file'.version \in {35, 36}
          /\ file'.dex.off = file.dex.off /\ file'.dex.len = file.dex.len
      BY <1>2, <2>2
    <2> QED
      BY <1>1, <2>2, <2>3, <2>4, NowMarked
  <1>7. ASSUME NEW v \in Values, v # file.dex_len,
               file' = [file EXCEPT !.dex_len = v, !.damage = "dex_len"]
        PROVE  OdexInv'
    <2>1. v \in Nat
      BY ValuesAssumption
    <2>2. /\ file' \in OdexFiles /\ file'.damage = "dex_len" /\ file'.dex_len = v
          /\ file'.version = file.version /\ file'.dex = file.dex /\ file'.deps_off = file.deps_off
          /\ file'.aux_off = file.aux_off /\ file'.aux_len = file.aux_len /\ file'.size = file.size
          /\ file'.tail = file.tail /\ file'.crc = file.crc /\ file'.deps_len = file.deps_len
          /\ file'.flags = file.flags /\ file'.dex_off = file.dex_off
      BY <1>2, <1>7, <2>1 DEF OdexFiles, Damages
    <2>3. Marked(file')
      BY <1>3, <1>7, <2>2 DEF Marked
    <2>4. file'.crc = file.tail /\ file'.damage # "none" /\ file'.version \in {35, 36}
          /\ file'.dex.off = file.dex.off /\ file'.dex.len = file.dex.len
      BY <1>2, <2>2
    <2> QED
      BY <1>1, <2>2, <2>3, <2>4, NowMarked
  <1>8. ASSUME NEW v \in Values, v # file.deps_len,
               file' = [file EXCEPT !.deps_len = v, !.damage = "deps_len"]
        PROVE  OdexInv'
    <2>1. v \in Nat
      BY ValuesAssumption
    <2>2. /\ file' \in OdexFiles /\ file'.damage = "deps_len" /\ file'.deps_len = v
          /\ file'.version = file.version /\ file'.dex = file.dex /\ file'.deps_off = file.deps_off
          /\ file'.aux_off = file.aux_off /\ file'.aux_len = file.aux_len /\ file'.size = file.size
          /\ file'.tail = file.tail /\ file'.crc = file.crc /\ file'.flags = file.flags
          /\ file'.dex_off = file.dex_off /\ file'.dex_len = file.dex_len
      BY <1>2, <1>8, <2>1 DEF OdexFiles, Damages
    <2>3. Marked(file')
      BY <2>2 DEF Marked, Unnoticed
    <2>4. file'.crc = file.tail /\ file'.damage # "none" /\ file'.version \in {35, 36}
          /\ file'.dex.off = file.dex.off /\ file'.dex.len = file.dex.len
      BY <1>2, <2>2
    <2> QED
      BY <1>1, <2>2, <2>3, <2>4, NowMarked
  <1>9. ASSUME NEW v \in Values, v # file.flags,
               file' = [file EXCEPT !.flags = v, !.damage = "flags"]
        PROVE  OdexInv'
    <2>1. v \in Nat
      BY ValuesAssumption
    <2>2. /\ file' \in OdexFiles /\ file'.damage = "flags" /\ file'.flags = v
          /\ file'.version = file.version /\ file'.dex = file.dex /\ file'.deps_off = file.deps_off
          /\ file'.aux_off = file.aux_off /\ file'.aux_len = file.aux_len /\ file'.size = file.size
          /\ file'.tail = file.tail /\ file'.crc = file.crc /\ file'.deps_len = file.deps_len
          /\ file'.dex_off = file.dex_off /\ file'.dex_len = file.dex_len
      BY <1>2, <1>9, <2>1 DEF OdexFiles, Damages
    <2>3. Marked(file')
      BY <2>2 DEF Marked, Unnoticed
    <2>4. file'.crc = file.tail /\ file'.damage # "none" /\ file'.version \in {35, 36}
          /\ file'.dex.off = file.dex.off /\ file'.dex.len = file.dex.len
      BY <1>2, <2>2
    <2> QED
      BY <1>1, <2>2, <2>3, <2>4, NowMarked
  <1>10. ASSUME NEW v \in Values, v # file.deps_off,
               file' = [file EXCEPT !.deps_off = v, !.damage = "deps_off"]
        PROVE  OdexInv'
    <2>1. v \in Nat
      BY ValuesAssumption
    <2>2. /\ file' \in OdexFiles /\ file'.damage = "deps_off" /\ file'.deps_off = v
          /\ file'.version = file.version /\ file'.dex = file.dex /\ file'.aux_off = file.aux_off
          /\ file'.aux_len = file.aux_len /\ file'.size = file.size /\ file'.tail = file.tail
          /\ file'.crc = file.crc /\ file'.deps_len = file.deps_len /\ file'.flags = file.flags
          /\ file'.dex_off = file.dex_off /\ file'.dex_len = file.dex_len
      BY <1>2, <1>10, <2>1 DEF OdexFiles, Damages
    <2>3. file'.deps_off \in Nat /\ file'.aux_off \in Nat /\ file'.aux_len \in Nat
      BY <2>2 DEF OdexFiles
    <2>4. HeaderFails' \/ WrongChecksum'
      BY <1>1, <1>10, <2>2, <2>3, OtherPlaces
    <2> QED
      BY <1>1, <2>2, <2>4, NowDamaged
  <1>11. ASSUME NEW v \in Values, v # file.aux_off,
               file' = [file EXCEPT !.aux_off = v, !.damage = "aux_off"]
        PROVE  OdexInv'
    <2>1. v \in Nat
      BY ValuesAssumption
    <2>2. /\ file' \in OdexFiles /\ file'.damage = "aux_off" /\ file'.aux_off = v
          /\ file'.version = file.version /\ file'.dex = file.dex /\ file'.deps_off = file.deps_off
          /\ file'.aux_len = file.aux_len /\ file'.size = file.size /\ file'.tail = file.tail
          /\ file'.crc = file.crc /\ file'.deps_len = file.deps_len /\ file'.flags = file.flags
          /\ file'.dex_off = file.dex_off /\ file'.dex_len = file.dex_len
      BY <1>2, <1>11, <2>1 DEF OdexFiles, Damages
    <2>3. file'.deps_off \in Nat /\ file'.aux_off \in Nat /\ file'.aux_len \in Nat
      BY <2>2 DEF OdexFiles
    <2>4. HeaderFails' \/ WrongChecksum'
      BY <1>1, <1>11, <2>2, <2>3, OtherPlaces
    <2> QED
      BY <1>1, <2>2, <2>4, NowDamaged
  <1>12. ASSUME NEW v \in Values, v # file.aux_len,
               file' = [file EXCEPT !.aux_len = v, !.damage = "aux_len"]
        PROVE  OdexInv'
    <2>1. v \in Nat
      BY ValuesAssumption
    <2>2. /\ file' \in OdexFiles /\ file'.damage = "aux_len" /\ file'.aux_len = v
          /\ file'.version = file.version /\ file'.dex = file.dex /\ file'.deps_off = file.deps_off
          /\ file'.aux_off = file.aux_off /\ file'.size = file.size /\ file'.tail = file.tail
          /\ file'.crc = file.crc /\ file'.deps_len = file.deps_len /\ file'.flags = file.flags
          /\ file'.dex_off = file.dex_off /\ file'.dex_len = file.dex_len
      BY <1>2, <1>12, <2>1 DEF OdexFiles, Damages
    <2>3. file'.deps_off \in Nat /\ file'.aux_off \in Nat /\ file'.aux_len \in Nat
      BY <2>2 DEF OdexFiles
    <2>4. HeaderFails' \/ WrongChecksum'
      BY <1>1, <1>12, <2>2, <2>3, OtherPlaces
    <2> QED
      BY <1>1, <2>2, <2>4, NowDamaged
  <1> QED
    BY <1>4, <1>5, <1>6, <1>7, <1>8, <1>9, <1>10, <1>11, <1>12, Zenon DEF CorruptHeader

(* A changed byte, wherever it is.                                         *)
LEMMA CorruptStep ==
  ASSUME OdexInv, Corrupt
  PROVE  OdexInv'
  BY CorruptTailStep, CorruptDexStep, CorruptHeaderStep DEF Corrupt
-----------------------------------------------------------------------------
(* While the reader is in the middle of a file, the file tells its         *)
(* OdexData.                                                               *)
LEMMA ReadingAt ==
  ASSUME OdexInv, rd.at \notin {"closed", "rejected"}
  PROVE  /\ Reading /\ Told \in OdexData /\ Holds(file, Told)
         /\ rd.at = "deps" => AtDeps
         /\ rd.at = "dep" => AtDep
         /\ rd.at = "aux" => AtAux
         /\ rd.at = "chunk" => AtChunk
         /\ rd.at = "dex" => AtDex
         /\ rd.at = "accepted" => AtEnd
  <1>1. Reading
    <2>1. ~Writing
      BY DEF Writing, Closed
    <2>2. ~Damaged
      BY DEF Damaged, Closed
    <2> QED
      BY <2>1, <2>2 DEF OdexInv
  <1>2. Told \in OdexData /\ Holds(file, Told)
    BY <1>1 DEF Reading, Telling
  <1> QED
    BY <1>1, <1>2, ReaderPlace DEF Reading

(* A reader that goes on in the same file.                                 *)
LEMMA GoesOn ==
  ASSUME Reading, UNCHANGED <<meta, file>>,
         \/ AtStart' \/ AtDeps' \/ AtDep' \/ AtAux'
         \/ AtChunk' \/ AtDex' \/ AtEnd' \/ AtReject'
  PROVE  OdexInv'
  <1>1. meta' = meta /\ file' = file
    OBVIOUS
  <1>2. Told' = Told
    BY <1>1 DEF Told, ToldBy
  <1>3. OdexData' = OdexData
    BY DEF OdexData
  <1>4. Telling'
    BY <1>1, <1>2, <1>3 DEF Reading, Telling
  <1> QED
    BY <1>4 DEF OdexInv, Reading

(* A reader that refuses a damaged file.                                   *)
LEMMA Refuses ==
  ASSUME Reading, UNCHANGED <<meta, file>>, Reject, file.damage # "none",
         NEW at, NEW off, NEW left \in Nat, rd = [at |-> at, off |-> off, left |-> left],
         read.deps \in ReadDeps
  PROVE  OdexInv'
  <1>1. rd' = [rd EXCEPT !.at = "rejected"] /\ read' = read
    BY DEF Reject
  <1>2. rd'.at = "rejected" /\ rd'.left = left
    BY <1>1
  <1>3. AtReject'
    BY <1>1, <1>2 DEF AtReject, ReadDeps
  <1> QED
    BY <1>3, GoesOn

(* Nothing is read before the dependencies.                                *)
LEMMA NoDeps == << >> \in ReadDeps
  <1>1. \A S : << >> \in Seq(S)
    OBVIOUS
  <1> QED
    BY <1>1 DEF ReadDeps

(* The dependencies read so far have the type of the reader's list.        *)
LEMMA ReadDepsTyped ==
  ASSUME Told \in OdexData, NEW k \in 0..Len(Told.deps)
  PROVE  SubSeq(Told.deps, 1, k) \in ReadDeps
  <1> DEFINE R == [name : Seq(1..255), sha : Seq(0..255)]
  <1>1. Told.deps \in Seq(Dependencies)
    BY DataFields
  <1>2. \A D, E : \A s \in Seq(D) : (\A x \in D : x \in E) => s \in Seq(E)
    <2>1. ASSUME NEW D, NEW E, NEW s \in Seq(D), \A x \in D : x \in E
          PROVE  s \in Seq(E)
      <3>1. Len(s) \in Nat /\ s \in [1..Len(s) -> D]
        BY LenProperties
      <3>2. s \in [1..Len(s) -> E]
        BY <2>1, <3>1
      <3> QED
        BY <3>1, <3>2, FunctionIsSeq
    <2> QED
      BY <2>1
  <1>3. ASSUME NEW d \in Dependencies PROVE d \in R
    <2>1. d.sha \in [1..20 -> 0..255] /\ d.name \in Seq(1..255)
          /\ d = [name |-> d.name, sha |-> d.sha]
      BY DEF Dependencies
    <2>2. d.sha \in Seq(0..255)
      BY <2>1, FunctionIsSeq
    <2> HIDE DEF R
    <2>3. [name |-> d.name, sha |-> d.sha] \in R
      BY <2>1, <2>2 DEF R
    <2> QED
      BY <2>1, <2>3
  <1> HIDE DEF R
  <1>4. Told.deps \in Seq(R)
    BY <1>1, <1>2, <1>3
  <1>5. \A D : \A s \in Seq(D) : \A j \in 0..Len(s) : SubSeq(s, 1, j) \in Seq(D)
    OBVIOUS
  <1> QED
    BY <1>4, <1>5 DEF R, ReadDeps

(* dxc_read_buffer enters the sections of a file whose header tells where  *)
(* they are, and rejects the others, which are damaged.                    *)
LEMMA OpenStep ==
  ASSUME OdexInv, OpenOdex
  PROVE  OdexInv'
  <1>1. file # NoFile /\ rd.at = "closed" /\ UNCHANGED <<meta, file>>
    BY DEF OpenOdex
  <1>2. Reading \/ Damaged
    BY <1>1 DEF OdexInv, Writing
  <1>3. CASE Damaged
    <2>1. HeaderFails \/ WrongChecksum
      BY <1>3 DEF Damaged
    <2>2. Reject
      BY <2>1 DEF OpenOdex
    <2>3. rd = Closed /\ read = EmptyData /\ file \in OdexFiles /\ file.damage # "none"
      BY <1>1, <1>3 DEF Damaged
    <2>4. rd' = [at |-> "rejected", off |-> 0, left |-> 0] /\ read' = EmptyData
      BY <2>2, <2>3 DEF Reject, Closed
    <2>5. EmptyData' = EmptyData
      BY DEF EmptyData
    <2>6. HeaderFails' \/ WrongChecksum'
      <3>1. HeaderFails' = HeaderFails
        BY <1>1 DEF HeaderFails
      <3>2. WrongChecksum' = WrongChecksum
        BY <1>1 DEF WrongChecksum, Covered, Bytes, ByteAt, DepsEnd, NoChecksum
      <3> QED
        BY <2>1, <3>1, <3>2
    <2> QED
      BY <1>1, <2>3, <2>4, <2>5, <2>6 DEF OdexInv, Damaged
  <1>4. CASE Reading
    <2>1. Told \in OdexData /\ Holds(file, Told)
      BY <1>4 DEF Reading, Telling
    <2>2. AtStart
      BY <1>1, <1>4, ReaderPlace DEF Reading
    <2>3. (file.damage = "none" => ~HeaderFails) /\ ~WrongChecksum
      BY <2>1, HeaderHolds
    <2>4. CASE HeaderFails
      <3>1. file.damage # "none" /\ Reject
        BY <2>3, <2>4 DEF OpenOdex
      <3>2. rd = [at |-> "closed", off |-> 0, left |-> 0] /\ read.deps = << >>
        BY <2>2 DEF AtStart, Closed, EmptyData
      <3>3. read.deps \in ReadDeps /\ 0 \in Nat
        BY <3>2, NoDeps
      <3> QED
        BY <1>1, <1>4, <3>1, <3>2, <3>3, Refuses
    <2>5. CASE ~HeaderFails
      <3>1. file.deps_off # 0 /\ file.flags = Told.flags /\ file.version = Told.odex_version
        <4>1. file.deps_off = 40 + file.dex.len /\ file.dex.len \in Nat
          BY <2>1, HoldsFields
        <4>2. file.deps_off # 0
          BY <4>1
        <4> QED
          BY <2>1, <4>2 DEF Holds
      <3>2. Told' = Told
        BY <1>1 DEF Told, ToldBy
      <3>3. /\ rd' = [at |-> "deps", off |-> 0, left |-> 0]
            /\ read' = [EmptyData EXCEPT !.odex_version = Told.odex_version,
                                         !.flags = Told.flags]
        BY <2>2, <2>3, <2>5, <3>1 DEF OpenOdex, AtStart, Closed
      <3>4. AtDeps'
        BY <3>2, <3>3 DEF AtDeps, EmptyData
      <3> QED
        BY <1>1, <1>4, <3>4, GoesOn
    <2> QED
      BY <2>4, <2>5
  <1> QED
    BY <1>2, <1>3, <1>4

(* The fields before the list of dependencies are read as they were        *)
(* written.                                                                *)
LEMMA OpenDepsStep ==
  ASSUME OdexInv, OpenDeps
  PROVE  OdexInv'
  <1>1. rd.at = "deps" /\ UNCHANGED <<meta, file>> /\ Told' = Told
    BY DEF OpenDeps, Told, ToldBy
  <1>2. Reading /\ Told \in OdexData /\ Holds(file, Told) /\ AtDeps
    BY <1>1, ReadingAt
  <1>3. PICK P, len : ListAt(P, len, file, Told)
    BY <1>2 DEF Holds
  <1> DEFINE o == file.deps_off
             n == Len(Told.deps)
  <1>4. /\ Told.dex_mod_time \in Nat /\ Told.dex_crc \in Nat /\ Told.vm_version \in Nat
        /\ n \in Nat /\ o \in Nat
    BY <1>2, DataFields, HoldsFields
  <1>5. /\ DepsAt(P, file.tail, len, Told) /\ len \in Nat /\ len >= 16
        /\ file.damage # "deps_len" => file.deps_len = len
    BY <1>3 DEF ListAt
  <1>6. CASE file.deps_len < 16
    <2>1. Reject
      BY <1>6 DEF OpenDeps
    <2>2. file.damage # "none"
      BY <1>5, <1>6
    <2>3. rd = [at |-> "deps", off |-> 0, left |-> 0] /\ read.deps = << >> /\ 0 \in Nat
      BY <1>2 DEF AtDeps, EmptyData
    <2>4. read.deps \in ReadDeps
      BY <2>3, NoDeps
    <2> QED
      BY <1>1, <1>2, <2>1, <2>2, <2>3, <2>4, Refuses
  <1>7. CASE ~(file.deps_len < 16)
    <2>1. /\ UintAt(o) = Told.dex_mod_time /\ UintAt(o + 4) = Told.dex_crc
          /\ UintAt(o + 8) = Told.vm_version /\ UintAt(o + 12) = n
      <3>1. /\ Segment(file.tail, 0, Uint(Told.dex_mod_time))
            /\ Segment(file.tail, 4, Uint(Told.dex_crc))
            /\ Segment(file.tail, 8, Uint(Told.vm_version))
            /\ Segment(file.tail, 12, Uint(n))
        BY <1>5 DEF DepsAt
      <3>2. UintAt(o + 0) = Told.dex_mod_time
        BY <1>2, <1>4, <3>1, UintFound
      <3>3. UintAt(o + 4) = Told.dex_crc
        BY <1>2, <1>4, <3>1, UintFound
      <3>4. UintAt(o + 8) = Told.vm_version
        BY <1>2, <1>4, <3>1, UintFound
      <3>5. UintAt(o + 12) = n
        BY <1>2, <1>4, <3>1, UintFound
      <3>6. o + 0 = o
        BY <1>4
      <3> QED
        BY <3>2, <3>3, <3>4, <3>5, <3>6
    <2>2. P[0] = 16 /\ P[0] <= file.deps_len /\ 0 \in 0..n
      <3>1. 0 \in 0..n
        BY <1>4
      <3>2. P[0] = 16
        BY <1>5 DEF DepsAt
      <3>3. file.deps_len \in Nat
        BY <1>2, HoldsFields
      <3> QED
        BY <1>7, <3>1, <3>2, <3>3
    <2>3. /\ read' = [read EXCEPT !.dex_mod_time = Told.dex_mod_time,
                                  !.dex_crc = Told.dex_crc,
                                  !.vm_version = Told.vm_version]
          /\ rd' = [at |-> "dep", off |-> o + 16, left |-> n]
      BY <1>7, <2>1 DEF OpenDeps
    <2>4. read' = ReadSoFar(Told, 0, FALSE, FALSE)
      <3>1. SubSeq(Told.deps, 1, 0) = << >>
        <4>1. \A D : \A s \in Seq(D) : SubSeq(s, 1, 0) = << >>
          OBVIOUS
        <4> QED
          BY <1>2, <4>1, DataFields
      <3>2. read = [EmptyData EXCEPT !.odex_version = Told.odex_version, !.flags = Told.flags]
        BY <1>2 DEF AtDeps
      <3> QED
        BY <2>3, <3>1, <3>2 DEF ReadSoFar, EmptyData, FORMAT_NEW
    <2>5. AtDep'
      <3>1. ListAt(P, len, file', Told') /\ P[0] <= file'.deps_len
        BY <1>1, <1>3, <2>2
      <3>2. rd' = [at |-> "dep", off |-> file'.deps_off + P[0], left |-> Len(Told'.deps) - 0]
        BY <1>1, <1>4, <2>2, <2>3
      <3>3. read' = ReadSoFar(Told', 0, FALSE, FALSE)
        BY <1>1, <2>4
      <3>4. 0 \in 0..Len(Told'.deps)
        BY <1>1, <2>2
      <3> QED
        BY <3>1, <3>2, <3>3, <3>4 DEF AtDep
    <2> QED
      BY <1>1, <1>2, <2>5, GoesOn
  <1> QED
    BY <1>6, <1>7

(* What the reader finds at the next dependency, and when it takes it for  *)
(* one that leads out of the section.                                      *)
LEMMA DepFound ==
  ASSUME Told \in OdexData, Holds(file, Told), NEW P, NEW len, ListAt(P, len, file, Told),
         NEW k \in 1..Len(Told.deps)
  PROVE  LET o == file.deps_off + P[k - 1]
             l == Len(Told.deps[k].name)
         IN  /\ P[k] \in Nat /\ l \in Nat /\ o \in Nat
             /\ UintAt(o) = l + 1 /\ ByteAt(o + 4 + l) = 0
             /\ CString(o + 4) = Told.deps[k].name
             /\ Bytes(o + 5 + l, 20) = Told.deps[k].sha
             /\ file.deps_off + P[k] = o + 25 + l
             /\ o + 25 + l > DepsEnd <=> P[k] > file.deps_len
             /\ o + 4 > DepsEnd => P[k] > file.deps_len
             /\ P[k] > file.deps_len => file.damage # "none"
  <1> DEFINE d == Told.deps[k]
             l == Len(d.name)
             p == P[k - 1]
             s == file.tail
             o == file.deps_off + p
  <1>1. d \in Dependencies /\ Len(Told.deps) \in Nat
    BY DataFields
  <1> HIDE DEF d
  <1>2. /\ l \in Nat /\ DepBytes(d) \in Seq(Nat) /\ Len(DepBytes(d)) = 25 + l
        /\ Segment(DepBytes(d), 0, Uint(l + 1))
        /\ Segment(DepBytes(d), 4, d.name)
        /\ Segment(DepBytes(d), 4 + l, <<0>>)
        /\ Segment(DepBytes(d), 5 + l, d.sha)
    BY <1>1, DepParts
  <1>3. /\ p \in Nat /\ P[k] \in Nat /\ P[k] = p + Len(DepBytes(d))
        /\ Segment(s, p, DepBytes(d)) /\ P[k] <= len /\ len \in Nat
        /\ file.damage # "deps_len" => file.deps_len = len
    <2>0. DepsAt(P, s, len, Told) /\ len \in Nat
          /\ (file.damage # "deps_len" => file.deps_len = len)
      BY DEF ListAt
    <2>1. k \in 0..Len(Told.deps) /\ k - 1 \in 0..Len(Told.deps)
      BY <1>1
    <2>2. P \in [0..Len(Told.deps) -> Nat]
      BY <2>0 DEF DepsAt
    <2>3. p \in Nat /\ P[k] \in Nat
      BY <2>1, <2>2
    <2>4. P[k] <= len
      BY <2>0, <2>1 DEF DepsAt
    <2>5. P[k] = P[k - 1] + Len(DepBytes(Told.deps[k])) /\ Segment(s, P[k - 1], DepBytes(Told.deps[k]))
      BY <2>0 DEF DepsAt
    <2> QED
      BY <2>0, <2>3, <2>4, <2>5 DEF d
  <1> HIDE DEF p
  <1>4. /\ file.deps_off \in Nat /\ file.deps_len \in Nat /\ s \in Seq(Nat) /\ Len(s) \in Nat
    <2>1. \A u \in Seq(Nat) : Len(u) \in Nat
      OBVIOUS
    <2> QED
      BY <2>1, HoldsFields
  <1>5. d.name \in Seq(1..255) /\ d.sha \in [1..20 -> 0..255]
    BY <1>1 DEF Dependencies
  <1>6. d.name \in Seq(Nat)
    BY <1>5, NameSeq
  <1>7. d.sha \in Seq(Nat) /\ Len(d.sha) = 20 /\ d.sha \in [1..20 -> Nat]
    <2>1. d.sha \in Seq(Nat) /\ Len(d.sha) = 20
      BY <1>5, ByteSeq
    <2>2. \A t \in Seq(Nat) : t \in [1..Len(t) -> Nat]
      BY LenProperties
    <2>3. d.sha \in [1..Len(d.sha) -> Nat]
      BY <2>1, <2>2
    <2> QED
      BY <2>1, <2>3
  <1>8. /\ Segment(s, p + 0, Uint(l + 1))
        /\ Segment(s, p + 4, d.name)
        /\ Segment(s, p + (4 + l), <<0>>)
        /\ Segment(s, p + (5 + l), d.sha)
    <2>1. Uint(l + 1) \in Seq(Nat) /\ <<0>> \in Seq(Nat) /\ 4 + l \in Nat /\ 5 + l \in Nat
      <3>1. l + 1 \in Nat /\ 4 + l \in Nat /\ 5 + l \in Nat
        <4>1. \A n \in Nat : n + 1 \in Nat /\ 4 + n \in Nat /\ 5 + n \in Nat
          OBVIOUS
        <4> QED
          BY <1>2, <4>1
      <3>2. <<0>> \in Seq(Nat)
        OBVIOUS
      <3> QED
        BY <3>1, <3>2, UintBytes
    <2>2. Segment(s, p + 0, Uint(l + 1))
      BY <1>2, <1>3, <1>4, <2>1, SegmentTrans
    <2>3. Segment(s, p + 4, d.name)
      BY <1>2, <1>3, <1>4, <1>6, SegmentTrans
    <2>4. Segment(s, p + (4 + l), <<0>>)
      BY <1>2, <1>3, <1>4, <2>1, SegmentTrans
    <2>5. Segment(s, p + (5 + l), d.sha)
      BY <1>2, <1>3, <1>4, <1>7, <2>1, SegmentTrans
    <2> QED
      BY <2>2, <2>3, <2>4, <2>5
  <1>9. /\ p + 0 = p /\ p + 4 \in Nat /\ p + (4 + l) \in Nat /\ p + (5 + l) \in Nat /\ l + 1 \in Nat
        /\ (p + 4) + l = p + (4 + l)
        /\ file.deps_off + (p + 4) = o + 4
        /\ file.deps_off + (p + (4 + l)) = o + 4 + l
        /\ file.deps_off + (p + (5 + l)) = o + 5 + l
    <2>1. \A D, q, n \in Nat :
            /\ q + 0 = q /\ q + 4 \in Nat /\ q + (4 + n) \in Nat /\ q + (5 + n) \in Nat /\ n + 1 \in Nat
            /\ (q + 4) + n = q + (4 + n)
            /\ D + (q + 4) = (D + q) + 4
            /\ D + (q + (4 + n)) = (D + q) + 4 + n
            /\ D + (q + (5 + n)) = (D + q) + 5 + n
      OBVIOUS
    <2>2. file.deps_off \in Nat /\ p \in Nat /\ l \in Nat
      BY <1>2, <1>3, <1>4
    <2> HIDE DEF l
    <2> QED
      BY <2>1, <2>2
  <1>10. UintAt(o) = l + 1
    BY <1>3, <1>8, <1>9, UintFound
  <1>11. CString(o + 4) = d.name
    <2>1. Segment(s, (p + 4) + l, <<0>>)
      BY <1>8, <1>9
    <2>2. CString(file.deps_off + (p + 4)) = d.name
      BY <1>5, <1>8, <1>9, <2>1, CStringFound
    <2> QED
      BY <1>9, <2>2
  <1>12. ByteAt(o + 4 + l) = 0
    <2>1. s[(p + (4 + l)) + 1] = 0 /\ (p + (4 + l)) + 1 <= Len(s)
      <3>1. Len(<<0>>) = 1 /\ <<0>>[1] = 0
        OBVIOUS
      <3> QED
        BY <1>8, <3>1 DEF Segment
    <2>2. ByteAt(file.deps_off + (p + (4 + l))) = s[(p + (4 + l)) + 1]
      BY <1>9, <2>1, ByteFound
    <2> QED
      BY <1>9, <2>1, <2>2
  <1>13. Bytes(o + 5 + l, 20) = d.sha
    <2>1. Bytes(file.deps_off + (p + (5 + l)), 20) = d.sha
      BY <1>7, <1>8, <1>9, BytesFound
    <2> QED
      BY <1>9, <2>1
  <1>14. /\ file.deps_off + P[k] = o + 25 + l /\ o \in Nat
         /\ o + 25 + l > DepsEnd <=> P[k] > file.deps_len
         /\ o + 4 > DepsEnd => P[k] > file.deps_len
    <2> DEFINE z == P[k]
               D == file.deps_off
               e == file.deps_len
    <2>1. z = p + (25 + l) /\ D \in Nat /\ p \in Nat /\ l \in Nat /\ z \in Nat /\ e \in Nat
      BY <1>2, <1>3, <1>4
    <2>2. DepsEnd = D + e
      BY DEF DepsEnd
    <2>3. \A b, q, n, y, c \in Nat : y = q + (25 + n) =>
            /\ b + y = (b + q) + 25 + n /\ b + q \in Nat
            /\ (b + q) + 25 + n > b + c <=> y > c
            /\ (b + q) + 4 > b + c => y > c
      OBVIOUS
    <2> HIDE DEF l, z, D, e
    <2>4. /\ D + z = (D + p) + 25 + l /\ D + p \in Nat
          /\ (D + p) + 25 + l > D + e <=> z > e
          /\ (D + p) + 4 > D + e => z > e
      BY <2>1, <2>3
    <2> QED
      BY <2>2, <2>4 DEF D, z, e
  <1>15. P[k] > file.deps_len => file.damage # "none"
    BY <1>3, <1>4
  <1> QED
    BY <1>2, <1>3, <1>10, <1>11, <1>12, <1>13, <1>14, <1>15 DEF d, p
-----------------------------------------------------------------------------
(* Each dependency is read as it was written, and the next one starts      *)
(* where it ends; one that is not inside the section is refused.           *)
LEMMA ReadDepStep ==
  ASSUME OdexInv, ReadDep
  PROVE  OdexInv'
  <1>1. rd.at = "dep" /\ rd.left > 0 /\ UNCHANGED <<meta, file>> /\ Told' = Told
    BY DEF ReadDep, Told, ToldBy
  <1>2. Reading /\ Told \in OdexData /\ Holds(file, Told) /\ AtDep
    BY <1>1, ReadingAt
  <1> DEFINE n == Len(Told.deps)
  <1>3. PICK P, len : \E k \in 0..n :
          /\ ListAt(P, len, file, Told) /\ P[k] <= file.deps_len
          /\ rd = [at |-> "dep", off |-> file.deps_off + P[k], left |-> n - k]
          /\ read = ReadSoFar(Told, k, FALSE, FALSE)
    BY <1>2 DEF AtDep
  <1>4. PICK k \in 0..n :
          /\ ListAt(P, len, file, Told) /\ P[k] <= file.deps_len
          /\ rd = [at |-> "dep", off |-> file.deps_off + P[k], left |-> n - k]
          /\ read = ReadSoFar(Told, k, FALSE, FALSE)
    BY <1>3
  <1>5. n \in Nat /\ k + 1 \in 1..n /\ (k + 1) - 1 = k /\ k + 1 \in 0..n
        /\ n - (k + 1) = (n - k) - 1 /\ n - k \in Nat
    <2>1. n \in Nat
      BY <1>2, DataFields
    <2>2. n - k > 0
      BY <1>1, <1>4
    <2> QED
      BY <2>1, <2>2
  <1> DEFINE d == Told.deps[k + 1]
             l == Len(d.name)
             o == file.deps_off + P[k]
  <1>6. /\ P[k + 1] \in Nat /\ l \in Nat /\ o \in Nat
        /\ UintAt(o) = l + 1 /\ ByteAt(o + 4 + l) = 0
        /\ CString(o + 4) = d.name
        /\ Bytes(o + 5 + l, 20) = d.sha
        /\ file.deps_off + P[k + 1] = o + 25 + l
        /\ o + 25 + l > DepsEnd <=> P[k + 1] > file.deps_len
        /\ o + 4 > DepsEnd => P[k + 1] > file.deps_len
        /\ P[k + 1] > file.deps_len => file.damage # "none"
    <2>1. P[(k + 1) - 1] = P[k]
      BY <1>5
    <2> QED
      BY <1>2, <1>4, <1>5, <2>1, DepFound
  <1>7. d \in Dependencies /\ file.deps_len \in Nat
    BY <1>2, <1>5, DataFields, HoldsFields
  <1> HIDE DEF d, l, o, n
  <1>8. rd.off = o /\ rd.left = n - k /\ rd.at = "dep"
    BY <1>4 DEF o
  <1>9. /\ (o + 4) + (l + 1) + 20 = o + 25 + l
        /\ (o + 4) + (l + 1) - 1 = o + 4 + l
        /\ (o + 4) + (l + 1) = o + 5 + l
    BY <1>6
  <1> DEFINE ln == UintAt(rd.off)
             name == rd.off + 4
             nul == name + ln - 1
  <1>10. /\ name = o + 4 /\ nul = o + 4 + l /\ name + ln + 20 = o + 25 + l
         /\ name + ln = o + 5 + l
    BY <1>6, <1>8, <1>9
  <1>11. CASE P[k + 1] > file.deps_len
    <2>1. name + ln + 20 > DepsEnd
      BY <1>6, <1>10, <1>11
    <2>2. Reject
      BY <2>1 DEF ReadDep
    <2>3. read.deps \in ReadDeps
      <3>1. read.deps = SubSeq(Told.deps, 1, k)
        BY <1>4 DEF ReadSoFar
      <3> QED
        BY <1>2, <3>1, ReadDepsTyped DEF n
    <2>4. rd = [at |-> "dep", off |-> file.deps_off + P[k], left |-> n - k]
          /\ file.damage # "none" /\ n - k \in Nat
      BY <1>4, <1>5, <1>6, <1>11
    <2> QED
      BY <1>1, <1>2, <2>2, <2>3, <2>4, Refuses
  <1>12. CASE ~(P[k + 1] > file.deps_len)
    <2>1. /\ read' = [read EXCEPT !.deps = Append(read.deps, [name |-> d.name, sha |-> d.sha])]
          /\ rd' = [rd EXCEPT !.off = o + 25 + l, !.left = rd.left - 1]
      <3>1. /\ CString(name) = d.name /\ Bytes(name + ln, 20) = d.sha /\ ByteAt(nul) = 0
            /\ ~(name + ln + 20 > DepsEnd) /\ ~(rd.off + 4 > DepsEnd)
        BY <1>6, <1>8, <1>10, <1>12
      <3>2. /\ read' = [read EXCEPT !.deps = Append(read.deps,
                                     [name |-> CString(name), sha |-> Bytes(name + ln, 20)])]
            /\ rd' = [rd EXCEPT !.off = name + ln + 20, !.left = rd.left - 1]
        BY <3>1 DEF ReadDep
      <3> HIDE DEF ln, name, nul
      <3> QED
        BY <1>10, <3>1, <3>2
    <2> HIDE DEF ln, name, nul
    <2>2. [name |-> d.name, sha |-> d.sha] = d
      BY <1>7 DEF Dependencies
    <2>3. Append(SubSeq(Told.deps, 1, k), d) = SubSeq(Told.deps, 1, k + 1)
      <3>1. Told.deps \in Seq(Dependencies)
        BY <1>2, DataFields
      <3>2. \A D : \A s \in Seq(D) : \A j \in 0..Len(s) :
              j + 1 \in 1..Len(s) => Append(SubSeq(s, 1, j), s[j + 1]) = SubSeq(s, 1, j + 1)
        OBVIOUS
      <3> QED
        BY <1>5, <3>1, <3>2 DEF d, n
    <2>4. read' = ReadSoFar(Told, k + 1, FALSE, FALSE)
      BY <1>4, <2>1, <2>2, <2>3 DEF ReadSoFar
    <2>5. rd' = [at |-> "dep", off |-> file.deps_off + P[k + 1], left |-> n - (k + 1)]
      BY <1>4, <1>5, <1>6, <1>8, <2>1
    <2>6. AtDep'
      <3>1. ListAt(P, len, file', Told') /\ P[k + 1] <= file'.deps_len
        BY <1>1, <1>4, <1>6, <1>7, <1>12
      <3>2. rd' = [at |-> "dep", off |-> file'.deps_off + P[k + 1], left |-> Len(Told'.deps) - (k + 1)]
        BY <1>1, <2>5 DEF n
      <3>3. read' = ReadSoFar(Told', k + 1, FALSE, FALSE)
        BY <1>1, <2>4
      <3>4. k + 1 \in 0..Len(Told'.deps)
        BY <1>1, <1>5 DEF n
      <3> QED
        BY <3>1, <3>2, <3>3, <3>4 DEF AtDep
    <2> QED
      BY <1>1, <1>2, <2>6, GoesOn
  <1> QED
    BY <1>11, <1>12

(* After the last dependency the reader is at the aux data.                *)
LEMMA DepsReadStep ==
  ASSUME OdexInv, DepsRead
  PROVE  OdexInv'
  <1>1. rd.at = "dep" /\ rd.left = 0 /\ UNCHANGED <<meta, file>> /\ read' = read
        /\ Told' = Told
    BY DEF DepsRead, Told, ToldBy
  <1>2. Reading /\ Told \in OdexData /\ Holds(file, Told) /\ AtDep
    BY <1>1, ReadingAt
  <1> DEFINE n == Len(Told.deps)
  <1>3. PICK o : \E k \in 0..n :
          /\ rd = [at |-> "dep", off |-> o, left |-> n - k]
          /\ read = ReadSoFar(Told, k, FALSE, FALSE)
    BY <1>2 DEF AtDep
  <1>4. PICK k \in 0..n :
          /\ rd = [at |-> "dep", off |-> o, left |-> n - k]
          /\ read = ReadSoFar(Told, k, FALSE, FALSE)
    BY <1>3
  <1>5. k = n
    <2>1. n \in Nat
      BY <1>2, DataFields
    <2>2. n - k = 0
      BY <1>1, <1>4
    <2> QED
      BY <2>1, <2>2
  <1>6. file.aux_off # 0
    <2>1. /\ file.deps_off \in Nat /\ file.deps_off + 16 <= file.aux_off
          /\ file.aux_off \in Nat
      BY <1>2, HoldsFields
    <2> QED
      BY <2>1
  <1>7. rd' = [at |-> "aux", off |-> o, left |-> 0]
    BY <1>1, <1>4, <1>6 DEF DepsRead
  <1>8. AtAux'
    <2>1. read' = ReadSoFar(Told', Len(Told'.deps), FALSE, FALSE)
      BY <1>1, <1>4, <1>5
    <2> QED
      BY <1>7, <2>1 DEF AtAux
  <1> QED
    BY <1>1, <1>2, <1>8, GoesOn

(* The reader of the aux data has read all dependencies.                   *)
LEMMA AllDeps ==
  ASSUME Told \in OdexData
  PROVE  SubSeq(Told.deps, 1, Len(Told.deps)) = Told.deps
  <1>1. \A D : \A s \in Seq(D) : SubSeq(s, 1, Len(s)) = s
    OBVIOUS
  <1> QED
    BY <1>1, DataFields

(* The data with a class lookup.                                           *)
LEMMA DataMarked ==
  ASSUME NEW m \in OdexData
  PROVE  [m EXCEPT !.has_class_lookup = TRUE]
         = [odex_version |-> m.odex_version, flags |-> m.flags, dex_mod_time |-> m.dex_mod_time,
            dex_crc |-> m.dex_crc, vm_version |-> m.vm_version,
            deps |-> m.deps, aux_format |-> m.aux_format,
            has_class_lookup |-> TRUE, has_register_maps |-> m.has_register_maps]
  <1> DEFINE x == [m EXCEPT !.has_class_lookup = TRUE]
  <1> DEFINE D == Seq([name : Seq(1..255), sha : [1..20 -> 0..255]])
             V == {35, 36}
             F == {FORMAT_NEW, FORMAT_OLD}
             B == BOOLEAN
  <1>1. OdexData = [odex_version : V, flags : Nat, dex_mod_time : Nat, dex_crc : Nat,
                    vm_version : Nat, deps : D, aux_format : F,
                    has_class_lookup : B, has_register_maps : B]
    BY DEF OdexData
  <1> DEFINE c == TRUE
  <1>2. c \in B /\ x = [m EXCEPT !.has_class_lookup = c]
    OBVIOUS
  <1> HIDE DEF D, V, F, B, c, x
  <1>3. /\ x \in OdexData /\ x.odex_version = m.odex_version /\ x.flags = m.flags
        /\ x.dex_mod_time = m.dex_mod_time /\ x.dex_crc = m.dex_crc
        /\ x.vm_version = m.vm_version /\ x.deps = m.deps
        /\ x.aux_format = m.aux_format /\ x.has_class_lookup = c
        /\ x.has_register_maps = m.has_register_maps
    BY <1>1, <1>2
  <1>4. x = [odex_version |-> x.odex_version, flags |-> x.flags, dex_mod_time |-> x.dex_mod_time,
             dex_crc |-> x.dex_crc, vm_version |-> x.vm_version,
             deps |-> x.deps, aux_format |-> x.aux_format,
             has_class_lookup |-> x.has_class_lookup,
             has_register_maps |-> x.has_register_maps]
    BY <1>3, DataRecord
  <1>5. x = [odex_version |-> m.odex_version, flags |-> m.flags, dex_mod_time |-> m.dex_mod_time,
             dex_crc |-> m.dex_crc, vm_version |-> m.vm_version,
             deps |-> m.deps, aux_format |-> m.aux_format,
             has_class_lookup |-> TRUE, has_register_maps |-> m.has_register_maps]
    BY <1>3, <1>4 DEF c
  <1> QED
    BY <1>5 DEF x

(* The first word of the aux data tells the old format from the new one.   *)
LEMMA OpenAuxStep ==
  ASSUME OdexInv, OpenAux
  PROVE  OdexInv'
  <1>1. rd.at = "aux" /\ UNCHANGED <<meta, file>> /\ Told' = Told
    BY DEF OpenAux, Told, ToldBy
  <1>2. Reading /\ Told \in OdexData /\ Holds(file, Told) /\ AtAux
    BY <1>1, ReadingAt
  <1> DEFINE D == file.deps_off
             base == file.aux_off - D
             n == Len(Told.deps)
  <1>3. D \in Nat /\ file.aux_off \in Nat /\ base \in Nat /\ D + base = file.aux_off
    <2>1. /\ file.deps_off \in Nat /\ file.deps_off + 16 <= file.aux_off
          /\ file.aux_off \in Nat
      BY <1>2, HoldsFields
    <2> QED
      BY <2>1
  <1> HIDE DEF base
  <1>4. PICK z : rd = [at |-> "aux", off |-> z, left |-> 0]
    BY <1>2 DEF AtAux
  <1>5. read = ReadSoFar(Told, n, FALSE, FALSE)
    BY <1>2 DEF AtAux
  <1>6. AuxAt(file.tail, base, Told)
    BY <1>2 DEF Holds, base
  <1>7. CASE Told.aux_format = FORMAT_OLD
    <2>1. Segment(file.tail, base, Uint(0)) /\ ~Told.has_register_maps
      <3>1. Told.aux_format # FORMAT_NEW
        BY <1>7 DEF FORMAT_OLD, FORMAT_NEW
      <3> QED
        BY <1>6, <3>1 DEF AuxAt
    <2>2. UintAt(file.aux_off) = 0
      <3>1. UintAt(D + base) = 0
        BY <1>2, <1>3, <2>1, UintFound
      <3> QED
        BY <1>3, <3>1
    <2>3. /\ read' = [read EXCEPT !.aux_format = FORMAT_OLD, !.has_class_lookup = TRUE]
          /\ rd' = [rd EXCEPT !.at = "dex"]
      BY <2>2 DEF OpenAux
    <2>4. rd' = [at |-> "dex", off |-> z, left |-> 0]
      BY <1>4, <2>3
    <2>5. read' = [Told EXCEPT !.has_class_lookup = @ \/ Told.aux_format = FORMAT_OLD]
      <3>1. (Told.has_class_lookup \/ Told.aux_format = FORMAT_OLD) = TRUE
        BY <1>7
      <3>2. Told.has_register_maps = FALSE
        BY <1>2, <2>1, DataFields
      <3>3. SubSeq(Told.deps, 1, n) = Told.deps
        BY <1>2, AllDeps
      <3>4. read' = [odex_version |-> Told.odex_version, flags |-> Told.flags,
                     dex_mod_time |-> Told.dex_mod_time,
                     dex_crc |-> Told.dex_crc, vm_version |-> Told.vm_version,
                     deps |-> Told.deps, aux_format |-> Told.aux_format,
                     has_class_lookup |-> TRUE, has_register_maps |-> Told.has_register_maps]
        BY <1>5, <1>7, <2>3, <3>2, <3>3 DEF ReadSoFar
      <3>5. [Told EXCEPT !.has_class_lookup = TRUE]
              = [odex_version |-> Told.odex_version, flags |-> Told.flags,
                 dex_mod_time |-> Told.dex_mod_time,
                 dex_crc |-> Told.dex_crc, vm_version |-> Told.vm_version,
                 deps |-> Told.deps, aux_format |-> Told.aux_format,
                 has_class_lookup |-> TRUE, has_register_maps |-> Told.has_register_maps]
        BY <1>2, DataMarked
      <3> QED
        BY <3>1, <3>4, <3>5
    <2>6. AtDex'
      BY <1>1, <2>4, <2>5 DEF AtDex, ReadTold
    <2> QED
      BY <1>1, <1>2, <2>6, GoesOn
  <1>8. CASE Told.aux_format # FORMAT_OLD
    <2>1. Told.aux_format = FORMAT_NEW /\ \E c, Q : ChunksAt(Q, c, file.tail, base, Told)
      BY <1>6, <1>8 DEF AuxAt
    <2>2. PICK c, Q : ChunksAt(Q, c, file.tail, base, Told)
      BY <2>1
    <2>3. Q[0] = base /\ 0 \in 0..Len(c) /\ Len(c) \in Nat /\ c \in Seq(Chunks)
      BY <2>2 DEF ChunksAt
    <2>4. UintAt(file.aux_off) # 0
      <3>1. CASE Len(c) = 0
        <4>1. Segment(file.tail, base, Uint(AUX_END))
          BY <2>2, <2>3, <3>1 DEF ChunksAt
        <4>2. UintAt(D + base) = AUX_END
          BY <1>2, <1>3, <4>1, EndCode, UintFound
        <4> QED
          BY <1>3, <4>2 DEF AUX_END
      <3>2. CASE Len(c) # 0
        <4>1. 1 \in 1..Len(c) /\ 1 - 1 = 0
          BY <2>3, <3>2
        <4>2. Segment(file.tail, Q[1 - 1], Uint(c[1].code))
          BY <2>2, <4>1 DEF ChunksAt
        <4>3. c[1].code \in Nat /\ c[1].code # 0
          BY <2>3, <4>1, ChunkFields
        <4>4. Segment(file.tail, base, Uint(c[1].code))
          BY <2>3, <4>1, <4>2
        <4>5. UintAt(D + base) = c[1].code
          BY <1>2, <1>3, <4>3, <4>4, UintFound
        <4> QED
          BY <1>3, <4>3, <4>5
      <3> QED
        BY <3>1, <3>2
    <2>5. /\ read' = read
          /\ rd' = [rd EXCEPT !.at = "chunk", !.off = file.aux_off]
      BY <2>4 DEF OpenAux
    <2>6. rd' = [at |-> "chunk", off |-> D + Q[0], left |-> 0]
      BY <1>3, <1>4, <2>3, <2>5
    <2>7. HasChunk(c, 0, AUX_CLASS_LOOKUP) = FALSE /\ HasChunk(c, 0, AUX_REGISTER_MAPS) = FALSE
      BY DEF HasChunk
    <2>8. AtChunk'
      <3>1. ChunksAt(Q, c, file'.tail, file'.aux_off - file'.deps_off, Told')
        BY <1>1, <2>2 DEF base
      <3>2. rd' = [at |-> "chunk", off |-> file'.deps_off + Q[0], left |-> 0]
        BY <1>1, <2>6
      <3>3. read' = ReadSoFar(Told', Len(Told'.deps), HasChunk(c, 0, AUX_CLASS_LOOKUP),
                              HasChunk(c, 0, AUX_REGISTER_MAPS))
        <4>1. read' = ReadSoFar(Told', Len(Told'.deps), FALSE, FALSE)
          BY <1>1, <1>5, <2>5
        <4> QED
          BY <2>7, <4>1, Zenon
      <3>4. Told'.aux_format = FORMAT_NEW /\ 0 \in 0..Len(c)
        BY <1>1, <2>1, <2>3
      <3> QED
        BY <3>1, <3>2, <3>3, <3>4 DEF AtChunk
    <2> QED
      BY <1>1, <1>2, <2>8, GoesOn
  <1> QED
    BY <1>7, <1>8
-----------------------------------------------------------------------------
(* What the reader finds where it looks for a chunk.                       *)
LEMMA ChunkFound ==
  ASSUME Told \in OdexData, Holds(file, Told), NEW c, NEW Q,
         ChunksAt(Q, c, file.tail, file.aux_off - file.deps_off, Told),
         NEW k \in 0..Len(c)
  PROVE  /\ Len(c) \in Nat /\ Q[k] \in Nat /\ file.deps_off \in Nat
         /\ k = Len(c) => UintAt(file.deps_off + Q[k]) = AUX_END
         /\ k # Len(c) =>
              /\ k + 1 \in 0..Len(c)
              /\ UintAt(file.deps_off + Q[k]) = c[k + 1].code
              /\ c[k + 1].code # AUX_END
              /\ (file.deps_off + Q[k]) + ChunkStep(UintAt(file.deps_off + Q[k] + 4))
                   = file.deps_off + Q[k + 1]
  <1> DEFINE n == Len(c)
             D == file.deps_off
             s == file.tail
             base == file.aux_off - file.deps_off
  <1>1. /\ c \in Seq(Chunks) /\ n \in Nat /\ Q \in [0..n -> Nat]
        /\ Segment(s, Q[n], Uint(AUX_END))
        /\ \A j \in 1..n :
             /\ Q[j] = Q[j - 1] + ChunkStep(Len(c[j].data))
             /\ Segment(s, Q[j - 1], Uint(c[j].code))
             /\ Segment(s, Q[j - 1] + 4, Uint(Len(c[j].data)))
    BY DEF ChunksAt
  <1>2. D \in Nat
    BY HoldsFields
  <1>3. Q[k] \in Nat /\ Q[k] + 4 \in Nat
    <2>1. Q[k] \in Nat
      BY <1>1
    <2> QED
      BY <2>1
  <1>4. CASE k = n
    <2>1. UintAt(D + Q[k]) = AUX_END
      BY <1>1, <1>3, <1>4, EndCode, UintFound
    <2> QED
      BY <1>1, <1>2, <1>3, <1>4, <2>1
  <1>5. CASE k # n
    <2>1. k + 1 \in 1..n /\ k + 1 \in 0..n /\ (k + 1) - 1 = k
      BY <1>1, <1>5
    <2>2. /\ c[k + 1].code \in Nat /\ c[k + 1].code # AUX_END
          /\ Len(c[k + 1].data) \in Nat
      BY <1>1, <2>1, ChunkFields
    <2>3. /\ Q[k + 1] = Q[(k + 1) - 1] + ChunkStep(Len(c[k + 1].data))
          /\ Segment(s, Q[(k + 1) - 1], Uint(c[k + 1].code))
          /\ Segment(s, Q[(k + 1) - 1] + 4, Uint(Len(c[k + 1].data)))
      BY <1>1, <2>1
    <2>4. /\ Q[k + 1] = Q[k] + ChunkStep(Len(c[k + 1].data))
          /\ Segment(s, Q[k], Uint(c[k + 1].code))
          /\ Segment(s, Q[k] + 4, Uint(Len(c[k + 1].data)))
      BY <2>1, <2>3
    <2>5. UintAt(D + Q[k]) = c[k + 1].code
      BY <1>3, <2>2, <2>4, UintFound
    <2>6. UintAt(D + (Q[k] + 4)) = Len(c[k + 1].data)
      BY <1>3, <2>2, <2>4, UintFound
    <2>7. D + Q[k] + 4 = D + (Q[k] + 4)
      BY <1>2, <1>3
    <2>8. ChunkStep(Len(c[k + 1].data)) \in Nat
      BY <2>2, ChunkStepFacts
    <2>9. (D + Q[k]) + ChunkStep(Len(c[k + 1].data)) = D + Q[k + 1]
      <3>1. \A x, y, z, w \in Nat : w = y + z => (x + y) + z = x + w
        OBVIOUS
      <3>2. Q[k + 1] \in Nat
        BY <1>1, <2>1
      <3> QED
        BY <1>2, <1>3, <2>4, <2>8, <3>1, <3>2
    <2>10. (D + Q[k]) + ChunkStep(UintAt(D + Q[k] + 4)) = D + Q[k + 1]
      BY <2>6, <2>7, <2>9
    <2> QED
      BY <1>1, <1>2, <1>3, <1>5, <2>1, <2>2, <2>5, <2>10
  <1> QED
    BY <1>4, <1>5

(* One chunk more.                                                         *)
LEMMA HasOneMore ==
  ASSUME NEW c, NEW k \in Nat, NEW code
  PROVE  HasChunk(c, k + 1, code) = (HasChunk(c, k, code) \/ c[k + 1].code = code)
  <1>1. 1..k + 1 = (1..k) \cup {k + 1}
    OBVIOUS
  <1> QED
    BY <1>1 DEF HasChunk

(* A step over a chunk leads to the next one, and has seen its code.       *)
LEMMA ReadChunkStep ==
  ASSUME OdexInv, ReadChunk
  PROVE  OdexInv'
  <1>1. rd.at = "chunk" /\ UNCHANGED <<meta, file>> /\ Told' = Told
    BY DEF ReadChunk, Told, ToldBy
  <1>2. Reading /\ Told \in OdexData /\ Holds(file, Told) /\ AtChunk
    BY <1>1, ReadingAt
  <1> DEFINE D == file.deps_off
             base == file.aux_off - file.deps_off
             n == Len(Told.deps)
  <1>3. PICK c, Q : \E k \in 0..Len(c) :
          /\ ChunksAt(Q, c, file.tail, base, Told)
          /\ rd = [at |-> "chunk", off |-> D + Q[k], left |-> 0]
          /\ read = ReadSoFar(Told, n, HasChunk(c, k, AUX_CLASS_LOOKUP),
                              HasChunk(c, k, AUX_REGISTER_MAPS))
    BY <1>2 DEF AtChunk
  <1>4. PICK k \in 0..Len(c) :
          /\ ChunksAt(Q, c, file.tail, base, Told)
          /\ rd = [at |-> "chunk", off |-> D + Q[k], left |-> 0]
          /\ read = ReadSoFar(Told, n, HasChunk(c, k, AUX_CLASS_LOOKUP),
                              HasChunk(c, k, AUX_REGISTER_MAPS))
    BY <1>3
  <1>5. rd.off = D + Q[k] /\ UintAt(rd.off) # AUX_END
    BY <1>4 DEF ReadChunk
  <1>6. /\ k + 1 \in 0..Len(c) /\ k \in Nat
        /\ UintAt(rd.off) = c[k + 1].code
        /\ rd.off + ChunkStep(UintAt(rd.off + 4)) = D + Q[k + 1]
    <2>1. /\ k # Len(c)
          /\ k + 1 \in 0..Len(c)
          /\ UintAt(D + Q[k]) = c[k + 1].code
          /\ (D + Q[k]) + ChunkStep(UintAt(D + Q[k] + 4)) = D + Q[k + 1]
      BY <1>2, <1>4, <1>5, ChunkFound
    <2>2. k \in Nat
      OBVIOUS
    <2> QED
      BY <1>5, <2>1, <2>2
  <1>7. /\ read' = [read EXCEPT !.aux_format = FORMAT_NEW,
                      !.has_class_lookup = read.has_class_lookup \/ c[k + 1].code = AUX_CLASS_LOOKUP,
                      !.has_register_maps = read.has_register_maps \/ c[k + 1].code = AUX_REGISTER_MAPS]
        /\ rd' = [rd EXCEPT !.off = D + Q[k + 1]]
    BY <1>6 DEF ReadChunk
  <1> DEFINE hl == HasChunk(c, k, AUX_CLASS_LOOKUP)
             hm == HasChunk(c, k, AUX_REGISTER_MAPS)
             nl == HasChunk(c, k + 1, AUX_CLASS_LOOKUP)
             nm == HasChunk(c, k + 1, AUX_REGISTER_MAPS)
  <1>8. /\ nl = (hl \/ c[k + 1].code = AUX_CLASS_LOOKUP)
        /\ nm = (hm \/ c[k + 1].code = AUX_REGISTER_MAPS)
    BY <1>6, HasOneMore
  <1>9. read = ReadSoFar(Told, n, hl, hm)
    BY <1>4
  <1> HIDE DEF hl, hm, nl, nm
  <1>10. read.has_class_lookup = hl /\ read.has_register_maps = hm
    BY <1>9 DEF ReadSoFar
  <1>11. read' = [read EXCEPT !.aux_format = FORMAT_NEW, !.has_class_lookup = nl,
                              !.has_register_maps = nm]
    BY <1>7, <1>8, <1>10
  <1>12. read' = ReadSoFar(Told, n, nl, nm)
    BY <1>9, <1>11 DEF ReadSoFar
  <1>13. rd' = [at |-> "chunk", off |-> D + Q[k + 1], left |-> 0]
    BY <1>4, <1>7
  <1>14. AtChunk'
    <2>1. ChunksAt(Q, c, file'.tail, file'.aux_off - file'.deps_off, Told')
      BY <1>1, <1>4
    <2>2. rd' = [at |-> "chunk", off |-> file'.deps_off + Q[k + 1], left |-> 0]
      BY <1>1, <1>13
    <2>3. read' = ReadSoFar(Told', Len(Told'.deps), HasChunk(c, k + 1, AUX_CLASS_LOOKUP),
                            HasChunk(c, k + 1, AUX_REGISTER_MAPS))
      BY <1>1, <1>12 DEF nl, nm
    <2>4. Told'.aux_format = FORMAT_NEW
      BY <1>1, <1>2 DEF AtChunk
    <2> QED
      BY <1>6, <2>1, <2>2, <2>3, <2>4 DEF AtChunk
  <1> QED
    BY <1>1, <1>2, <1>14, GoesOn

(* At the end mark every chunk has been seen, and the OdexData is          *)
(* complete.                                                               *)
LEMMA AuxReadStep ==
  ASSUME OdexInv, AuxRead
  PROVE  OdexInv'
  <1>1. rd.at = "chunk" /\ UintAt(rd.off) = AUX_END
        /\ UNCHANGED <<meta, file>> /\ Told' = Told /\ read' = read
    BY DEF AuxRead, Told, ToldBy
  <1>2. Reading /\ Told \in OdexData /\ Holds(file, Told) /\ AtChunk /\ Told.aux_format = FORMAT_NEW
    BY <1>1, ReadingAt DEF AtChunk
  <1> DEFINE D == file.deps_off
             base == file.aux_off - file.deps_off
             n == Len(Told.deps)
  <1>3. PICK c, Q : \E k \in 0..Len(c) :
          /\ ChunksAt(Q, c, file.tail, base, Told)
          /\ rd = [at |-> "chunk", off |-> D + Q[k], left |-> 0]
          /\ read = ReadSoFar(Told, n, HasChunk(c, k, AUX_CLASS_LOOKUP),
                              HasChunk(c, k, AUX_REGISTER_MAPS))
    BY <1>2 DEF AtChunk
  <1>4. PICK k \in 0..Len(c) :
          /\ ChunksAt(Q, c, file.tail, base, Told)
          /\ rd = [at |-> "chunk", off |-> D + Q[k], left |-> 0]
          /\ read = ReadSoFar(Told, n, HasChunk(c, k, AUX_CLASS_LOOKUP),
                              HasChunk(c, k, AUX_REGISTER_MAPS))
    BY <1>3
  <1>5. k = Len(c)
    <2>1. rd.off = D + Q[k]
      BY <1>4
    <2>2. k # Len(c) => UintAt(D + Q[k]) = c[k + 1].code /\ c[k + 1].code # AUX_END
      BY <1>2, <1>4, ChunkFound
    <2> QED
      BY <1>1, <2>1, <2>2
  <1>6. /\ Told.has_class_lookup = HasChunk(c, Len(c), AUX_CLASS_LOOKUP)
        /\ Told.has_register_maps = HasChunk(c, Len(c), AUX_REGISTER_MAPS)
    BY <1>4 DEF ChunksAt
  <1>7. read = ReadSoFar(Told, n, Told.has_class_lookup, Told.has_register_maps)
    BY <1>4, <1>5, <1>6, Zenon
  <1>8. read = Told
    <2>1. Told = [odex_version |-> Told.odex_version, flags |-> Told.flags,
                  dex_mod_time |-> Told.dex_mod_time,
                  dex_crc |-> Told.dex_crc, vm_version |-> Told.vm_version,
                  deps |-> Told.deps, aux_format |-> Told.aux_format,
                  has_class_lookup |-> Told.has_class_lookup,
                  has_register_maps |-> Told.has_register_maps]
      BY <1>2, DataRecord
    <2>2. SubSeq(Told.deps, 1, n) = Told.deps
      BY <1>2, AllDeps
    <2>3. ReadSoFar(Told, n, Told.has_class_lookup, Told.has_register_maps)
          = [odex_version |-> Told.odex_version, flags |-> Told.flags,
             dex_mod_time |-> Told.dex_mod_time,
             dex_crc |-> Told.dex_crc, vm_version |-> Told.vm_version,
             deps |-> Told.deps, aux_format |-> Told.aux_format,
             has_class_lookup |-> Told.has_class_lookup,
             has_register_maps |-> Told.has_register_maps]
      BY <1>2, <2>2 DEF ReadSoFar
    <2> QED
      BY <1>7, <2>1, <2>3, Zenon
  <1>9. [Told EXCEPT !.has_class_lookup = @ \/ Told.aux_format = FORMAT_OLD] = Told
    <2>1. (Told.has_class_lookup \/ Told.aux_format = FORMAT_OLD) = Told.has_class_lookup
      <3>1. Told.aux_format # FORMAT_OLD
        BY <1>2 DEF FORMAT_NEW, FORMAT_OLD
      <3>2. Told.has_class_lookup \in BOOLEAN
        BY <1>2, DataFields
      <3> QED
        BY <3>1, <3>2
    <2>2. [Told EXCEPT !.has_class_lookup = Told.has_class_lookup] = Told
      <3>1. \A V, A, F, B, E :
              \A r \in [odex_version : V, flags : A, dex_mod_time : A, dex_crc : A,
                        vm_version : A, deps : E, aux_format : F, has_class_lookup : B, has_register_maps : B] :
                [r EXCEPT !.has_class_lookup = r.has_class_lookup] = r
        OBVIOUS
      <3> QED
        BY <1>2, <3>1 DEF OdexData
    <2> QED
      BY <2>1, <2>2
  <1>10. rd' = [at |-> "dex", off |-> D + Q[k], left |-> 0]
    BY <1>4 DEF AuxRead
  <1>11. AtDex'
    <2>1. read' = [Told' EXCEPT !.has_class_lookup = @ \/ Told'.aux_format = FORMAT_OLD]
      BY <1>1, <1>8, <1>9
    <2> QED
      BY <1>10, <2>1 DEF AtDex, ReadTold
  <1> QED
    BY <1>1, <1>2, <1>11, GoesOn

(* The dependencies of the OdexData have the type of the reader's list.    *)
LEMMA ToldRead ==
  ASSUME Told \in OdexData, ReadTold
  PROVE  read.deps \in ReadDeps
  <1>1. read.deps = Told.deps
    BY DEF ReadTold, OdexData
  <1>2. SubSeq(Told.deps, 1, Len(Told.deps)) = Told.deps
    BY AllDeps
  <1>3. Len(Told.deps) \in 0..Len(Told.deps)
    <2>1. Len(Told.deps) \in Nat
      BY DataFields
    <2> QED
      BY <2>1
  <1> QED
    BY <1>1, <1>2, <1>3, ReadDepsTyped

(* A changed dex file and a header that leads to another one are refused;  *)
(* everything else is accepted.                                            *)
LEMMA CheckDexStep ==
  ASSUME OdexInv, CheckDex
  PROVE  OdexInv'
  <1>1. rd.at = "dex" /\ UNCHANGED <<meta, file>> /\ Told' = Told
    BY DEF CheckDex, Told, ToldBy
  <1>2. Reading /\ Told \in OdexData /\ Holds(file, Told) /\ AtDex
    BY <1>1, ReadingAt
  <1>3. PICK o : rd = [at |-> "dex", off |-> o, left |-> 0]
    BY <1>2 DEF AtDex
  <1>4. Marked(file) /\ file \in OdexFiles
    BY <1>2 DEF Holds
  <1>5. CASE DexFound
    <2>1. file.damage \notin {"dex", "dex_off", "dex_len"}
      BY <1>4, <1>5 DEF DexFound, Marked
    <2>2. file'.damage \in {"none"} \cup Unnoticed
      BY <1>1, <1>4, <2>1 DEF Marked
    <2>3. rd' = [at |-> "accepted", off |-> o, left |-> 0] /\ read' = read
      BY <1>3, <1>5 DEF CheckDex
    <2>4. ReadTold'
      BY <1>1, <1>2, <2>3 DEF AtDex, ReadTold
    <2>5. AtEnd'
      BY <2>2, <2>3, <2>4 DEF AtEnd, Unnoticed
    <2> QED
      BY <1>1, <1>2, <2>5, GoesOn
  <1>6. CASE ~DexFound
    <2>1. Reject
      BY <1>6 DEF CheckDex
    <2>2. file.damage # "none"
      BY <1>4, <1>6 DEF DexFound, Marked
    <2>3. read.deps \in ReadDeps
      BY <1>2, ToldRead DEF AtDex
    <2>4. 0 \in Nat
      OBVIOUS
    <2> QED
      BY <1>1, <1>2, <1>3, <2>1, <2>2, <2>3, <2>4, Refuses
  <1> QED
    BY <1>5, <1>6

(* Nothing but the actions changes anything.                               *)
LEMMA StutterStep ==
  ASSUME OdexInv, UNCHANGED allVars
  PROVE  OdexInv'
  <1>1. UNCHANGED <<vars, meta, dex_sz, file, rd, read>>
    BY DEF allVars, odexVars
  <1>2. CASE Writing
    <2>1. [Next]_vars
      BY <1>1
    <2>2. IndInv' /\ ZeroInv'
      BY <1>2, <2>1, NextIndInv DEF Writing
    <2> QED
      BY <1>1, <1>2, <2>2 DEF OdexInv, Writing
  <1>3. CASE Reading
    <2>1. Told' = Told
      BY <1>1 DEF Told, ToldBy
    <2>2. /\ AtStart' = AtStart /\ AtDeps' = AtDeps /\ AtDep' = AtDep /\ AtAux' = AtAux
          /\ AtChunk' = AtChunk /\ AtDex' = AtDex /\ AtEnd' = AtEnd /\ AtReject' = AtReject
      BY <1>1, <2>1 DEF AtStart, AtDeps, AtDep, AtAux, AtChunk, AtDex, AtEnd, AtReject, ReadTold
    <2> QED
      BY <1>1, <1>3, <2>2, GoesOn DEF Reading
  <1>4. CASE Damaged
    <2>1. HeaderFails' = HeaderFails
      BY <1>1 DEF HeaderFails
    <2>2. WrongChecksum' = WrongChecksum
      BY <1>1 DEF WrongChecksum, Covered, Bytes, ByteAt, DepsEnd, NoChecksum
    <2> QED
      BY <1>1, <1>4, <2>1, <2>2 DEF OdexInv, Damaged
  <1> QED
    BY <1>2, <1>3, <1>4 DEF OdexInv

(* Every step of writing, damaging and reading an odex file keeps the      *)
(* invariant.                                                              *)
LEMMA OdexNext ==
  ASSUME OdexInv, [NextOdex]_allVars
  PROVE  OdexInv'
  <1>1. CASE UNCHANGED allVars
    BY <1>1, StutterStep
  <1>2. CASE Over
    BY <1>2, StutterStep DEF Over
  <1> QED
    BY <1>1, <1>2, BuildStep, WriteStep, CutStep, CorruptStep, OpenStep, OpenDepsStep,
       ReadDepStep, DepsReadStep, OpenAuxStep, ReadChunkStep, AuxReadStep, CheckDexStep
       DEF NextOdex, ReadOdex
-----------------------------------------------------------------------------
(* No file is taken for the missing one.                                   *)
LEMMA NoFileIsNone == NoFile \notin OdexFiles
  <1>1. \A f \in OdexFiles : "tail" \in DOMAIN f
    BY DEF OdexFiles
  <1>2. "tail" \notin DOMAIN NoFile
    BY DEF NoFile
  <1> QED
    BY <1>1, <1>2

(* The invariant implies the type invariant: the reader stays inside the   *)
(* sections of the file.                                                   *)
LEMMA OdexInvTyped ==
  ASSUME OdexInv
  PROVE  TypeOKOdex
  <1>0. << >> \in ReadDeps
    BY NoDeps
  <1>1. CASE Writing
    <2>1. TypeOK
      BY <1>1 DEF Writing, IndInv
    <2>2. rd.at = "closed" /\ rd.left = 0 /\ read.deps = << >>
      BY <1>1 DEF Writing, Closed, EmptyData
    <2> QED
      BY <1>0, <2>1, <2>2 DEF TypeOKOdex, ReadDeps
  <1>2. CASE Damaged
    <2>1. file # NoFile
      BY <1>2, NoFileIsNone DEF Damaged
    <2>2. rd.at \in {"closed", "rejected"} /\ rd.left = 0 /\ read.deps = << >>
      BY <1>2 DEF Damaged, Closed, EmptyData
    <2> QED
      BY <1>0, <2>1, <2>2 DEF TypeOKOdex, ReadDeps
  <1>3. CASE Reading
    <2>1. Told \in OdexData /\ Holds(file, Told)
      BY <1>3 DEF Reading, Telling
    <2>2. file # NoFile
      BY <2>1, NoFileIsNone DEF Holds
    <2>3. CASE AtStart \/ AtDeps
      <3>1. rd.at \in {"closed", "deps"} /\ rd.left = 0 /\ read.deps = << >>
        <4>1. CASE AtStart
          BY <4>1 DEF AtStart, Closed, EmptyData
        <4>2. CASE AtDeps
          BY <4>2 DEF AtDeps, EmptyData
        <4> QED
          BY <2>3, <4>1, <4>2
      <3> QED
        BY <1>0, <2>2, <3>1 DEF TypeOKOdex, ReadDeps
    <2>4. CASE AtDep
      <3>1. PICK P, len : \E k \in 0..Len(Told.deps) :
              /\ ListAt(P, len, file, Told) /\ P[k] <= file.deps_len
              /\ rd = [at |-> "dep", off |-> file.deps_off + P[k], left |-> Len(Told.deps) - k]
              /\ read = ReadSoFar(Told, k, FALSE, FALSE)
        BY <2>4 DEF AtDep
      <3>2. PICK k \in 0..Len(Told.deps) :
              /\ ListAt(P, len, file, Told) /\ P[k] <= file.deps_len
              /\ rd = [at |-> "dep", off |-> file.deps_off + P[k], left |-> Len(Told.deps) - k]
              /\ read = ReadSoFar(Told, k, FALSE, FALSE)
        BY <3>1
      <3>3. /\ P[k] \in Nat /\ P[k] >= 16 /\ P[k] <= file.deps_len
        <4>1. DepsAt(P, file.tail, len, Told) /\ Len(Told.deps) \in Nat
          BY <2>1, <3>2, DataFields DEF ListAt
        <4> QED
          BY <3>2, <4>1 DEF DepsAt
      <3>4. file.deps_off \in Nat /\ file.deps_len \in Nat /\ Len(Told.deps) \in Nat
        BY <2>1, HoldsFields, DataFields
      <3>5. rd.at = "dep" /\ rd.off = file.deps_off + P[k] /\ rd.left = Len(Told.deps) - k
        BY <3>2
      <3>6. rd.off \in file.deps_off + 16..DepsEnd
        <4>1. \A x, y, z \in Nat : z >= 16 /\ z <= y => x + z \in x + 16..x + y
          OBVIOUS
        <4> QED
          BY <3>3, <3>4, <3>5, <4>1 DEF DepsEnd
      <3>7. rd.left \in Nat
        BY <3>4, <3>5
      <3>8. read.deps \in ReadDeps
        BY <2>1, <3>2, ReadDepsTyped DEF ReadSoFar
      <3> QED
        BY <2>2, <3>5, <3>6, <3>7, <3>8 DEF TypeOKOdex, ReadDeps
    <2>5. CASE AtAux
      <3>1. PICK o : rd = [at |-> "aux", off |-> o, left |-> 0]
        BY <2>5 DEF AtAux
      <3>2. rd.at = "aux" /\ rd.left = 0
        BY <3>1
      <3>3. read = ReadSoFar(Told, Len(Told.deps), FALSE, FALSE)
        BY <2>5 DEF AtAux
      <3>4. Len(Told.deps) \in 0..Len(Told.deps)
        <4>1. Len(Told.deps) \in Nat
          BY <2>1, DataFields
        <4> QED
          BY <4>1
      <3>5. read.deps \in ReadDeps
        BY <2>1, <3>3, <3>4, ReadDepsTyped DEF ReadSoFar
      <3> QED
        BY <2>2, <3>2, <3>5 DEF TypeOKOdex, ReadDeps
    <2>6. CASE AtChunk
      <3> DEFINE base == file.aux_off - file.deps_off
      <3>1. PICK c, Q : \E k \in 0..Len(c) :
              /\ ChunksAt(Q, c, file.tail, base, Told)
              /\ rd = [at |-> "chunk", off |-> file.deps_off + Q[k], left |-> 0]
              /\ read = ReadSoFar(Told, Len(Told.deps), HasChunk(c, k, AUX_CLASS_LOOKUP),
                                  HasChunk(c, k, AUX_REGISTER_MAPS))
        BY <2>6 DEF AtChunk
      <3>2. PICK k \in 0..Len(c) :
              /\ ChunksAt(Q, c, file.tail, base, Told)
              /\ rd = [at |-> "chunk", off |-> file.deps_off + Q[k], left |-> 0]
              /\ read = ReadSoFar(Told, Len(Told.deps), HasChunk(c, k, AUX_CLASS_LOOKUP),
                                  HasChunk(c, k, AUX_REGISTER_MAPS))
        BY <3>1
      <3>3. /\ Q[k] \in Nat /\ Q[k] >= base /\ Q[k] <= Len(file.tail) - 4
            /\ (Q[k] - base) % 8 = 0
        BY <3>2 DEF ChunksAt
      <3>4. /\ file.deps_off \in Nat /\ file.deps_len \in Nat
            /\ file.aux_off \in Nat /\ file.aux_len \in Nat
            /\ file.deps_off + 16 <= file.aux_off
            /\ Len(file.tail) = (file.aux_off + file.aux_len) - file.deps_off
            /\ file.dex.off = 40 /\ (file.aux_off - 40) % 8 = 0
            /\ file.deps_off = 40 + file.dex.len /\ file.dex.len \in Nat
        BY <2>1, HoldsFields
      <3>5. rd.at = "chunk" /\ rd.off = file.deps_off + Q[k] /\ rd.left = 0
        BY <3>2
      <3> DEFINE D == file.deps_off
                 a == file.aux_off
                 l == file.aux_len
                 q == Q[k]
                 t == Len(file.tail)
      <3>6. /\ D \in Nat /\ a \in Nat /\ l \in Nat /\ q \in Nat /\ t \in Int
            /\ q >= a - D /\ q <= t - 4 /\ t = (a + l) - D
            /\ a - D \in Nat /\ a - 40 \in Nat
            /\ (a - 40) % 8 = 0 /\ (q - (a - D)) % 8 = 0
            /\ rd.off = D + q
        <4>1. file.deps_off >= 40 /\ file.aux_off >= file.deps_off
          <5>1. \A x, y, w \in Nat : x = 40 + y /\ x + 16 <= w => x >= 40 /\ w >= x
            OBVIOUS
          <5> QED
            BY <3>4, <5>1
        <4>2. a - D \in Nat /\ a - 40 \in Nat
          <5>1. \A x, w \in Nat : x >= 40 /\ w >= x => w - x \in Nat /\ w - 40 \in Nat
            OBVIOUS
          <5>2. D \in Nat /\ a \in Nat
            BY <3>4
          <5> QED
            BY <4>1, <5>1, <5>2
        <4>3. t \in Int
          <5>1. \A x, y, z \in Nat : (x + y) - z \in Int
            OBVIOUS
          <5> QED
            BY <3>4, <5>1
        <4> QED
          BY <3>3, <3>4, <3>5, <4>2, <4>3
      <3> HIDE DEF D, a, l, q, t
      <3>7. /\ rd.off \in a..a + l - 4
            /\ (rd.off - 40) % 8 = 0
        <4>1. D + q \in Int /\ D + q >= a /\ D + q <= a + (l - 4) /\ a + (l - 4) \in Int
          BY <3>6
        <4>2. q - (a - D) \in Nat /\ (D + q) - 40 = (a - 40) + (q - (a - D))
          BY <3>6
        <4>3. ((a - 40) + (q - (a - D))) % 8 = 0
          BY <3>6, <4>2, SumOfEights
        <4> QED
          BY <3>6, <4>1, <4>2, <4>3
      <3>8. Len(Told.deps) \in 0..Len(Told.deps)
        <4>1. Len(Told.deps) \in Nat
          BY <2>1, DataFields
        <4> QED
          BY <4>1
      <3>9. read.deps \in ReadDeps
        BY <2>1, <3>2, <3>8, ReadDepsTyped DEF ReadSoFar
      <3> QED
        BY <2>2, <3>4, <3>5, <3>7, <3>9 DEF TypeOKOdex, ReadDeps, a, l
    <2>7. CASE AtDex \/ AtEnd
      <3>1. PICK o : \/ rd = [at |-> "dex", off |-> o, left |-> 0]
                     \/ rd = [at |-> "accepted", off |-> o, left |-> 0]
        BY <2>7 DEF AtDex, AtEnd
      <3>2. rd.at \in {"dex", "accepted"} /\ rd.left = 0
        BY <3>1
      <3>3. read.deps \in ReadDeps
        BY <2>1, <2>7, ToldRead DEF AtDex, AtEnd
      <3> QED
        BY <2>2, <3>2, <3>3 DEF TypeOKOdex, ReadDeps
    <2>8. CASE AtReject
      BY <2>2, <2>8 DEF AtReject, TypeOKOdex, ReadDeps
    <2> QED
      BY <1>3, <2>3, <2>4, <2>5, <2>6, <2>7, <2>8 DEF Reading
  <1> QED
    BY <1>1, <1>2, <1>3 DEF OdexInv

(* Three fields of an OdexData set one after the other, or all at once.    *)
LEMMA ThreeFields ==
  ASSUME NEW m \in OdexData, NEW x, NEW v, NEW b
  PROVE  [[m EXCEPT !.flags = x, !.odex_version = v] EXCEPT !.has_class_lookup = b]
         = [m EXCEPT !.odex_version = v, !.flags = x, !.has_class_lookup = b]
  BY DEF OdexData

(* The invariant implies that what is accepted is what was written.        *)
LEMMA OdexInvReadsBack ==
  ASSUME OdexInv
  PROVE  ReadsBack
  <1>1. CASE Writing
    <2>1. rd.at = "closed"
      BY <1>1 DEF Writing, Closed
    <2> QED
      BY <2>1 DEF ReadsBack
  <1>2. CASE Damaged
    <2>1. rd.at \in {"closed", "rejected"} /\ file.damage # "none"
      BY <1>2 DEF Damaged, Closed
    <2> QED
      BY <2>1 DEF ReadsBack
  <1>3. CASE Reading
    <2>1. rd.at = "rejected" => file.damage # "none"
      BY <1>3, ReaderPlace DEF Reading, AtReject
    <2>2. ASSUME rd.at = "accepted"
          PROVE  /\ file.damage \in {"none"} \cup Unnoticed
                 /\ read = [meta EXCEPT
                      !.odex_version = IF file.damage = "version" THEN file.version ELSE @,
                      !.flags = IF file.damage = "flags" THEN file.flags ELSE @,
                      !.has_class_lookup = @ \/ meta.aux_format = FORMAT_OLD]
      <3>1. AtEnd /\ Telling
        BY <1>3, <2>2, ReaderPlace DEF Reading
      <3>2. file.damage \in {"none"} \cup Unnoticed /\ ReadTold
        BY <3>1 DEF AtEnd
      <3> DEFINE x == file.flags
                 v == file.version
                 b == meta.has_class_lookup \/ meta.aux_format = FORMAT_OLD
      <3>3. /\ meta \in OdexData
            /\ v = IF file.damage = "version" THEN file.version ELSE meta.odex_version
            /\ x = IF file.damage = "flags" THEN file.flags ELSE meta.flags
        BY <3>1 DEF Telling
      <3>4. x \in Nat /\ v \in {35, 36}
        <4>1. Told.flags = x /\ Told.odex_version = v /\ Told \in OdexData
          BY <3>1 DEF Telling, Holds
        <4> QED
          BY <4>1, DataFields
      <3>5. /\ Told.has_class_lookup = meta.has_class_lookup
            /\ Told.aux_format = meta.aux_format
        BY <3>3, <3>4, ToldFields DEF Told
      <3>6. read = [Told EXCEPT !.has_class_lookup = b]
        BY <3>2, <3>5 DEF ReadTold
      <3>7. Told = [meta EXCEPT !.flags = x, !.odex_version = v]
        BY DEF Told, ToldBy
      <3> HIDE DEF x, v, b
      <3>8. read = [meta EXCEPT !.odex_version = v, !.flags = x, !.has_class_lookup = b]
        <4>1. [[meta EXCEPT !.flags = x, !.odex_version = v] EXCEPT !.has_class_lookup = b]
              = [meta EXCEPT !.odex_version = v, !.flags = x, !.has_class_lookup = b]
          BY <3>3, ThreeFields, Zenon
        <4> QED
          BY <3>6, <3>7, <4>1, Zenon
      <3>9. read = [meta EXCEPT
                      !.odex_version = IF file.damage = "version" THEN file.version
                                       ELSE meta.odex_version,
                      !.flags = IF file.damage = "flags" THEN file.flags ELSE meta.flags,
                      !.has_class_lookup = b]
        BY <3>3, <3>8
      <3> QED
        BY <3>2, <3>9 DEF b
    <2> QED
      BY <2>1, <2>2 DEF ReadsBack
  <1> QED
    BY <1>1, <1>2, <1>3 DEF OdexInv
-----------------------------------------------------------------------------
(* A file without a list of dependencies, while it is read.                *)
Refused ==
  /\ Listless(file)
  /\ rd.at \in {"closed", "deps", "dep", "rejected"} /\ rd.left \in Nat
  /\ "deps" \in DOMAIN read
  /\ read.deps \in ReadDeps
  /\ DOMAIN rd = {"at", "off", "left"}
  /\ rd.at = "dep" =>
       \E k \in Nat : \E Q :
         /\ Chain(file, Q, k) /\ Q[k] <= file.deps_len
         /\ rd.off = file.deps_off + Q[k] /\ Count(file) = k + rd.left

(* The bytes of such a section.                                            *)
LEMMA ListlessFields ==
  ASSUME Listless(file)
  PROVE  /\ file.deps_off \in Nat /\ file.deps_off # 0 /\ file.deps_len \in Nat
         /\ DepsEnd = file.deps_off + file.deps_len
         /\ Len(file.tail) \in Nat /\ file.deps_len <= Len(file.tail)
         /\ \A x \in Nat : ByteAt(file.deps_off + x)
                           = IF x + 1 <= Len(file.tail) THEN file.tail[x + 1] ELSE -1
         /\ \A k \in 1..Len(file.tail) : file.tail[k] \in 0..255
  <1>1. /\ file.dex.off = 40 /\ file.dex.len \in Nat /\ file.deps_off = 40 + file.dex.len
        /\ file.deps_len \in Nat /\ file.deps_off \in Nat
    <2>1. file.dex.len \in Nat /\ file.deps_len \in Nat /\ file.deps_off \in Nat
      BY DEF Listless, OdexFiles
    <2> QED
      BY <2>1 DEF Listless, Sections
  <1>2. file.deps_off # 0
    BY <1>1
  <1>3. \A S : \A t \in Seq(S) : Len(t) \in Nat /\ \A k \in 1..Len(t) : t[k] \in S
    OBVIOUS
  <1>4. file.tail \in Seq(0..255) /\ file.deps_len <= Len(file.tail)
    BY DEF Listless
  <1>5. ASSUME NEW x \in Nat
        PROVE  ByteAt(file.deps_off + x)
               = IF x + 1 <= Len(file.tail) THEN file.tail[x + 1] ELSE -1
    <2>1. \A o \in Nat : (o + x) - o + 1 = x + 1
      OBVIOUS
    <2>2. (file.deps_off + x) - (file.dex.off + file.dex.len) + 1 = x + 1
      BY <1>1, <2>1
    <2>3. DOMAIN file.tail = 1..Len(file.tail) /\ Len(file.tail) \in Nat
      BY <1>4
    <2>4. x + 1 \in DOMAIN file.tail <=> x + 1 <= Len(file.tail)
      BY <2>3
    <2> QED
      BY <2>2, <2>4 DEF ByteAt
  <1>6. DepsEnd = file.deps_off + file.deps_len
    BY DEF DepsEnd
  <1>7. Len(file.tail) \in Nat /\ \A k \in 1..Len(file.tail) : file.tail[k] \in 0..255
    BY <1>3, <1>4
  <1> QED
    BY <1>1, <1>2, <1>4, <1>5, <1>6, <1>7, Zenon

(* Its numbers.                                                            *)
LEMMA ListlessUint ==
  ASSUME Listless(file), NEW x \in Nat, x + 4 <= file.deps_len
  PROVE  /\ UintAt(file.deps_off + x) = UintIn(file.tail, x + 1)
         /\ UintIn(file.tail, x + 1) \in Nat
  <1> DEFINE D == file.deps_off
             t == file.tail
             B == Bytes(D + x, 4)
  <1>1. /\ D \in Nat /\ Len(t) \in Nat /\ file.deps_len <= Len(t) /\ file.deps_len \in Nat
        /\ \A y \in Nat : y + 1 <= Len(t) => ByteAt(D + y) = t[y + 1]
        /\ \A k \in 1..Len(t) : t[k] \in 0..255
    BY ListlessFields
  <1> HIDE DEF D, t
  <1>2. ASSUME NEW k \in 1..4
        PROVE  B[k] = t[x + k] /\ t[x + k] \in 0..255
    <2>1. B[k] = ByteAt((D + x) + k - 1)
      BY DEF Bytes
    <2>2. (D + x) + k - 1 = D + (x + k - 1) /\ x + k - 1 \in Nat /\ (x + k - 1) + 1 = x + k
          /\ x + k \in 1..Len(t) /\ x + k <= Len(t)
      BY <1>1
    <2> QED
      BY <1>1, <2>1, <2>2
  <1> HIDE DEF B
  <1>3. /\ B[1] = t[x + 1] /\ B[2] = t[x + 2] /\ B[3] = t[x + 3] /\ B[4] = t[x + 4]
        /\ t[x + 1] \in Nat /\ t[x + 2] \in Nat /\ t[x + 3] \in Nat /\ t[x + 4] \in Nat
    <2>1. 1 \in 1..4 /\ 2 \in 1..4 /\ 3 \in 1..4 /\ 4 \in 1..4
      OBVIOUS
    <2> QED
      BY <1>2, <2>1, ByteIsNat
  <1>4. UintIn(t, x + 1) = t[x + 1] + 256 * t[x + 2] + 65536 * t[x + 3] + 16777216 * t[x + 4]
    <2>1. (x + 1) + 1 = x + 2 /\ (x + 1) + 2 = x + 3 /\ (x + 1) + 3 = x + 4
      OBVIOUS
    <2> QED
      BY <2>1 DEF UintIn
  <1>5. UintAt(D + x) = B[1] + 256 * B[2] + 65536 * B[3] + 16777216 * B[4]
    <2>1. 1 + 1 = 2 /\ 1 + 2 = 3 /\ 1 + 3 = 4
      OBVIOUS
    <2> QED
      BY <2>1 DEF UintAt, UintIn, B
  <1>6. \A a, b, c, d \in Nat : a + 256 * b + 65536 * c + 16777216 * d \in Nat
    OBVIOUS
  <1>7. UintIn(t, x + 1) \in Nat
    BY <1>3, <1>4, <1>6
  <1>8. UintAt(D + x) = UintIn(t, x + 1)
    BY <1>3, <1>4, <1>5
  <1> QED
    BY <1>7, <1>8 DEF D, t

(* A C string in such a section is a name: it ends before a zero or at the *)
(* end of the file.                                                        *)
LEMMA ListlessName ==
  ASSUME Listless(file), NEW y \in Nat
  PROVE  CString(file.deps_off + y) \in Seq(1..255)
  <1> DEFINE D == file.deps_off
             t == file.tail
             S == {n \in 0..Len(t) : ByteAt((D + y) + n) \in {0, -1}}
  <1>1. /\ D \in Nat /\ Len(t) \in Nat
        /\ \A x \in Nat : ByteAt(D + x) = IF x + 1 <= Len(t) THEN t[x + 1] ELSE -1
        /\ \A k \in 1..Len(t) : t[k] \in 0..255
    BY ListlessFields
  <1> HIDE DEF D, t
  <1>2. \A n \in Nat : (D + y) + n = D + (y + n) /\ y + n \in Nat
    BY <1>1
  <1>3. Len(t) \in S
    <2>1. y + Len(t) \in Nat /\ ~((y + Len(t)) + 1 <= Len(t)) /\ Len(t) \in 0..Len(t)
      BY <1>1
    <2>2. ByteAt(D + (y + Len(t))) = -1
      BY <1>1, <2>1
    <2> QED
      BY <1>1, <1>2, <2>1, <2>2
  <1>4. S \in SUBSET Nat /\ S # {}
    BY <1>1, <1>3
  <1> HIDE DEF S
  <1>5. \E m \in S : \A x \in S : m <= x
    BY <1>4, LeastElement
  <1> DEFINE l == Min(S)
  <1>6. l \in S /\ \A x \in S : l <= x
    BY <1>5 DEF Min
  <1> HIDE DEF l
  <1>7. l \in Nat /\ l <= Len(t)
    BY <1>1, <1>6 DEF S
  <1>8. ASSUME NEW j \in 1..l
        PROVE  ByteAt((D + y) + j - 1) \in 1..255
    <2>1. j - 1 \in Nat /\ j - 1 < l /\ j - 1 \in 0..Len(t)
          /\ (D + y) + j - 1 = (D + y) + (j - 1)
      BY <1>1, <1>7
    <2>2. j - 1 \notin S
      <3>1. \A x \in S : ~(x < l)
        BY <1>4, <1>6, <1>7
      <3> QED
        BY <2>1, <3>1
    <2>3. ByteAt((D + y) + (j - 1)) \notin {0, -1}
      BY <2>1, <2>2 DEF S
    <2> DEFINE z == y + (j - 1)
    <2>4. z \in Nat /\ (D + y) + (j - 1) = D + z
      BY <1>2, <2>1
    <2> HIDE DEF z
    <2>5. ByteAt(D + z) = IF z + 1 <= Len(t) THEN t[z + 1] ELSE -1
      BY <1>1, <2>4
    <2>6. z + 1 <= Len(t)
      BY <2>3, <2>4, <2>5
    <2>7. z + 1 \in 1..Len(t)
      BY <1>1, <2>4, <2>6
    <2>8. t[z + 1] \in 0..255 /\ t[z + 1] # 0
      BY <1>1, <2>3, <2>4, <2>5, <2>6, <2>7
    <2>9. \A x \in 0..255 : x # 0 => x \in 1..255
      OBVIOUS
    <2> QED
      BY <2>1, <2>4, <2>5, <2>6, <2>8, <2>9
  <1>9. Bytes(D + y, l) \in [1..l -> 1..255]
    BY <1>8 DEF Bytes
  <1>10. Bytes(D + y, l) \in Seq(1..255)
    BY <1>7, <1>9, FunctionIsSeq
  <1>11. CString(D + y) = Bytes(D + y, l)
    BY DEF CString, S, l, t
  <1> QED
    BY <1>10, <1>11 DEF D

(* The reader enters such a section or refuses the file at once.           *)
LEMMA RefusedOpen ==
  ASSUME Refused, OpenOdex
  PROVE  Refused'
  <1>1. Listless(file) /\ file' = file /\ file.deps_off # 0
    BY ListlessFields DEF Refused, OpenOdex
  <1>2. rd' = [rd EXCEPT !.at = "rejected"] \/ rd' = [rd EXCEPT !.at = "deps"]
    BY <1>1 DEF OpenOdex, Reject
  <1>3. rd'.at \in {"rejected", "deps"} /\ rd'.left = rd.left /\ DOMAIN rd' = DOMAIN rd
    BY <1>2 DEF Refused
  <1>4. \/ read' = read
        \/ read' = [read EXCEPT !.odex_version = file.version, !.flags = file.flags]
    BY DEF OpenOdex, Reject
  <1>5. DOMAIN read' = DOMAIN read /\ read'.deps = read.deps
    BY <1>4 DEF Refused
  <1> QED
    BY <1>1, <1>3, <1>5 DEF Refused

(* What the reader takes for the number of dependencies is not negative.   *)
LEMMA RefusedOpenDeps ==
  ASSUME Refused, OpenDeps
  PROVE  Refused'
  <1> DEFINE D == file.deps_off
             n == Count(file)
  <1>1. Listless(file) /\ file' = file
    BY DEF Refused, OpenDeps
  <1>2. CASE file.deps_len < 16
    <2>1. rd' = [rd EXCEPT !.at = "rejected"] /\ read' = read
      BY <1>2 DEF OpenDeps, Reject
    <2> QED
      BY <1>1, <2>1 DEF Refused
  <1>3. CASE ~(file.deps_len < 16)
    <2>1. /\ rd' = [at |-> "dep", off |-> D + 16, left |-> UintAt(D + 12)]
          /\ read' = [read EXCEPT !.dex_mod_time = UintAt(D),
                                  !.dex_crc = UintAt(D + 4),
                                  !.vm_version = UintAt(D + 8)]
      BY <1>3 DEF OpenDeps
    <2>2. file.deps_len \in Nat /\ file.deps_len >= 16
      <3>1. file.deps_len \in Nat
        BY <1>1, ListlessFields
      <3>2. \A x \in Nat : ~(x < 16) => x >= 16
        OBVIOUS
      <3> QED
        BY <1>3, <3>1, <3>2
    <2>3. UintAt(D + 12) = n /\ n \in Nat
      <3>1. 12 + 1 = 13 /\ 12 + 4 <= file.deps_len
        BY <2>2
      <3> QED
        BY <1>1, <3>1, ListlessUint DEF Count
    <2>4. rd'.at = "dep" /\ rd'.left = n /\ rd'.off = D + 16 /\ DOMAIN rd' = {"at", "off", "left"}
      BY <2>1, <2>3
    <2>5. DOMAIN read' = DOMAIN read /\ read'.deps = read.deps
      BY <2>1 DEF Refused
    <2> DEFINE Q == [j \in 0..0 |-> 16]
    <2>6. Chain(file, Q, 0) /\ Q[0] = 16
      BY <2>2 DEF Chain
    <2>7. n = 0 + n
      BY <2>3
    <2> HIDE DEF Q, n
    <2>8. \E k \in Nat : \E P :
            /\ Chain(file, P, k) /\ P[k] <= file.deps_len
            /\ rd'.off = D + P[k] /\ n = k + rd'.left
      BY <2>2, <2>4, <2>6, <2>7
    <2> QED
      BY <1>1, <2>3, <2>4, <2>5, <2>8 DEF Refused, n
  <1> QED
    BY <1>2, <1>3

(* A dependency that the reader accepts leads to the next one.             *)
LEMMA RefusedReadDep ==
  ASSUME Refused, ReadDep
  PROVE  Refused'
  <1> DEFINE D == file.deps_off
             n == Count(file)
             R == [name : Seq(1..255), sha : Seq(0..255)]
  <1>1. Listless(file) /\ file' = file /\ rd.at = "dep" /\ rd.left > 0 /\ rd.left \in Nat
    BY DEF Refused, ReadDep
  <1>2. PICK k \in Nat : \E Q :
          /\ Chain(file, Q, k) /\ Q[k] <= file.deps_len
          /\ rd.off = D + Q[k] /\ n = k + rd.left
    BY <1>1 DEF Refused
  <1>3. PICK Q :
          /\ Chain(file, Q, k) /\ Q[k] <= file.deps_len
          /\ rd.off = D + Q[k] /\ n = k + rd.left
    BY <1>2
  <1>4. CASE Reject
    <2>1. rd' = [rd EXCEPT !.at = "rejected"] /\ read' = read
      BY <1>4 DEF Reject
    <2> QED
      BY <1>1, <2>1 DEF Refused
  <1> DEFINE p == Q[k]
             ln == UintIn(file.tail, p + 1)
             q == p + ln + 24
  <1>5. CASE ~Reject
    <2>1. ~(rd.off + 4 > DepsEnd)
      BY <1>5 DEF ReadDep
    <2>2. /\ D \in Nat /\ file.deps_len \in Nat /\ DepsEnd = D + file.deps_len
          /\ Len(file.tail) \in Nat /\ file.deps_len <= Len(file.tail)
          /\ \A x \in Nat : x + 1 <= Len(file.tail) => ByteAt(D + x) = file.tail[x + 1]
          /\ \A x \in 1..Len(file.tail) : file.tail[x] \in 0..255
      BY <1>1, ListlessFields
    <2>3. p \in Nat /\ p + 4 <= file.deps_len
      <3>1. p \in Nat
        BY <1>3 DEF Chain
      <3>2. \A d, e, x \in Nat : ~((d + x) + 4 > d + e) => x + 4 <= e
        OBVIOUS
      <3> QED
        BY <1>3, <2>1, <2>2, <3>1, <3>2
    <2>4. UintAt(rd.off) = ln /\ ln \in Nat
      BY <1>1, <1>3, <2>3, ListlessUint
    <2> HIDE DEF p, D
    <2> DEFINE name == rd.off + 4
               nul == name + ln - 1
    <2>5. /\ name = D + (p + 4) /\ name + ln + 20 = D + q
          /\ nul = D + (p + ln + 3) /\ name + ln = D + (p + 4 + ln)
      <3>1. \A d, x, l \in Nat :
              /\ (d + x) + 4 = d + (x + 4) /\ ((d + x) + 4) + l + 20 = d + (x + l + 24)
              /\ ((d + x) + 4) + l - 1 = d + (x + l + 3) /\ ((d + x) + 4) + l = d + (x + 4 + l)
        OBVIOUS
      <3>2. rd.off = D + p
        BY <1>3 DEF p, D
      <3> HIDE DEF ln
      <3> QED
        BY <2>2, <2>3, <2>4, <3>1, <3>2
    <2>6. /\ ~(name + ln + 20 > DepsEnd) /\ ByteAt(nul) = 0
          /\ read' = [read EXCEPT !.deps = Append(read.deps,
                        [name |-> CString(name), sha |-> Bytes(name + ln, 20)])]
          /\ rd' = [rd EXCEPT !.off = name + ln + 20, !.left = rd.left - 1]
      BY <1>5, <2>1, <2>4 DEF ReadDep
    <2> HIDE DEF ln, name, nul
    <2>7. q \in Nat /\ q <= file.deps_len
      <3>1. \A d, e, x \in Nat : ~(d + x > d + e) => x <= e
        OBVIOUS
      <3>2. q \in Nat
        BY <2>3, <2>4
      <3> QED
        BY <2>2, <2>5, <2>6, <3>1, <3>2
    <2>8. file.tail[p + ln + 4] = 0
      <3>1. p + ln + 3 \in Nat /\ (p + ln + 3) + 1 = p + ln + 4
            /\ (p + ln + 3) + 1 <= Len(file.tail)
        BY <2>2, <2>3, <2>4, <2>7 DEF q
      <3> QED
        BY <2>2, <2>5, <2>6, <3>1
    <2>9. DepEntry(file, p, q)
      BY <2>3, <2>7, <2>8 DEF DepEntry, ln
    <2> DEFINE P == [j \in 0..k + 1 |-> IF j = k + 1 THEN q ELSE Q[j]]
    <2> HIDE DEF q
    <2>10. Chain(file, P, k + 1) /\ P[k + 1] = q
      <3>1. Q \in [0..k -> Nat] /\ Q[0] = 16 /\ file.deps_len >= 16
            /\ \A j \in 1..k : DepEntry(file, Q[j - 1], Q[j])
        BY <1>3 DEF Chain
      <3>2. /\ P \in [0..k + 1 -> Nat] /\ P[0] = 16 /\ P[k + 1] = q
            /\ \A j \in 0..k : P[j] = Q[j]
        BY <2>7, <3>1
      <3> HIDE DEF P
      <3>3. ASSUME NEW j \in 1..k + 1
            PROVE  DepEntry(file, P[j - 1], P[j])
        <4>1. CASE j = k + 1
          <5>1. j - 1 = k /\ k \in 0..k
            BY <4>1
          <5>2. P[j - 1] = p /\ P[j] = q
            BY <3>2, <4>1, <5>1 DEF p
          <5> QED
            BY <2>9, <5>2
        <4>2. CASE j # k + 1
          <5>1. j \in 1..k /\ j - 1 \in 0..k /\ j \in 0..k
            BY <4>2
          <5> QED
            BY <3>1, <3>2, <5>1
        <4> QED
          BY <4>1, <4>2
      <3> QED
        BY <3>1, <3>2, <3>3 DEF Chain
    <2> HIDE DEF P
    <2>11. /\ rd'.at = "dep" /\ rd'.off = D + q /\ rd'.left = rd.left - 1
           /\ DOMAIN rd' = {"at", "off", "left"}
      BY <1>1, <2>5, <2>6 DEF Refused
    <2>12. rd'.left \in Nat /\ n = (k + 1) + rd'.left /\ k + 1 \in Nat
      BY <1>1, <1>3, <2>11
    <2>13. \A x \in Nat : \A m \in Int :
             x + m <= file.deps_len => Bytes(D + x, m) \in Seq(0..255)
      <3>1. ASSUME NEW x \in Nat, NEW m \in Int, x + m <= file.deps_len
            PROVE  Bytes(D + x, m) \in Seq(0..255)
        <4>1. ASSUME NEW j \in 1..m
              PROVE  ByteAt((D + x) + j - 1) \in 0..255
          <5>1. (D + x) + j - 1 = D + (x + j - 1) /\ x + j - 1 \in Nat
                /\ (x + j - 1) + 1 \in 1..Len(file.tail)
                /\ (x + j - 1) + 1 <= Len(file.tail)
            BY <2>2, <3>1
          <5>2. ByteAt(D + (x + j - 1)) = file.tail[(x + j - 1) + 1]
            BY <2>2, <5>1
          <5>3. file.tail[(x + j - 1) + 1] \in 0..255
            BY <2>2, <5>1
          <5> QED
            BY <5>1, <5>2, <5>3
        <4>2. Bytes(D + x, m) \in [1..m -> 0..255]
          BY <4>1 DEF Bytes
        <4>3. CASE m \in Nat
          BY <4>2, <4>3
        <4>4. CASE m \notin Nat
          <5>1. 1..m = 1..0
            BY <4>4
          <5>2. \A f \in [1..0 -> 0..255] : f \in Seq(0..255)
            OBVIOUS
          <5> QED
            BY <4>2, <5>1, <5>2
        <4> QED
          BY <4>3, <4>4
      <3> QED
        BY <3>1
    <2>14. CString(name) \in Seq(1..255) /\ Bytes(name + ln, 20) \in Seq(0..255)
      <3>1. p + 4 \in Nat /\ p + 4 + ln \in Nat /\ (p + 4 + ln) + 20 <= file.deps_len
        BY <2>2, <2>3, <2>4, <2>7 DEF q
      <3>2. CString(D + (p + 4)) \in Seq(1..255)
        BY <1>1, <3>1, ListlessName DEF D
      <3> QED
        BY <2>5, <2>13, <3>1, <3>2
    <2>15. DOMAIN read' = DOMAIN read /\ read'.deps \in Seq(R)
      <3>1. \A S : \A s \in Seq(S) : \A e \in S : Append(s, e) \in Seq(S)
        OBVIOUS
      <3>2. [name |-> CString(name), sha |-> Bytes(name + ln, 20)] \in R
        BY <2>14
      <3>3. read.deps \in Seq(R) /\ "deps" \in DOMAIN read
        BY DEF Refused, ReadDeps
      <3> HIDE DEF R
      <3>4. Append(read.deps, [name |-> CString(name), sha |-> Bytes(name + ln, 20)]) \in Seq(R)
        BY <3>1, <3>2, <3>3
      <3> QED
        BY <2>6, <3>3, <3>4
    <2>16. \E j \in Nat : \E S :
             /\ Chain(file, S, j) /\ S[j] <= file.deps_len
             /\ rd'.off = D + S[j] /\ n = j + rd'.left
      BY <2>7, <2>10, <2>11, <2>12
    <2> QED
      BY <1>1, <2>11, <2>12, <2>15, <2>16 DEF Refused, ReadDeps, D
  <1> QED
    BY <1>4, <1>5

(* The list never ends.                                                    *)
LEMMA RefusedDepsRead ==
  ASSUME Refused, DepsRead
  PROVE  FALSE
  <1>1. Listless(file) /\ rd.at = "dep" /\ rd.left = 0
    BY DEF Refused, DepsRead
  <1>2. PICK k \in Nat : \E Q : Chain(file, Q, k) /\ Count(file) = k + rd.left
    BY <1>1 DEF Refused
  <1>3. PICK Q : Chain(file, Q, k) /\ Count(file) = k + rd.left
    BY <1>2
  <1>4. Count(file) = k
    BY <1>1, <1>3
  <1> QED
    BY <1>1, <1>3, <1>4 DEF Listless

(* Such a file is never damaged further, and never read to its end.        *)
LEMMA RefusedNext ==
  ASSUME Refused, [NextOdex]_allVars
  PROVE  Refused'
  <1>1. Listless(file) /\ file # NoFile /\ file.damage # "none"
        /\ rd.at \in {"closed", "deps", "dep", "rejected"}
    BY NoFileIsNone DEF Refused, Listless
  <1>2. CASE UNCHANGED allVars
    BY <1>2 DEF Refused, allVars, odexVars
  <1>3. CASE Over
    BY <1>3 DEF Over, Refused, allVars, odexVars
  <1>4. ~BuildTable /\ ~WriteOdex
    BY <1>1 DEF BuildTable, WriteOdex
  <1>5. ~Cut /\ ~Corrupt
    <2>1. ~Written
      BY <1>1 DEF Written
    <2> QED
      BY <2>1, Zenon DEF Cut, Corrupt, CorruptTail, CorruptDex, CorruptHeader
  <1>6. ~OpenAux /\ ~ReadChunk /\ ~AuxRead /\ ~CheckDex
    BY <1>1 DEF OpenAux, ReadChunk, AuxRead, CheckDex
  <1> QED
    BY <1>2, <1>3, <1>4, <1>5, <1>6, RefusedOpen, RefusedOpenDeps, RefusedReadDep,
       RefusedDepsRead DEF NextOdex, ReadOdex

(* The reader stays inside the section, and accepts nothing.               *)
LEMMA RefusedTyped ==
  ASSUME Refused
  PROVE  TypeOKOdex /\ ReadsBack
  <1>1. file # NoFile /\ file.damage # "none"
    BY NoFileIsNone DEF Refused, Listless
  <1>2. rd.at \in {"closed", "deps", "dep", "rejected"}
    BY DEF Refused
  <1>3. ASSUME rd.at = "dep"
        PROVE  rd.off \in file.deps_off + 16..DepsEnd
    <2>1. PICK k \in Nat : \E Q : /\ Chain(file, Q, k) /\ Q[k] <= file.deps_len
                                  /\ rd.off = file.deps_off + Q[k]
      BY <1>3 DEF Refused
    <2>2. PICK Q : /\ Chain(file, Q, k) /\ Q[k] <= file.deps_len
                   /\ rd.off = file.deps_off + Q[k]
      BY <2>1
    <2>3. file.deps_off \in Nat /\ file.deps_len \in Nat /\ DepsEnd = file.deps_off + file.deps_len
      BY ListlessFields DEF Refused
    <2>4. Q[k] \in Nat /\ Q[k] >= 16
      <3>1. Q \in [0..k -> Nat] /\ Q[0] = 16
        BY <2>2 DEF Chain
      <3>2. CASE k = 0
        BY <3>1, <3>2
      <3>3. CASE k # 0
        <4>1. k \in 1..k /\ k - 1 \in 0..k /\ k \in 0..k
          BY <3>3
        <4>2. Q[k - 1] \in Nat /\ Q[k] \in Nat
          BY <3>1, <4>1
        <4>3. DepEntry(file, Q[k - 1], Q[k])
          BY <2>2, <4>1 DEF Chain
        <4>4. UintIn(file.tail, Q[k - 1] + 1) \in Nat
          BY <4>2, <4>3, ListlessUint DEF DepEntry, Refused
        <4>5. \A a, l, z \in Nat : z = a + l + 24 => z >= 16
          OBVIOUS
        <4> QED
          BY <4>2, <4>3, <4>4, <4>5 DEF DepEntry
      <3> QED
        BY <3>2, <3>3
    <2> QED
      BY <2>2, <2>3, <2>4
  <1>4. rd.left \in Nat /\ read.deps \in Seq([name : Seq(1..255), sha : Seq(0..255)])
    BY DEF Refused, ReadDeps
  <1>5. TypeOKOdex
    BY <1>1, <1>2, <1>3, <1>4 DEF TypeOKOdex
  <1>6. ReadsBack
    BY <1>1, <1>2 DEF ReadsBack
  <1> QED
    BY <1>5, <1>6
-----------------------------------------------------------------------------
FileInv == OdexInv \/ Refused

(* The inductive invariant of odex files holds whatever the OdexData, the  *)
(* classes, and the damage in the header, the dex file or behind it.  The  *)
(* files of other writers are assumed to hold what they are paired with,   *)
(* or no list of dependencies.                                             *)
THEOREM OdexInvariant ==
  ASSUME ForeignHolds
  PROVE  SpecOdex => []FileInv
  <1>1. InitOdex => FileInv
    <2>1. ASSUME InitOdex, Listless(file)
          PROVE  Refused
      <3>1. /\ rd.at = "closed" /\ rd.left = 0 /\ DOMAIN rd = {"at", "off", "left"}
            /\ read.deps = << >> /\ "deps" \in DOMAIN read
        BY <2>1 DEF InitOdex, Closed, EmptyData
      <3> QED
        BY <2>1, <3>1, NoDeps DEF Refused
    <2> QED
      BY <2>1, OdexStart DEF FileInv
  <1>2. FileInv /\ [NextOdex]_allVars => FileInv'
    BY OdexNext, RefusedNext DEF FileInv
  <1> QED
    BY <1>1, <1>2, PTL DEF SpecOdex

(* TypeOKOdex for every OdexData and every file: no read of                *)
(* dxc_read_buffer, dxc_read_deps_table or dxc_read_aux_table leaves its   *)
(* section.                                                                *)
THEOREM OdexTypeCorrect ==
  ASSUME ForeignHolds
  PROVE  SpecOdex => []TypeOKOdex
  <1>1. FileInv => TypeOKOdex
    BY OdexInvTyped, RefusedTyped DEF FileInv
  <1> QED
    BY <1>1, OdexInvariant, PTL

(* ReadsBack for every OdexData, every file, every place of damage and     *)
(* every value it leaves: dxc_read_buffer rejects a file that was cut,     *)
(* that has a byte changed in or behind the dex file, another place of a   *)
(* section or another length of the dex file or the aux data in its        *)
(* header, or dependencies that lead out of their section.  It reads every *)
(* undamaged file back as it was written, dependency by dependency and     *)
(* chunk by chunk, and one with a damaged version, flags, checksum or      *)
(* length of the dependencies either not at all or back but for that       *)
(* version or those flags.                                                 *)
THEOREM OdexReadsBack ==
  ASSUME ForeignHolds
  PROVE  SpecOdex => []ReadsBack
  <1>1. FileInv => ReadsBack
    BY OdexInvReadsBack, RefusedTyped DEF FileInv
  <1> QED
    BY <1>1, OdexInvariant, PTL
=============================================================================
