------------------------ MODULE RenameSearch_proofs -------------------------
(***************************************************************************)
(* For any tables and any list of references: the exchange sort keeps      *)
(* sources and destinations together and sorts them, and without chains    *)
(* every reference is renamed as util.h says.                              *)
(***************************************************************************)
EXTENDS RenameSearch, Common_proofs

(* The table that is searched.                                             *)
TableOf == IF part = 0 THEN sites[site].pool ELSE "types"

(* A key is a list of strings that is not empty.                           *)
LEMMA KeyFacts ==
  ASSUME NEW p \in Tables, NEW k \in Keys(p)
  PROVE  /\ k \in Seq(Nat) /\ Len(k) \in Nat \ {0}
         /\ \A n \in 1..Len(k) : k[n] \in Nat
         /\ p = "types" => Len(k) = 1
         /\ p = "fields" => Len(k) = 3
  <1>1. k \in Seq(Nat)
    BY DEF Keys
  <1>2. Len(k) \in Nat
    BY <1>1, LenProperties
  <1>3. /\ p = "types" => Len(k) = 1
        /\ p = "fields" => Len(k) = 3
        /\ p = "methods" => Len(k) >= 3
    BY DEF Keys
  <1>4. Len(k) # 0
    BY <1>2, <1>3 DEF Tables
  <1>5. \A n \in 1..Len(k) : k[n] \in Nat
    BY <1>1, ElementOfSeq
  <1> QED
    BY <1>1, <1>2, <1>3, <1>4, <1>5

(* A list of the length of a key is a key.                                 *)
LEMMA SameLength ==
  ASSUME NEW p \in Tables, NEW k \in Keys(p), NEW l \in Seq(Nat), Len(l) = Len(k)
  PROVE  l \in Keys(p)
  BY DEF Keys

(* The arrays of the caller and their copies hold pairs of keys.           *)
LEMMA TableFacts ==
  ASSUME TypeOK, NEW p \in Tables
  PROVE  /\ tables[p] \in Seq(Pairs(p)) /\ given[p] \in Seq(Pairs(p))
         /\ Len(tables[p]) \in Nat /\ Len(given[p]) = Len(tables[p])
         /\ \A n \in 1..Len(tables[p]) :
              /\ tables[p][n].source \in Keys(p) /\ tables[p][n].dest \in Keys(p)
              /\ given[p][n].source \in Keys(p) /\ given[p][n].dest \in Keys(p)
         /\ \A m, n \in 1..Len(given[p]) :
              given[p][m].source = given[p][n].source => m = n
  <1>1. tables[p] \in Seq(Pairs(p)) /\ Len(tables[p]) = Len(given[p])
    BY DEF TypeOK
  <1>2. given[p] \in Seq(Pairs(p))
    BY RenameTablesAssumption DEF TypeOK
  <1>3. \A m, n \in 1..Len(given[p]) : given[p][m].source = given[p][n].source => m = n
    BY RenameTablesAssumption DEF TypeOK
  <1>4. Len(tables[p]) \in Nat
    BY <1>1, LenProperties
  <1>5. ASSUME NEW n \in 1..Len(tables[p])
        PROVE  /\ tables[p][n].source \in Keys(p) /\ tables[p][n].dest \in Keys(p)
               /\ given[p][n].source \in Keys(p) /\ given[p][n].dest \in Keys(p)
    <2>1. tables[p][n] \in Pairs(p)
      BY <1>1, ElementOfSeq
    <2>2. given[p][n] \in Pairs(p)
      BY <1>1, <1>2, ElementOfSeq
    <2> QED
      BY <2>1, <2>2 DEF Pairs
  <1> QED
    BY <1>1, <1>2, <1>3, <1>4, <1>5

(* What is searched where, during a search.                                *)
LEMMA SearchFacts ==
  ASSUME TypeOK, pc = "search"
  PROVE  /\ sites[site] \in Sites
         /\ sites[site].pool \in Tables
         /\ sites[site].key \in Keys(sites[site].pool)
         /\ key \in Keys(sites[site].pool)
         /\ TableOf \in Tables
         /\ Searched(part, sites[site]) = tables[TableOf]
         /\ Val \in Keys(TableOf)
         /\ lo \in Nat /\ hi \in Nat /\ lo <= hi /\ hi <= Len(tables[TableOf])
         /\ part \in 0..Len(key)
         /\ site \in 1..Len(sites) /\ Len(sites) \in Nat
  <1>1. site \in 1..Len(sites) /\ sites \in Seq(Sites) /\ Len(sites) \in Nat
    <2>1. sites \in Seq(Sites)
      BY DEF TypeOK
    <2>2. Len(sites) \in Nat
      BY <2>1, LenProperties
    <2> QED
      BY <2>1, <2>2 DEF TypeOK
  <1>2. sites[site] \in Sites
    BY <1>1, ElementOfSeq
  <1>3. sites[site].pool \in Tables /\ sites[site].key \in Keys(sites[site].pool)
    BY <1>2 DEF Sites
  <1>4. key \in Keys(sites[site].pool) /\ part \in 0..Len(key)
    BY DEF TypeOK
  <1>5. TableOf \in Tables /\ Searched(part, sites[site]) = tables[TableOf]
    BY <1>3 DEF TableOf, Searched, Tables
  <1>6. Val \in Keys(TableOf)
    <2>1. CASE part = 0
      BY <1>4, <2>1 DEF Val, TableOf
    <2>2. CASE part # 0
      <3>1. part \in 1..Len(key)
        BY <1>3, <1>4, <2>2, KeyFacts
      <3>2. key[part] \in Nat
        BY <1>3, <1>4, <3>1, KeyFacts
      <3>3. <<key[part]>> \in Seq(Nat) /\ Len(<<key[part]>>) = 1
        BY <3>2
      <3> QED
        BY <2>2, <3>3 DEF Val, TableOf, Keys
    <2> QED
      BY <2>1, <2>2
  <1>7. lo \in Nat /\ hi \in Nat /\ lo <= hi /\ hi <= Len(tables[TableOf])
    <2>1. lo \in Int /\ hi \in Int /\ 0 <= lo /\ lo <= hi /\ hi <= Len(tables[TableOf])
      BY <1>5 DEF TypeOK
    <2> QED
      BY <2>1
  <1> QED
    BY <1>1, <1>2, <1>3, <1>4, <1>5, <1>6, <1>7

(* An exchange moves two pairs and no more.                                *)
LEMMA SwapFacts ==
  ASSUME NEW S, NEW t \in Seq(S), NEW a \in 1..Len(t), NEW b \in 1..Len(t)
  PROVE  /\ Swap(t, a, b) \in Seq(S)
         /\ Len(Swap(t, a, b)) = Len(t)
         /\ \A n \in 1..Len(t) :
              Swap(t, a, b)[n] = IF n = b THEN t[a] ELSE IF n = a THEN t[b] ELSE t[n]
  <1>1. t[a] \in S /\ t[b] \in S
    BY ElementOfSeq
  <1> DEFINE u == [t EXCEPT ![a] = t[b]]
  <1>2. u \in Seq(S) /\ Len(u) = Len(t)
        /\ \A n \in 1..Len(t) : u[n] = IF n = a THEN t[b] ELSE t[n]
    BY <1>1, ExceptSeq
  <1>3. Swap(t, a, b) = [u EXCEPT ![b] = t[a]]
    BY DEF Swap
  <1> HIDE DEF u
  <1>4. [u EXCEPT ![b] = t[a]] \in Seq(S) /\ Len([u EXCEPT ![b] = t[a]]) = Len(u)
        /\ \A n \in 1..Len(u) : [u EXCEPT ![b] = t[a]][n] = IF n = b THEN t[a] ELSE u[n]
    BY <1>1, <1>2, ExceptSeq
  <1> QED
    BY <1>2, <1>3, <1>4

(* What an iteration of the sort does to the table.                        *)
LEMMA CompareFacts ==
  ASSUME TypeOK, Compare
  PROVE  /\ pc \in Tables /\ i \in 1..Len(tables[pc]) /\ j \in 1..Len(tables[pc]) /\ i < j
         /\ DOMAIN tables' = Tables
         /\ \A p \in Tables \ {pc} : tables'[p] = tables[p]
         /\ tables'[pc] \in Seq(Pairs(pc)) /\ Len(tables'[pc]) = Len(tables[pc])
         /\ \/ /\ Less(tables[pc][j].source, tables[pc][i].source)
               /\ \A n \in 1..Len(tables[pc]) :
                    tables'[pc][n] = IF n = j THEN tables[pc][i]
                                     ELSE IF n = i THEN tables[pc][j] ELSE tables[pc][n]
            \/ /\ ~Less(tables[pc][j].source, tables[pc][i].source)
               /\ tables' = tables
  <1>1. pc \in Tables /\ tables[pc] \in Seq(Pairs(pc)) /\ Len(tables[pc]) \in Nat
        /\ DOMAIN tables = Tables
    BY TableFacts DEF Compare, TypeOK
  <1>2. i \in 1..Len(tables[pc]) /\ j \in 1..Len(tables[pc]) /\ i < j
    BY <1>1 DEF Compare, TypeOK
  <1>3. CASE Less(tables[pc][j].source, tables[pc][i].source)
    <2>1. tables' = [tables EXCEPT ![pc] = Swap(tables[pc], i, j)]
      BY <1>3 DEF Compare
    <2>2. /\ Swap(tables[pc], i, j) \in Seq(Pairs(pc))
          /\ Len(Swap(tables[pc], i, j)) = Len(tables[pc])
          /\ \A n \in 1..Len(tables[pc]) : Swap(tables[pc], i, j)[n] =
               IF n = j THEN tables[pc][i] ELSE IF n = i THEN tables[pc][j] ELSE tables[pc][n]
      BY <1>1, <1>2, SwapFacts
    <2>3. tables'[pc] = Swap(tables[pc], i, j) /\ DOMAIN tables' = Tables
          /\ \A p \in Tables \ {pc} : tables'[p] = tables[p]
      BY <1>1, <2>1
    <2> QED
      BY <1>1, <1>2, <1>3, <2>2, <2>3
  <1>4. CASE ~Less(tables[pc][j].source, tables[pc][i].source)
    <2>1. tables' = tables
      BY <1>4 DEF Compare
    <2> QED
      BY <1>1, <1>2, <1>4, <2>1
  <1> QED
    BY <1>3, <1>4

(* The copies still hold the pairs of the arrays.                          *)
LEMMA CompareCopy ==
  ASSUME TypeOK, CopyInv, Compare
  PROVE  CopyInv'
  <1>1. given' = given
    BY DEF Compare
  <1>2. ASSUME NEW p \in Tables \ {pc}
        PROVE  tables'[p] = tables[p]
    BY CompareFacts
  <1> DEFINE t == tables[pc]
             u == tables'[pc]
             n0 == Len(t)
  <1>3. /\ pc \in Tables /\ i \in 1..n0 /\ j \in 1..n0 /\ i < j /\ Len(u) = n0
        /\ \/ \A n \in 1..n0 : u[n] = IF n = j THEN t[i] ELSE IF n = i THEN t[j] ELSE t[n]
           \/ u = t
    BY CompareFacts
  <1>4. /\ \A n \in 1..Len(given[pc]) : \E m \in 1..n0 : t[m] = given[pc][n]
        /\ \A m \in 1..n0 : \E n \in 1..Len(given[pc]) : t[m] = given[pc][n]
        /\ \A m, n \in 1..n0 : t[m].source = t[n].source => m = n
    BY <1>3 DEF CopyInv, SamePairs
  <1>5. \A m \in 1..n0 : \E n \in 1..n0 : u[n] = t[m]
    <2>1. ASSUME NEW m \in 1..n0 PROVE \E n \in 1..n0 : u[n] = t[m]
      <3> DEFINE n == IF m = i THEN j ELSE IF m = j THEN i ELSE m
      <3>1. n \in 1..n0
        BY <1>3
      <3>2. u[n] = t[m] \/ u[m] = t[m]
        <4> HIDE DEF t, u, n0
        <4> QED
          BY <1>3
      <3> QED
        BY <3>1, <3>2
    <2> QED
      BY <2>1
  <1>6. \A m \in 1..n0 : \E n \in 1..n0 : u[m] = t[n]
    BY <1>3
  <1>7. \A m, n \in 1..n0 : u[m].source = u[n].source => m = n
    <2> HIDE DEF t, u, n0
    <2>1. CASE u = t
      BY <1>4, <2>1
    <2>2. CASE \A n \in 1..n0 : u[n] = IF n = j THEN t[i] ELSE IF n = i THEN t[j] ELSE t[n]
      <3>1. SUFFICES ASSUME NEW m \in 1..n0, NEW n \in 1..n0, u[m].source = u[n].source
                     PROVE  m = n
        OBVIOUS
      <3>2. /\ u[m] = IF m = j THEN t[i] ELSE IF m = i THEN t[j] ELSE t[m]
            /\ u[n] = IF n = j THEN t[i] ELSE IF n = i THEN t[j] ELSE t[n]
        BY <2>2
      <3>3. CASE m = j
        BY <1>3, <1>4, <3>1, <3>2, <3>3
      <3>4. CASE m = i /\ m # j
        BY <1>3, <1>4, <3>1, <3>2, <3>4
      <3>5. CASE m # i /\ m # j
        BY <1>3, <1>4, <3>1, <3>2, <3>5
      <3> QED
        BY <3>3, <3>4, <3>5
    <2> QED
      BY <1>3, <2>1, <2>2
  <1>8. /\ \A n \in 1..Len(given[pc]) : \E m \in 1..n0 : u[m] = given[pc][n]
        /\ \A m \in 1..n0 : \E n \in 1..Len(given[pc]) : u[m] = given[pc][n]
    <2> HIDE DEF t, u, n0
    <2>1. ASSUME NEW n \in 1..Len(given[pc]) PROVE \E m \in 1..n0 : u[m] = given[pc][n]
      <3>1. PICK m \in 1..n0 : t[m] = given[pc][n]
        BY <1>4
      <3> QED
        BY <1>5, <3>1
    <2>2. ASSUME NEW m \in 1..n0 PROVE \E n \in 1..Len(given[pc]) : u[m] = given[pc][n]
      <3>1. PICK n \in 1..n0 : u[m] = t[n]
        BY <1>6
      <3> QED
        BY <1>4, <3>1
    <2> QED
      BY <2>1, <2>2
  <1>9. SamePairs(u, given[pc])
    <2> HIDE DEF t, u, n0
    <2>1. Len(u) = n0
      BY <1>3
    <2> QED
      BY <1>7, <1>8, <2>1 DEF SamePairs
  <1>10. ASSUME NEW p \in Tables
         PROVE  SamePairs(tables'[p], given[p])
    <2>1. CASE p = pc
      BY <1>9, <2>1
    <2>2. CASE p # pc
      <3>1. tables'[p] = tables[p]
        BY <1>2, <2>2
      <3>2. SamePairs(tables[p], given[p])
        BY DEF CopyInv
      <3> QED
        BY <3>1, <3>2
    <2> QED
      BY <2>1, <2>2
  <1> QED
    BY <1>1, <1>10 DEF CopyInv

(* An iteration puts the lesser of the two entries first.                  *)
LEMMA CompareSort ==
  ASSUME TypeOK, CopyInv, SortInv, Compare
  PROVE  SortInv'
  <1> DEFINE t == tables[pc]
             u == tables'[pc]
             n0 == Len(t)
  <1>1. /\ pc \in Tables /\ i \in 1..n0 /\ j \in 1..n0 /\ i < j /\ Len(u) = n0
        /\ \/ /\ Less(t[j].source, t[i].source)
              /\ \A n \in 1..n0 : u[n] = IF n = j THEN t[i] ELSE IF n = i THEN t[j] ELSE t[n]
           \/ /\ ~Less(t[j].source, t[i].source)
              /\ u = t
    BY CompareFacts
  <1>2. /\ n0 \in Nat
        /\ \A n \in 1..n0 : t[n].source \in Seq(Nat)
    <2>1. n0 \in Nat /\ \A n \in 1..n0 : t[n].source \in Keys(pc)
      BY <1>1, TableFacts
    <2> QED
      BY <1>1, <2>1, KeyFacts
  <1>3. \A m, n \in 1..n0 :
          m < n /\ (m < i \/ (m = i /\ n < j)) => Less(t[m].source, t[n].source)
    BY <1>1 DEF SortInv
  <1>4. Less(t[i].source, t[j].source) \/ Less(t[j].source, t[i].source)
    <2>1. SamePairs(t, given[pc])
      BY <1>1 DEF CopyInv
    <2>2. t[i].source # t[j].source
      BY <1>1, <2>1 DEF SamePairs
    <2> QED
      BY <1>1, <1>2, <2>2, LessTotal
  <1>5. i' = i /\ j' = j + 1 /\ pc' = pc
    BY DEF Compare
  <1> HIDE DEF t, u, n0
  <1>6. ASSUME NEW m \in 1..n0, NEW n \in 1..n0, m < n, m < i \/ (m = i /\ n < j + 1)
        PROVE  Less(u[m].source, u[n].source)
    <2>1. CASE u = t /\ ~Less(t[j].source, t[i].source)
      <3>1. CASE m = i /\ n = j
        BY <1>4, <2>1, <3>1
      <3>2. CASE ~(m = i /\ n = j)
        <4>1. m < i \/ (m = i /\ n < j)
          BY <1>1, <1>2, <1>6, <3>2
        <4> QED
          BY <1>3, <1>6, <2>1, <4>1
      <3> QED
        BY <3>1, <3>2
    <2>2. CASE /\ Less(t[j].source, t[i].source)
               /\ \A x \in 1..n0 : u[x] = IF x = j THEN t[i] ELSE IF x = i THEN t[j] ELSE t[x]
      <3>1. u[i] = t[j] /\ u[j] = t[i] /\ \A x \in 1..n0 : x # i /\ x # j => u[x] = t[x]
        BY <1>1, <2>2
      <3>2. CASE m < i
        <4>1. /\ Less(t[m].source, t[n].source)
              /\ Less(t[m].source, t[i].source)
              /\ Less(t[m].source, t[j].source)
          BY <1>1, <1>2, <1>3, <1>6, <3>2
        <4>2. u[m] = t[m]
          BY <1>1, <1>2, <1>6, <3>1, <3>2
        <4>3. u[n] = t[n] \/ u[n] = t[i] \/ u[n] = t[j]
          BY <2>2
        <4> QED
          BY <4>1, <4>2, <4>3
      <3>3. CASE m = i /\ n < j
        <4>1. Less(t[i].source, t[n].source)
          BY <1>3, <1>6, <3>3
        <4>2. n # i /\ n # j
          BY <1>1, <1>2, <1>6, <3>3
        <4>3. u[n] = t[n] /\ u[m] = t[j]
          BY <3>1, <3>3, <4>2
        <4>4. Less(t[j].source, t[n].source)
          BY <1>1, <1>2, <2>2, <4>1, LessTransitive
        <4> QED
          BY <4>3, <4>4
      <3>4. CASE m = i /\ n = j
        BY <2>2, <3>1, <3>4
      <3>5. m < i \/ (m = i /\ n < j) \/ (m = i /\ n = j)
        BY <1>1, <1>2, <1>6
      <3> QED
        BY <3>2, <3>3, <3>4, <3>5
    <2> QED
      BY <1>1, <2>1, <2>2
  <1>7. \A m, n \in 1..Len(u) :
          m < n /\ (m < i \/ (m = i /\ n < j + 1)) => Less(u[m].source, u[n].source)
    BY <1>1, <1>6
  <1>8. \A p \in Tables \ {pc} : tables'[p] = tables[p]
    BY CompareFacts
  <1>9. /\ pc # "fields" => Sorted(tables'["fields"])
        /\ ~(pc \in {"fields", "methods"}) => Sorted(tables'["methods"])
    BY <1>8 DEF SortInv, Tables
  <1> QED
    BY <1>5, <1>7, <1>9 DEF SortInv, Sorted, u

(* The next row starts with nothing compared.                              *)
LEMMA NextEntrySort ==
  ASSUME TypeOK, SortInv, NextEntry
  PROVE  SortInv'
  <1>1. pc \in Tables /\ Len(tables[pc]) \in Nat /\ i \in Nat /\ j \in Nat
        /\ j > Len(tables[pc])
    BY TableFacts DEF NextEntry, TypeOK
  <1>2. ASSUME NEW m \in 1..Len(tables[pc]), NEW n \in 1..Len(tables[pc]),
               m < n, m < i + 1 \/ (m = i + 1 /\ n < i + 2)
        PROVE  Less(tables[pc][m].source, tables[pc][n].source)
    <2>1. m < i \/ (m = i /\ n < j)
      BY <1>1, <1>2
    <2> QED
      BY <1>1, <1>2, <2>1 DEF SortInv
  <1>3. i' = i + 1 /\ j' = i + 2 /\ pc' = pc /\ tables' = tables
    BY DEF NextEntry
  <1> QED
    BY <1>2, <1>3 DEF SortInv, Sorted

(* A table whose rows are all done is sorted.                              *)
LEMMA SortEnds ==
  ASSUME TypeOK, SortInv, EndSort
  PROVE  SortInv' /\ Sorted(tables[pc]) /\ (pc' = "visit" => \A p \in Tables : Sorted(tables[p]))
  <1>1. pc \in Tables /\ Len(tables[pc]) \in Nat /\ i \in Nat /\ i > Len(tables[pc])
    BY TableFacts DEF EndSort, TypeOK
  <1>2. Sorted(tables[pc])
    <2>1. ASSUME NEW m \in 1..Len(tables[pc]), NEW n \in 1..Len(tables[pc]), m < n
          PROVE  Less(tables[pc][m].source, tables[pc][n].source)
      <3>1. m < i
        BY <1>1
      <3> QED
        BY <1>1, <2>1, <3>1 DEF SortInv
    <2> QED
      BY <2>1 DEF Sorted
  <1>3. tables' = tables /\ i' = 1 /\ j' = 2 /\ pc' = After[pc]
    BY DEF EndSort
  <1>4. /\ pc' # "fields"
        /\ ~(pc' \in {"fields", "methods"}) => pc \in {"methods", "types"}
        /\ pc' = "visit" => pc = "types"
        /\ pc = "methods" => pc # "fields"
    BY <1>1, <1>3 DEF After, Tables
  <1>5. Sorted(tables["fields"])
    BY <1>1, <1>2 DEF SortInv, Tables
  <1>6. ~(pc' \in {"fields", "methods"}) => Sorted(tables["methods"])
    BY <1>1, <1>2, <1>4 DEF SortInv, Tables
  <1>7. pc' = "visit" => \A p \in Tables : Sorted(tables[p])
    BY <1>2, <1>4, <1>5, <1>6 DEF Tables
  <1>8. ASSUME pc' \in Tables, NEW m \in 1..Len(tables[pc']), NEW n \in 1..Len(tables[pc']), m < n
        PROVE  ~(m < 1 \/ (m = 1 /\ n < 2))
    <2>1. Len(tables[pc']) \in Nat
      BY <1>8, TableFacts
    <2> QED
      BY <1>8, <2>1
  <1> QED
    BY <1>2, <1>3, <1>5, <1>6, <1>7, <1>8 DEF SortInv, Sorted

-----------------------------------------------------------------------------
(* The key after the search of part 0.                                     *)
LEMMA SettledKey ==
  ASSUME TypeOK, pc = "search"
  PROVE  Settled \in Keys(sites[site].pool) /\ Len(Settled) = Len(key)
  <1>1. /\ sites[site].pool \in Tables
        /\ sites[site].key \in Keys(sites[site].pool)
        /\ key \in Keys(sites[site].pool)
    BY SearchFacts
  <1>2. /\ key \in Seq(Nat) /\ 1 \in 1..Len(key)
        /\ sites[site].key[1] \in Nat
    BY <1>1, KeyFacts
  <1>3. /\ [key EXCEPT ![1] = sites[site].key[1]] \in Seq(Nat)
        /\ Len([key EXCEPT ![1] = sites[site].key[1]]) = Len(key)
    BY <1>2, ExceptSeq
  <1> QED
    BY <1>1, <1>3, SameLength DEF Settled

(* The classes in a key are at positions of the key.                       *)
LEMMA ClassPlaces ==
  ASSUME NEW s \in Sites, NEW k \in Keys(s.pool)
  PROVE  ClassParts(s, k) \subseteq 1..Len(k)
  <1>1. s.pool \in Tables /\ s.own \in BOOLEAN
    BY DEF Sites
  <1>2. Len(k) \in Nat \ {0} /\ (s.pool = "fields" => Len(k) = 3)
    BY <1>1, KeyFacts
  <1> QED
    BY SMTT(30), <1>1, <1>2 DEF ClassParts, Tables

(* The next part is the first of those that are left.                      *)
LEMMA NextPlace ==
  ASSUME TypeOK, NextPart
  PROVE  /\ part' \in ClassParts(sites[site], key) /\ part' > part /\ part' \in 1..Len(key)
         /\ \A p \in ClassParts(sites[site], key) : p > part => part' <= p
  <1> DEFINE P == {p \in ClassParts(sites[site], key) : p > part}
  <1>1. /\ sites[site] \in Sites /\ key \in Keys(sites[site].pool)
    BY SearchFacts DEF NextPart
  <1>2. ClassParts(sites[site], key) \subseteq 1..Len(key)
    BY <1>1, ClassPlaces
  <1>3. P # {} /\ part' = Min(P)
    BY DEF NextPart
  <1>4. P \subseteq Nat
    BY <1>2
  <1>5. \E x \in P : \A y \in P : x <= y
    <2> HIDE DEF P
    <2> QED
      BY <1>3, <1>4, LeastElement
  <1>6. part' \in P /\ \A y \in P : part' <= y
    <2> HIDE DEF P
    <2> QED
      BY <1>3, <1>5 DEF Min
  <1> QED
    BY <1>2, <1>6

(* The entry that is probed is an entry of the table.                      *)
LEMMA ProbeFacts ==
  ASSUME TypeOK, pc = "search", lo < hi
  PROVE  /\ md \in lo..hi - 1 /\ md \in Nat /\ md + 1 \in 1..Len(tables[TableOf])
         /\ Probe = tables[TableOf][md + 1]
         /\ Probe.source \in Keys(TableOf) /\ Probe.dest \in Keys(TableOf)
  <1>1. /\ lo \in Nat /\ hi \in Nat /\ hi <= Len(tables[TableOf])
        /\ Searched(part, sites[site]) = tables[TableOf] /\ TableOf \in Tables
        /\ Len(tables[TableOf]) \in Nat
    BY SearchFacts, TableFacts
  <1>2. (hi - lo) \div 2 \in 0..hi - lo - 1
    BY <1>1
  <1>3. md \in lo..hi - 1
    BY <1>1, <1>2 DEF md
  <1>4. md \in Nat /\ md + 1 \in 1..Len(tables[TableOf])
    BY <1>1, <1>3
  <1> QED
    BY <1>1, <1>3, <1>4, TableFacts DEF Probe

(* A match replaces the key, or the class at part.                         *)
LEMMA MatchKey ==
  ASSUME TypeOK, Match
  PROVE  /\ key' \in Keys(sites[site].pool)
         /\ Val' = Probe.dest
         /\ part > 0 => /\ Len(key') = Len(key)
                        /\ \A n \in 1..Len(key) : n # part => key'[n] = key[n]
  <1>1. /\ key \in Keys(sites[site].pool) /\ part \in 0..Len(key)
        /\ TableOf \in Tables /\ sites[site].pool \in Tables
    BY SearchFacts DEF Match
  <1>2. Probe.dest \in Keys(TableOf)
    BY ProbeFacts DEF Match
  <1>3. part' = part
    BY DEF Match
  <1>4. CASE part = 0
    <2>1. key' = Probe.dest
      BY <1>4 DEF Match
    <2> QED
      BY <1>2, <1>3, <1>4, <2>1 DEF TableOf, Val
  <1>5. CASE part # 0
    <2>1. key \in Seq(Nat) /\ Len(key) \in Nat
      BY <1>1, KeyFacts
    <2>2. part \in 1..Len(key) /\ TableOf = "types"
      BY <1>1, <1>5, <2>1 DEF TableOf
    <2>3. /\ Probe.dest \in Seq(Nat) /\ Len(Probe.dest) = 1
          /\ Probe.dest[1] \in Nat
      BY <1>1, <1>2, <2>2, KeyFacts
    <2>4. key' = [key EXCEPT ![part] = Probe.dest[1]]
      BY <1>5 DEF Match
    <2>5. /\ key' \in Seq(Nat) /\ Len(key') = Len(key)
          /\ \A n \in 1..Len(key) : key'[n] = IF n = part THEN Probe.dest[1] ELSE key[n]
      BY <2>1, <2>2, <2>3, <2>4, ExceptSeq
    <2>6. key' \in Keys(sites[site].pool)
      BY <1>1, <2>5, SameLength
    <2>7. <<key'[part]>> = Probe.dest
      <3>1. <<key'[part]>> = <<Probe.dest[1]>>
        BY <2>2, <2>5
      <3>2. <<Probe.dest[1]>> \in Seq(Nat) /\ Len(<<Probe.dest[1]>>) = 1
            /\ <<Probe.dest[1]>>[1] = Probe.dest[1]
        BY <2>3
      <3>3. Probe.dest = <<Probe.dest[1]>>
        BY <2>3, <3>2, SeqEqual
      <3> QED
        BY <3>1, <3>3
    <2>8. Val' = Probe.dest
      BY <1>3, <1>5, <2>7 DEF Val
    <2> QED
      BY <2>5, <2>6, <2>8
  <1> QED
    BY <1>4, <1>5

(* Every action keeps the types of the variables.                          *)
LEMMA NextTypeOK ==
  ASSUME TypeOK, SortInv, [Next]_vars
  PROVE  TypeOK'
  <1>1. CASE Compare
    <2>1. /\ pc \in Tables /\ DOMAIN tables' = Tables
          /\ Len(tables'[pc]) = Len(tables[pc]) /\ tables'[pc] \in Seq(Pairs(pc))
          /\ \A p \in Tables \ {pc} : tables'[p] = tables[p]
          /\ i \in 1..Len(tables[pc]) /\ j \in 1..Len(tables[pc]) /\ i < j
      BY <1>1, CompareFacts
    <2>2. \A p \in Tables : tables'[p] \in Seq(Pairs(p)) /\ Len(tables'[p]) = Len(given[p])
      BY <2>1 DEF TypeOK
    <2>3. /\ i' = i /\ j' = j + 1 /\ pc' = pc /\ Len(tables[pc]) \in Nat
          /\ UNCHANGED <<given, sites, site, key, part, lo, hi, out>>
      BY <1>1, <2>1, TableFacts DEF Compare
    <2>4. i' \in Nat \ {0} /\ j' \in Nat /\ j' > i' /\ i' <= Len(tables'[pc']) + 1
          /\ j' <= Len(tables'[pc']) + 2
      BY <2>1, <2>3
    <2>5. pc' \notin {"visit", "search", "done"}
      BY <2>1, <2>3 DEF Tables
    <2> QED
      BY <2>1, <2>2, <2>3, <2>4, <2>5 DEF TypeOK
  <1>2. CASE NextEntry
    <2>1. /\ pc \in Tables /\ Len(tables[pc]) \in Nat /\ i \in Nat \ {0}
          /\ i' = i + 1 /\ j' = i + 2 /\ i <= Len(tables[pc])
          /\ UNCHANGED <<given, sites, tables, pc, site, key, part, lo, hi, out>>
      BY <1>2, TableFacts DEF NextEntry, TypeOK
    <2>2. i' \in Nat \ {0} /\ j' \in Nat /\ j' > i' /\ i' <= Len(tables'[pc']) + 1
          /\ j' <= Len(tables'[pc']) + 2
      BY <2>1
    <2>3. pc' \notin {"visit", "search", "done"}
      BY <2>1 DEF Tables
    <2> QED
      BY <2>1, <2>2, <2>3 DEF TypeOK
  <1>3. CASE EndSort
    <2>1. /\ pc \in Tables /\ pc' = After[pc] /\ i' = 1 /\ j' = 2
          /\ UNCHANGED <<given, sites, tables, site, key, part, lo, hi, out>>
      BY <1>3 DEF EndSort
    <2>2. pc' \in {"methods", "types", "visit"}
      BY <2>1 DEF After, Tables
    <2>3. pc' = "visit" => \A p \in Tables : Sorted(tables[p])
      BY <1>3, SortEnds
    <2>4. \A p \in Tables : Len(tables[p]) \in Nat
      BY TableFacts
    <2>5. pc' \in Tables => i' <= Len(tables'[pc']) + 1 /\ j' <= Len(tables'[pc']) + 2
      BY <2>1, <2>4
    <2>6. \A p \in Tables : Sorted(tables[p]) => Sorted(tables[p])'
      BY <2>1 DEF Sorted
    <2>7. pc' \in Tables \cup {"visit", "search", "done"} /\ pc' # "search" /\ pc' # "done"
          /\ pc' \notin {"search", "done"}
      BY <2>2 DEF Tables
    <2>8. pc' \in {"visit", "search", "done"} => \A p \in Tables : Sorted(tables'[p])
      BY <2>1, <2>3, <2>7
    <2> QED
      BY <2>1, <2>5, <2>7, <2>8 DEF TypeOK
  <1>4. CASE StartSite
    <2>1. /\ sites \in Seq(Sites) /\ Len(sites) \in Nat /\ site \in 1..Len(sites)
      <3>1. sites \in Seq(Sites)
        BY DEF TypeOK
      <3>2. Len(sites) \in Nat
        BY <3>1, LenProperties
      <3> QED
        BY <1>4, <3>1, <3>2 DEF StartSite, TypeOK
    <2>2. sites[site] \in Sites
      BY <2>1, ElementOfSeq
    <2>3. sites[site].pool \in Tables /\ sites[site].key \in Keys(sites[site].pool)
      BY <2>2 DEF Sites
    <2>4. /\ key' = sites[site].key /\ part' = (IF sites[site].pool = "types" THEN 1 ELSE 0)
          /\ lo' = 0 /\ hi' = Len(Searched(part', sites[site])) /\ pc' = "search"
          /\ UNCHANGED <<given, sites, tables, i, j, site, out>>
      BY <1>4 DEF StartSite
    <2>5. key' \in Keys(sites[site].pool) /\ part' \in 0..Len(key')
      <3>1. Len(sites[site].key) \in Nat \ {0}
        BY <2>3, KeyFacts
      <3> QED
        BY <2>3, <2>4, <3>1
    <2>6. hi' \in Nat /\ Searched(part', sites[site]) = Searched(part, sites[site])'
      <3>1. Len(tables[sites[site].pool]) \in Nat /\ Len(tables["types"]) \in Nat
        BY <2>3, TableFacts DEF Tables
      <3> QED
        BY <2>4, <3>1 DEF Searched
    <2>7. /\ lo' \in Nat /\ hi' \in Nat /\ lo' <= hi'
          /\ hi' <= Len(Searched(part, sites[site])')
      BY <2>4, <2>6
    <2>8. part' = 0 => sites[site].pool # "types"
      BY <2>4
    <2>9. \A p \in Tables : Sorted(tables[p])
      BY <1>4 DEF TypeOK, StartSite
    <2>10. pc' \notin Tables
      BY <2>4 DEF Tables
    <2> QED
      BY <2>1, <2>4, <2>5, <2>7, <2>8, <2>9, <2>10 DEF TypeOK
  <1>5. CASE Finish
    BY <1>5 DEF Finish, TypeOK, Tables
  <1>6. CASE Match
    <2>1. key' \in Keys(sites[site].pool) /\ (part > 0 => Len(key') = Len(key))
      BY <1>6, MatchKey
    <2>2. part \in 0..Len(key) /\ sites[site].pool \in Tables
      BY <1>6, SearchFacts DEF Match
    <2>3. part \in 0..Len(key')
      <3>1. Len(key') \in Nat
        BY <2>1, <2>2, KeyFacts
      <3> QED
        BY <2>1, <2>2, <3>1
    <2>4. UNCHANGED <<given, sites, tables, pc, i, j, site, part, lo, hi, out>>
      BY <1>6 DEF Match
    <2>5. pc = "search" /\ pc \notin Tables
      BY <1>6 DEF Match, Tables
    <2>6. Searched(part, sites[site])' = Searched(part, sites[site])
      BY <2>4 DEF Searched
    <2> QED
      BY <2>1, <2>3, <2>4, <2>5, <2>6 DEF TypeOK
  <1>7. CASE GoLeft \/ GoRight
    <2>1. /\ pc = "search" /\ lo < hi
          /\ UNCHANGED <<given, sites, tables, pc, i, j, site, key, part, out>>
          /\ (lo' = lo /\ hi' = md) \/ (lo' = md + 1 /\ hi' = hi)
      BY <1>7 DEF GoLeft, GoRight
    <2>2. md \in lo..hi - 1 /\ md \in Nat
      BY <2>1, ProbeFacts
    <2>3. lo \in Nat /\ hi \in Nat /\ hi <= Len(tables[TableOf])
          /\ Searched(part, sites[site]) = tables[TableOf]
          /\ TableOf \in Tables
      BY <2>1, SearchFacts
    <2>4. lo' \in Nat /\ hi' \in Nat /\ lo' <= hi' /\ hi' <= Len(tables[TableOf])
      <3>1. Len(tables[TableOf]) \in Nat
        BY <2>3, TableFacts
      <3> QED
        BY <2>1, <2>2, <2>3, <3>1
    <2>5. pc' \notin Tables
      BY <2>1 DEF Tables
    <2>6. Searched(part, sites[site])' = tables[TableOf]
      BY <2>1, <2>3 DEF Searched
    <2> QED
      BY <2>1, <2>4, <2>5, <2>6 DEF TypeOK
  <1>8. CASE NextPart
    <2>1. part' \in 1..Len(key)
      BY <1>8, NextPlace
    <2>2. Settled \in Keys(sites[site].pool) /\ Len(Settled) = Len(key)
      BY <1>8, SettledKey DEF NextPart
    <2>3. /\ pc = "search" /\ key' = Settled /\ lo' = 0 /\ hi' = Len(tables["types"])
          /\ UNCHANGED <<given, sites, tables, pc, i, j, site, out>>
      BY <1>8 DEF NextPart
    <2>4. hi' \in Nat
      BY <2>3, TableFacts DEF Tables
    <2>5. Len(key) \in Nat
      BY <2>3, SearchFacts, KeyFacts
    <2>6. part' # 0 /\ part' \in 0..Len(key')
      BY <2>1, <2>2, <2>3, <2>5
    <2>7. Searched(part, sites[site])' = tables["types"]
      BY <2>3, <2>6 DEF Searched
    <2>8. pc' \notin Tables
      BY <2>3 DEF Tables
    <2> QED
      BY <2>2, <2>3, <2>4, <2>6, <2>7, <2>8 DEF TypeOK
  <1>9. CASE EndSite
    <2>1. /\ pc = "search" /\ pc' = "visit" /\ site' = site + 1 /\ out' = Append(out, Settled)
          /\ UNCHANGED <<given, sites, tables, i, j, key, part, lo, hi>>
      BY <1>9 DEF EndSite
    <2>2. site \in 1..Len(sites) /\ Len(sites) \in Nat /\ sites[site].pool \in Tables
      BY <2>1, SearchFacts
    <2>3. Settled \in Seq(Nat)
      BY <2>1, <2>2, SettledKey, KeyFacts
    <2>4. out \in Seq(Seq(Nat)) /\ Len(out) = site - 1
      BY DEF TypeOK
    <2>5. out' \in Seq(Seq(Nat)) /\ Len(out') = Len(out) + 1
      BY <2>1, <2>3, <2>4, AppendProperties
    <2>6. site' \in 1..Len(sites) + 1 /\ Len(out') = site' - 1
      BY <2>1, <2>2, <2>4, <2>5
    <2>7. pc' \notin Tables /\ pc' # "search"
      BY <2>1 DEF Tables
    <2> QED
      BY <2>1, <2>5, <2>6, <2>7 DEF TypeOK
  <1>10. CASE Done \/ UNCHANGED vars
    <2>1. UNCHANGED vars
      BY <1>10 DEF Done
    <2> QED
      BY <2>1 DEF vars, TypeOK, Searched
  <1> QED
    BY <1>1, <1>2, <1>3, <1>4, <1>5, <1>6, <1>7, <1>8, <1>9, <1>10 DEF Next

-----------------------------------------------------------------------------
(* The replacement of a source is its destination.                         *)
LEMMA ApplyHit ==
  ASSUME TypeOK, CopyInv, NEW p \in Tables, NEW n \in 1..Len(tables[p])
  PROVE  Apply(p, tables[p][n].source) = tables[p][n].dest
  <1>1. SamePairs(tables[p], given[p])
    BY DEF CopyInv
  <1>2. PICK m \in 1..Len(given[p]) : tables[p][n] = given[p][m]
    BY <1>1 DEF SamePairs
  <1> DEFINE hits == {x \in 1..Len(given[p]) : given[p][x].source = tables[p][n].source}
  <1>3. hits = {m}
    BY <1>2, TableFacts
  <1>4. Apply(p, tables[p][n].source) = given[p][CHOOSE x \in hits : TRUE].dest
    BY <1>3 DEF Apply
  <1>5. (CHOOSE x \in hits : TRUE) = m
    BY <1>3
  <1> QED
    BY <1>2, <1>4, <1>5

(* What no copy of a source equals is not replaced.                        *)
LEMMA ApplyMiss ==
  ASSUME CopyInv, NEW p \in Tables, NEW k,
         \A n \in 1..Len(tables[p]) : tables[p][n].source # k
  PROVE  Apply(p, k) = k
  <1>1. SamePairs(tables[p], given[p])
    BY DEF CopyInv
  <1>2. ASSUME NEW m \in 1..Len(given[p]), given[p][m].source = k
        PROVE  FALSE
    <2>1. PICK n \in 1..Len(tables[p]) : tables[p][n] = given[p][m]
      BY <1>1 DEF SamePairs
    <2> QED
      BY <1>2, <2>1
  <1>3. {m \in 1..Len(given[p]) : given[p][m].source = k} = {}
    BY <1>2
  <1> QED
    BY <1>3 DEF Apply

(* A replacement is a key of the same table.                               *)
LEMMA ApplyKey ==
  ASSUME TypeOK, NEW p \in Tables, NEW k \in Keys(p)
  PROVE  Apply(p, k) \in Keys(p)
  <1> DEFINE hits == {m \in 1..Len(given[p]) : given[p][m].source = k}
  <1>1. CASE hits = {}
    BY <1>1 DEF Apply
  <1>2. CASE hits # {}
    <2>1. Apply(p, k) = given[p][CHOOSE m \in hits : TRUE].dest
      BY <1>2 DEF Apply
    <2>2. (CHOOSE m \in hits : TRUE) \in hits
      BY <1>2
    <2>3. \A m \in 1..Len(given[p]) : given[p][m].dest \in Keys(p)
      BY TableFacts
    <2> QED
      BY <2>1, <2>2, <2>3
  <1> QED
    BY <1>1, <1>2

(* Without chains a destination is not replaced again.                     *)
LEMMA DestNoSource ==
  ASSUME TypeOK, CopyInv, ChainFree, NEW p \in Tables, NEW m \in 1..Len(tables[p]),
         NEW n \in 1..Len(tables[p])
  PROVE  tables[p][n].source # tables[p][m].dest
  <1>1. SamePairs(tables[p], given[p])
    BY DEF CopyInv
  <1>2. PICK a \in 1..Len(given[p]) : tables[p][m] = given[p][a]
    BY <1>1 DEF SamePairs
  <1>3. PICK b \in 1..Len(given[p]) : tables[p][n] = given[p][b]
    BY <1>1 DEF SamePairs
  <1> QED
    BY <1>2, <1>3 DEF ChainFree

(* The promised results are keys.                                          *)
LEMMA MemberKey ==
  ASSUME TypeOK, NEW s \in Sites
  PROVE  /\ s.pool \in Tables /\ s.key \in Keys(s.pool)
         /\ Whole(s) \in Keys(s.pool) /\ Member(s) \in Keys(s.pool)
         /\ Member(s) \in Seq(Nat) /\ Len(Member(s)) \in Nat \ {0}
  <1>1. s.pool \in Tables /\ s.key \in Keys(s.pool)
    BY DEF Sites
  <1>2. Whole(s) \in Keys(s.pool)
    BY <1>1, ApplyKey DEF Whole
  <1>3. Whole(s) \in Seq(Nat) /\ 1 \in 1..Len(Whole(s)) /\ s.key[1] \in Nat
    BY <1>1, <1>2, KeyFacts
  <1>4. /\ [Whole(s) EXCEPT ![1] = s.key[1]] \in Seq(Nat)
        /\ Len([Whole(s) EXCEPT ![1] = s.key[1]]) = Len(Whole(s))
    BY <1>3, ExceptSeq
  <1>5. Member(s) \in Keys(s.pool)
    BY <1>1, <1>2, <1>4, SameLength DEF Member
  <1>6. Member(s) \in Seq(Nat) /\ Len(Member(s)) \in Nat \ {0}
    BY <1>1, <1>5, KeyFacts
  <1> QED
    BY <1>1, <1>2, <1>5, <1>6

(* The promise, position by position.                                      *)
LEMMA DocumentedAt ==
  ASSUME TypeOK, NEW s \in Sites
  PROVE  /\ Documented(s) \in Seq(Nat) /\ Len(Documented(s)) = Len(Member(s))
         /\ \A n \in 1..Len(Member(s)) :
              Documented(s)[n] = IF n \in ClassParts(s, Member(s))
                                   THEN Apply("types", <<Member(s)[n]>>)[1] ELSE Member(s)[n]
  <1> DEFINE mem == Member(s)
             new(n) == IF n \in ClassParts(s, mem) THEN Apply("types", <<mem[n]>>)[1] ELSE mem[n]
  <1>1. Documented(s) = [n \in 1..Len(mem) |-> new(n)]
    BY DEF Documented, Member, Whole
  <1>2. mem \in Seq(Nat) /\ Len(mem) \in Nat /\ \A n \in 1..Len(mem) : mem[n] \in Nat
    BY MemberKey, ElementOfSeq
  <1> HIDE DEF mem
  <1>3. ASSUME NEW n \in 1..Len(mem) PROVE new(n) \in Nat
    <2>1. <<mem[n]>> \in Keys("types")
      <3>1. <<mem[n]>> \in Seq(Nat) /\ Len(<<mem[n]>>) = 1
        BY <1>2
      <3> QED
        BY <3>1 DEF Keys
    <2>2. "types" \in Tables
      BY DEF Tables
    <2>3. Apply("types", <<mem[n]>>) \in Keys("types")
      BY <2>1, <2>2, ApplyKey
    <2>4. Apply("types", <<mem[n]>>)[1] \in Nat
      BY <2>2, <2>3, KeyFacts
    <2> QED
      BY <1>2, <2>4
  <1> HIDE DEF new
  <1>4. [n \in 1..Len(mem) |-> new(n)] \in Seq(Nat)
    BY <1>2, <1>3, IsASeq
  <1>5. Len([n \in 1..Len(mem) |-> new(n)]) = Len(mem)
    BY <1>2
  <1>6. \A n \in 1..Len(mem) : Documented(s)[n] = new(n)
    BY <1>1
  <1> QED
    BY <1>1, <1>4, <1>5, <1>6 DEF mem, new

-----------------------------------------------------------------------------
(* What is promised depends on the arrays of the caller only.              *)
LEMMA SamePromise ==
  ASSUME given' = given
  PROVE  /\ ChainFree' = ChainFree
         /\ \A p, k : Apply(p, k)' = Apply(p, k)
         /\ \A s : /\ Whole(s)' = Whole(s) /\ Member(s)' = Member(s)
                   /\ Documented(s)' = Documented(s)
  BY DEF ChainFree, Apply, Whole, Member, Documented

(* The positions of the classes depend on the length of the key only.      *)
LEMMA SameParts ==
  ASSUME NEW s, NEW k, NEW l, Len(k) = Len(l)
  PROVE  ClassParts(s, k) = ClassParts(s, l)
  BY DEF ClassParts

(* A window that is empty: what is searched is not in the table, so the    *)
(* key or the class at part is what it had to become.                      *)
LEMMA StageEnd ==
  ASSUME TypeOK, CopyInv, ChainFree, WindowInv, StageInv, pc = "search", lo >= hi
  PROVE  LET s == sites[site]
         IN  /\ Settled \in Seq(Nat) /\ Len(Settled) = Len(Member(s))
             /\ ClassParts(s, key) = ClassParts(s, Member(s))
             /\ Len(key) = Len(Member(s))
             /\ \A n \in 1..Len(key) :
                  /\ n <= part => Settled[n] = Documented(s)[n]
                  /\ n > part => Settled[n] = Member(s)[n]
  <1> DEFINE s == sites[site]
             mem == Member(s)
             doc == Documented(s)
  <1>1. /\ s \in Sites /\ s.pool \in Tables /\ key \in Keys(s.pool)
        /\ TableOf \in Tables /\ Searched(part, s) = tables[TableOf]
        /\ lo \in Nat /\ hi \in Nat /\ part \in 0..Len(key)
    BY SearchFacts
  <1>2. Settled \in Keys(s.pool) /\ Len(Settled) = Len(key)
    BY SettledKey
  <1>3. Settled \in Seq(Nat) /\ Len(key) \in Nat
    BY <1>1, <1>2, KeyFacts
  <1>4. \A n \in 1..Len(tables[TableOf]) : tables[TableOf][n].source # Val
    <2>1. ASSUME NEW n \in 1..Len(tables[TableOf]), tables[TableOf][n].source = Val
          PROVE  FALSE
      <3>1. lo < n /\ n <= hi
        BY <1>1, <2>1 DEF WindowInv
      <3> QED
        BY <1>1, <3>1
    <2> QED
      BY <2>1
  <1>5. Apply(TableOf, Val) = Val
    BY <1>1, <1>4, ApplyMiss
  <1>6. CASE part = 0
    <2>1. TableOf = s.pool /\ Val = key
      BY <1>6 DEF TableOf, Val
    <2>2. Apply(s.pool, key) = Whole(s)
      BY <1>6 DEF StageInv
    <2>3. key = Whole(s)
      BY <1>5, <2>1, <2>2
    <2>4. Settled = mem
      BY <1>6, <2>3 DEF Settled, Member
    <2> QED
      BY <1>2, <1>3, <1>6, <2>4, SameParts
  <1>7. CASE part # 0
    <2>1. /\ part \in ClassParts(s, mem) /\ Len(key) = Len(mem)
          /\ Apply("types", <<key[part]>>) = Apply("types", <<mem[part]>>)
          /\ \A n \in 1..Len(key) :
               /\ n < part => key[n] = doc[n]
               /\ n > part => key[n] = mem[n]
      BY <1>7 DEF StageInv
    <2>2. TableOf = "types" /\ Val = <<key[part]>> /\ Settled = key
      BY <1>7 DEF TableOf, Val, Settled
    <2>3. <<key[part]>> = Apply("types", <<mem[part]>>)
      BY <1>5, <2>1, <2>2
    <2>4. part \in 1..Len(mem)
      BY <1>1, <1>3, <1>7, <2>1
    <2>5. doc[part] = Apply("types", <<mem[part]>>)[1]
      BY <1>1, <2>1, <2>4, DocumentedAt
    <2>6. key[part] = doc[part]
      BY <2>3, <2>5
    <2>7. ASSUME NEW n \in 1..Len(key)
          PROVE  /\ n <= part => key[n] = doc[n]
                 /\ n > part => key[n] = mem[n]
      BY <1>1, <1>3, <2>1, <2>6
    <2>8. ClassParts(s, key) = ClassParts(s, mem)
      BY <2>1, SameParts
    <2> QED
      BY <1>3, <2>1, <2>2, <2>7, <2>8
  <1> QED
    BY <1>6, <1>7

(* A search starts with the key of the reference, or with its only class.  *)
LEMMA StartSiteResult ==
  ASSUME TypeOK, ResultInv, StartSite, ChainFree
  PROVE  (WindowInv /\ StageInv /\ RenamedAsDocumented)'
  <1>1. /\ given' = given /\ sites' = sites /\ site' = site /\ tables' = tables /\ out' = out
        /\ key' = sites[site].key /\ part' = (IF sites[site].pool = "types" THEN 1 ELSE 0)
        /\ lo' = 0 /\ hi' = Len(Searched(part', sites[site])) /\ pc' = "search"
    BY DEF StartSite
  <1>2. site \in 1..Len(sites)
    <2>1. sites \in Seq(Sites)
      BY DEF TypeOK
    <2>2. Len(sites) \in Nat
      BY <2>1, LenProperties
    <2> QED
      BY <2>1, <2>2 DEF StartSite, TypeOK
  <1> DEFINE s == sites[site]
  <1>3. s \in Sites
    BY <1>2, ElementOfSeq DEF TypeOK
  <1>4. s.pool \in Tables /\ s.key \in Keys(s.pool)
    BY <1>3 DEF Sites
  <1>5. RenamedAsDocumented'
    BY <1>1, SamePromise DEF ResultInv, RenamedAsDocumented
  <1>6. WindowInv'
    <2>1. \A n \in 1..hi' : 0 < n /\ n <= hi'
      OBVIOUS
    <2>2. Searched(part, sites[site])' = Searched(part', sites[site])
      BY <1>1 DEF Searched
    <2> QED
      BY <1>1, <2>1, <2>2 DEF WindowInv
  <1>7. StageInv'
    <2>1. CASE s.pool # "types"
      <3>1. part' = 0 /\ Whole(s) = Apply(s.pool, s.key)
        BY <1>1, <2>1 DEF Whole
      <3>2. (Apply(sites[site].pool, key) = Whole(sites[site]))'
        BY <1>1, <3>1, SamePromise
      <3> QED
        BY <3>1, <3>2 DEF StageInv
    <2>2. CASE s.pool = "types"
      <3>1. part' = 1 /\ Len(s.key) = 1 /\ s.key \in Seq(Nat)
        BY <1>1, <1>4, <2>2, KeyFacts
      <3>2. Whole(s) = s.key
        BY <2>2 DEF Whole
      <3>3. [s.key EXCEPT ![1] = s.key[1]] = s.key
        <4>1. 1 \in 1..Len(s.key) /\ s.key[1] \in Nat /\ Len(s.key) \in Nat
          BY <3>1, ElementOfSeq
        <4>2. /\ [s.key EXCEPT ![1] = s.key[1]] \in Seq(Nat)
              /\ Len([s.key EXCEPT ![1] = s.key[1]]) = Len(s.key)
              /\ \A n \in 1..Len(s.key) :
                   [s.key EXCEPT ![1] = s.key[1]][n] = IF n = 1 THEN s.key[1] ELSE s.key[n]
          BY <3>1, <4>1, ExceptSeq
        <4> QED
          BY <3>1, <4>2, SeqEqual
      <3>4. Member(s) = s.key
        BY <3>2, <3>3 DEF Member
      <3>5. part' \in ClassParts(s, Member(s))
        BY <2>2, <3>1 DEF ClassParts
      <3>6. Member(sites[site])' = s.key /\ Documented(sites[site])' = Documented(s)
        BY <1>1, <3>4, SamePromise
      <3>7. (part \in ClassParts(sites[site], Member(sites[site])))'
        BY <1>1, <3>4, <3>5, <3>6
      <3>8. \A n \in 1..Len(key') : ~(n < part') /\ ~(n > part')
        BY <1>1, <3>1
      <3> QED
        BY <1>1, <3>1, <3>6, <3>7, <3>8 DEF StageInv
    <2> QED
      BY <2>1, <2>2
  <1> QED
    BY <1>5, <1>6, <1>7

(* A match puts the replacement in place, which is no source: what is left *)
(* of the window holds nothing that matches.                               *)
LEMMA MatchResult ==
  ASSUME TypeOK, CopyInv, ResultInv, Match, ChainFree
  PROVE  (WindowInv /\ StageInv /\ RenamedAsDocumented)'
  <1>1. /\ UNCHANGED <<given, sites, tables, pc, site, part, lo, hi, out>>
        /\ pc = "search" /\ lo < hi /\ Val = Probe.source
    BY DEF Match
  <1> DEFINE s == sites[site]
  <1>2. /\ s \in Sites /\ s.pool \in Tables /\ key \in Keys(s.pool)
        /\ TableOf \in Tables /\ Searched(part, s) = tables[TableOf]
    BY <1>1, SearchFacts
  <1>3. Probe = tables[TableOf][md + 1] /\ md + 1 \in 1..Len(tables[TableOf])
    BY <1>1, ProbeFacts
  <1>4. Val' = Probe.dest
    BY MatchKey
  <1>5. \A n \in 1..Len(tables[TableOf]) : tables[TableOf][n].source # Probe.dest
    BY <1>2, <1>3, DestNoSource
  <1>6. Apply(TableOf, Val) = Probe.dest
    BY <1>1, <1>2, <1>3, ApplyHit
  <1>7. Apply(TableOf, Probe.dest) = Probe.dest
    BY <1>2, <1>5, ApplyMiss
  <1>8. WindowInv'
    <2>1. Searched(part, sites[site])' = tables[TableOf]
      BY <1>1, <1>2 DEF Searched
    <2> QED
      BY <1>4, <1>5, <2>1 DEF WindowInv
  <1>9. StageInv /\ RenamedAsDocumented
    BY DEF ResultInv
  <1>10. StageInv'
    <2>1. CASE part = 0
      <3>1. TableOf = s.pool /\ Val = key /\ Val' = key'
        BY <1>1, <2>1 DEF TableOf, Val
      <3>2. Apply(s.pool, key) = Whole(s)
        BY <1>1, <1>9, <2>1 DEF StageInv
      <3>3. Apply(s.pool, key') = Whole(s)
        BY <1>4, <1>6, <1>7, <3>1, <3>2
      <3>4. (Apply(sites[site].pool, key) = Whole(sites[site]))'
        BY <1>1, <3>3, SamePromise
      <3> QED
        BY <1>1, <2>1, <3>4 DEF StageInv
    <2>2. CASE part # 0
      <3>1. TableOf = "types" /\ Val = <<key[part]>> /\ Val' = <<key'[part]>>
        BY <1>1, <2>2 DEF TableOf, Val
      <3>2. /\ part \in ClassParts(s, Member(s)) /\ Len(key) = Len(Member(s))
            /\ Apply("types", <<key[part]>>) = Apply("types", <<Member(s)[part]>>)
            /\ \A n \in 1..Len(key) :
                 /\ n < part => key[n] = Documented(s)[n]
                 /\ n > part => key[n] = Member(s)[n]
        BY <1>1, <1>9, <2>2 DEF StageInv
      <3>3. Apply("types", <<key'[part]>>) = Apply("types", <<Member(s)[part]>>)
        BY <1>4, <1>6, <1>7, <3>1, <3>2
      <3>4. part > 0 /\ part \in Nat /\ Len(key) \in Nat
        <4>1. part \in 0..Len(key) /\ Len(key) \in Nat
          BY <1>1, <1>2, SearchFacts, KeyFacts
        <4> QED
          BY <2>2, <4>1
      <3>5. Len(key') = Len(key) /\ \A n \in 1..Len(key) : n # part => key'[n] = key[n]
        BY <3>4, MatchKey
      <3>6. \A n \in 1..Len(key') :
              /\ n < part => key'[n] = Documented(s)[n]
              /\ n > part => key'[n] = Member(s)[n]
        BY <3>2, <3>4, <3>5
      <3>7. Member(sites[site])' = Member(s) /\ Documented(sites[site])' = Documented(s)
        BY <1>1, SamePromise
      <3>8. (Apply("types", <<key[part]>>) = Apply("types", <<Member(sites[site])[part]>>))'
        BY <1>1, <3>3, <3>7, SamePromise
      <3> QED
        BY <1>1, <2>2, <3>2, <3>5, <3>6, <3>7, <3>8 DEF StageInv
    <2> QED
      BY <2>1, <2>2
  <1>11. RenamedAsDocumented'
    BY <1>1, <1>9, SamePromise DEF RenamedAsDocumented
  <1> QED
    BY <1>8, <1>10, <1>11

(* A half of the window that is left out holds no match: the table is      *)
(* sorted.                                                                 *)
LEMMA HalveResult ==
  ASSUME TypeOK, ResultInv, GoLeft \/ GoRight, ChainFree
  PROVE  (WindowInv /\ StageInv /\ RenamedAsDocumented)'
  <1>1. /\ UNCHANGED <<given, sites, tables, pc, site, key, part, out>>
        /\ pc = "search" /\ lo < hi
    BY DEF GoLeft, GoRight
  <1>2. /\ TableOf \in Tables /\ Searched(part, sites[site]) = tables[TableOf]
        /\ Val \in Keys(TableOf) /\ lo \in Nat /\ hi \in Nat
    BY <1>1, SearchFacts
  <1>3. /\ md \in Nat /\ md + 1 \in 1..Len(tables[TableOf])
        /\ Probe = tables[TableOf][md + 1] /\ Probe.source \in Keys(TableOf)
    BY <1>1, ProbeFacts
  <1> DEFINE t == tables[TableOf]
  <1>4. Sorted(t)
    BY <1>1, <1>2 DEF TypeOK
  <1>5. Val \in Seq(Nat) /\ Len(t) \in Nat /\ \A n \in 1..Len(t) : t[n].source \in Seq(Nat)
    <2>1. Len(t) \in Nat /\ \A n \in 1..Len(t) : t[n].source \in Keys(TableOf)
      BY <1>2, TableFacts
    <2> QED
      BY <1>2, <2>1, KeyFacts
  <1>6. WindowInv /\ StageInv /\ RenamedAsDocumented
    BY DEF ResultInv
  <1>7. \A n \in 1..Len(t) : t[n].source = Val => lo < n /\ n <= hi
    BY <1>1, <1>2, <1>6 DEF WindowInv
  <1>8. ASSUME NEW n \in 1..Len(t), t[n].source = Val
        PROVE  lo' < n /\ n <= hi'
    <2>1. lo < n /\ n <= hi
      BY <1>7, <1>8
    <2>2. CASE GoLeft
      <3>1. Less(Val, t[md + 1].source) /\ lo' = lo /\ hi' = md
        BY <1>3, <2>2 DEF GoLeft
      <3>2. n # md + 1
        <4>1. ~Less(Val, Val)
          BY <1>5, LessIrreflexive
        <4> QED
          BY <1>8, <3>1, <4>1
      <3>3. ~(md + 1 < n)
        <4>1. ASSUME md + 1 < n PROVE FALSE
          <5>1. Less(t[md + 1].source, Val)
            BY <1>3, <1>4, <1>8, <4>1 DEF Sorted
          <5>2. Less(Val, Val)
            BY <1>3, <1>5, <3>1, <5>1, LessTransitive
          <5> QED
            BY <1>5, <5>2, LessIrreflexive
        <4> QED
          BY <4>1
      <3> QED
        BY <1>3, <1>5, <2>1, <3>1, <3>2, <3>3
    <2>3. CASE GoRight
      <3>1. Less(t[md + 1].source, Val) /\ lo' = md + 1 /\ hi' = hi
        BY <1>3, <2>3 DEF GoRight
      <3>2. n # md + 1
        <4>1. ~Less(Val, Val)
          BY <1>5, LessIrreflexive
        <4> QED
          BY <1>8, <3>1, <4>1
      <3>3. ~(n < md + 1)
        <4>1. ASSUME n < md + 1 PROVE FALSE
          <5>1. Less(Val, t[md + 1].source)
            BY <1>3, <1>4, <1>8, <4>1 DEF Sorted
          <5>2. Less(Val, Val)
            BY <1>3, <1>5, <3>1, <5>1, LessTransitive
          <5> QED
            BY <1>5, <5>2, LessIrreflexive
        <4> QED
          BY <4>1
      <3> QED
        BY <1>3, <1>5, <2>1, <3>1, <3>2, <3>3
    <2> QED
      BY <2>2, <2>3
  <1>9. Searched(part, sites[site])' = t /\ Val' = Val
    BY <1>1, <1>2 DEF Searched, Val
  <1>10. WindowInv'
    BY <1>8, <1>9 DEF WindowInv
  <1>11. StageInv'
    BY <1>1, <1>6, SamePromise DEF StageInv
  <1>12. RenamedAsDocumented'
    BY <1>1, <1>6, SamePromise DEF RenamedAsDocumented
  <1> QED
    BY <1>10, <1>11, <1>12

(* The next class is the first behind part, so every class before it is    *)
(* renamed and none is left out.                                           *)
LEMMA NextPartResult ==
  ASSUME TypeOK, CopyInv, ResultInv, NextPart, ChainFree
  PROVE  (WindowInv /\ StageInv /\ RenamedAsDocumented)'
  <1> DEFINE s == sites[site]
             mem == Member(s)
             doc == Documented(s)
  <1>1. /\ UNCHANGED <<given, sites, tables, pc, site, out>>
        /\ pc = "search" /\ lo >= hi
        /\ key' = Settled /\ lo' = 0 /\ hi' = Len(tables["types"])
    BY DEF NextPart
  <1>2. WindowInv /\ StageInv /\ RenamedAsDocumented
    BY DEF ResultInv
  <1>3. /\ Settled \in Seq(Nat) /\ Len(Settled) = Len(mem)
        /\ ClassParts(s, key) = ClassParts(s, mem) /\ Len(key) = Len(mem)
        /\ \A n \in 1..Len(key) :
             /\ n <= part => Settled[n] = doc[n]
             /\ n > part => Settled[n] = mem[n]
    BY <1>1, <1>2, StageEnd
  <1>4. /\ part' \in ClassParts(s, key) /\ part' > part /\ part' \in 1..Len(key)
        /\ \A p \in ClassParts(s, key) : p > part => part' <= p
    BY NextPlace
  <1>5. s \in Sites /\ part \in 0..Len(key) /\ Len(key) \in Nat
    BY <1>1, SearchFacts, KeyFacts
  <1>6. \A n \in 1..Len(mem) :
          doc[n] = IF n \in ClassParts(s, mem) THEN Apply("types", <<mem[n]>>)[1] ELSE mem[n]
    BY <1>5, DocumentedAt
  <1>7. ASSUME NEW n \in 1..Len(key')
        PROVE  /\ n < part' => key'[n] = doc[n]
               /\ n > part' => key'[n] = mem[n]
    <2>1. n \in 1..Len(key) /\ key'[n] = Settled[n]
      BY <1>1, <1>3
    <2>2. ASSUME n < part', n > part PROVE Settled[n] = doc[n]
      <3>1. n \notin ClassParts(s, mem)
        BY <1>3, <1>4, <1>5, <2>1, <2>2
      <3> QED
        BY <1>3, <1>6, <2>1, <2>2, <3>1
    <2>3. n < part' => Settled[n] = doc[n]
      BY <1>3, <1>5, <2>1, <2>2
    <2>4. n > part' => Settled[n] = mem[n]
      BY <1>3, <1>4, <1>5, <2>1
    <2> QED
      BY <2>1, <2>3, <2>4
  <1>8. key'[part'] = mem[part']
    BY <1>1, <1>3, <1>4
  <1>9. part' # 0
    BY <1>4, <1>5
  <1>10. Member(sites[site])' = mem /\ Documented(sites[site])' = doc
    BY <1>1, SamePromise
  <1>11. StageInv'
    <2>1. (part \in ClassParts(sites[site], Member(sites[site])))'
      BY <1>1, <1>3, <1>4, <1>10
    <2>2. (Apply("types", <<key[part]>>) = Apply("types", <<Member(sites[site])[part]>>))'
      BY <1>8, <1>10
    <2> QED
      BY <1>1, <1>3, <1>7, <1>9, <1>10, <2>1, <2>2 DEF StageInv
  <1>12. WindowInv'
    <2>1. Searched(part, sites[site])' = tables["types"]
      BY <1>1, <1>9 DEF Searched
    <2>2. \A n \in 1..Len(tables["types"]) : lo' < n /\ n <= hi'
      BY <1>1
    <2> QED
      BY <2>1, <2>2 DEF WindowInv
  <1>13. RenamedAsDocumented'
    BY <1>1, <1>2, SamePromise DEF RenamedAsDocumented
  <1> QED
    BY <1>11, <1>12, <1>13

(* With no class left behind part, the key is what is promised.            *)
LEMMA EndSiteResult ==
  ASSUME TypeOK, CopyInv, ResultInv, EndSite, ChainFree
  PROVE  (WindowInv /\ StageInv /\ RenamedAsDocumented)'
  <1> DEFINE s == sites[site]
             mem == Member(s)
             doc == Documented(s)
  <1>1. /\ UNCHANGED <<given, sites, tables>>
        /\ pc = "search" /\ lo >= hi /\ pc' = "visit"
        /\ out' = Append(out, Settled)
        /\ \A p \in ClassParts(s, key) : ~(p > part)
    BY DEF EndSite
  <1>2. WindowInv /\ StageInv /\ RenamedAsDocumented
    BY DEF ResultInv
  <1>3. /\ Settled \in Seq(Nat) /\ Len(Settled) = Len(mem)
        /\ ClassParts(s, key) = ClassParts(s, mem) /\ Len(key) = Len(mem)
        /\ \A n \in 1..Len(key) :
             /\ n <= part => Settled[n] = doc[n]
             /\ n > part => Settled[n] = mem[n]
    BY <1>1, <1>2, StageEnd
  <1>4. s \in Sites /\ part \in 0..Len(key) /\ Len(key) \in Nat
    BY <1>1, SearchFacts, KeyFacts
  <1>5. /\ doc \in Seq(Nat) /\ Len(doc) = Len(mem)
        /\ \A n \in 1..Len(mem) :
             doc[n] = IF n \in ClassParts(s, mem) THEN Apply("types", <<mem[n]>>)[1] ELSE mem[n]
    BY <1>4, DocumentedAt
  <1>6. ASSUME NEW n \in 1..Len(Settled) PROVE Settled[n] = doc[n]
    <2>1. n \in 1..Len(key)
      BY <1>3
    <2>2. CASE n <= part
      BY <1>3, <2>1, <2>2
    <2>3. CASE n > part
      <3>1. n \notin ClassParts(s, mem)
        BY <1>1, <1>3, <2>3
      <3> QED
        BY <1>3, <1>5, <2>1, <2>3, <3>1
    <2> QED
      BY <1>4, <2>1, <2>2, <2>3
  <1>7. Settled = doc
    BY <1>3, <1>5, <1>6, SeqEqual
  <1>8. out \in Seq(Seq(Nat)) /\ Len(out) = site - 1 /\ Len(out) \in Nat
    BY LenProperties DEF TypeOK
  <1>9. /\ Len(out') = Len(out) + 1
        /\ \A n \in 1..Len(out) : out'[n] = out[n]
        /\ out'[Len(out) + 1] = Settled
    BY <1>1, <1>3, <1>8, AppendProperties
  <1>10. site = Len(out) + 1
    BY <1>1, <1>8, SearchFacts
  <1>11. ASSUME NEW n \in 1..Len(out') PROVE out'[n] = Documented(sites[n])
    <2>1. CASE n <= Len(out)
      BY <1>2, <1>8, <1>9, <2>1 DEF RenamedAsDocumented
    <2>2. CASE n = Len(out) + 1
      BY <1>7, <1>9, <1>10, <2>2
    <2> QED
      BY <1>8, <1>9, <2>1, <2>2
  <1>12. RenamedAsDocumented'
    BY <1>1, <1>11, SamePromise DEF RenamedAsDocumented
  <1> QED
    BY <1>1, <1>12 DEF WindowInv, StageInv

-----------------------------------------------------------------------------
(* The copies are made before the sort, and only the sort changes them.    *)
LEMMA NextCopy ==
  ASSUME TypeOK, CopyInv, [Next]_vars
  PROVE  CopyInv'
  <1>1. CASE Compare
    BY <1>1, CompareCopy
  <1>2. CASE ~Compare
    <2>1. tables' = tables /\ given' = given
      BY <1>2 DEF Next, vars, NextEntry, EndSort, StartSite, Finish, Match, GoLeft, GoRight,
                  NextPart, EndSite, Done
    <2> QED
      BY <2>1 DEF CopyInv
  <1> QED
    BY <1>1, <1>2

(* The tables stay sorted once they are.                                   *)
LEMMA NextSort ==
  ASSUME TypeOK, CopyInv, SortInv, [Next]_vars
  PROVE  SortInv'
  <1>1. CASE Compare
    BY <1>1, CompareSort
  <1>2. CASE NextEntry
    BY <1>2, NextEntrySort
  <1>3. CASE EndSort
    BY <1>3, SortEnds
  <1>4. CASE StartSite \/ Finish \/ Match \/ GoLeft \/ GoRight \/ NextPart \/ EndSite
    <2>1. tables' = tables /\ {pc, pc'} \subseteq {"visit", "search", "done"}
      BY <1>4 DEF StartSite, Finish, Match, GoLeft, GoRight, NextPart, EndSite
    <2>2. Sorted(tables["fields"]) /\ Sorted(tables["methods"])
      BY <2>1 DEF TypeOK, Tables
    <2>3. pc' \notin Tables /\ (Sorted(tables["fields"]) /\ Sorted(tables["methods"]))'
      BY <2>1, <2>2 DEF Tables, Sorted
    <2> QED
      BY <2>3 DEF SortInv
  <1>5. CASE Done \/ UNCHANGED vars
    <2>1. UNCHANGED vars
      BY <1>5 DEF Done
    <2> QED
      BY <2>1 DEF vars, SortInv, Sorted
  <1> QED
    BY <1>1, <1>2, <1>3, <1>4, <1>5 DEF Next

(* The results are those promised, as long as no table contains a chain.   *)
LEMMA NextResult ==
  ASSUME TypeOK, CopyInv, ResultInv, [Next]_vars
  PROVE  ResultInv'
  <1>1. given' = given
    BY DEF Next, vars, Compare, NextEntry, EndSort, StartSite, Finish, Match, GoLeft, GoRight,
           NextPart, EndSite, Done
  <1>2. SUFFICES ASSUME ChainFree
                 PROVE  (WindowInv /\ StageInv /\ RenamedAsDocumented)'
    BY <1>1, SamePromise DEF ResultInv
  <1>3. RenamedAsDocumented
    BY <1>2 DEF ResultInv
  <1>4. CASE Compare \/ NextEntry \/ EndSort \/ Finish
    <2>1. UNCHANGED <<given, sites, out>>
      BY <1>4 DEF Compare, NextEntry, EndSort, Finish
    <2>2. pc' # "search"
      BY <1>4 DEF Compare, NextEntry, EndSort, Finish, Tables, After
    <2>3. RenamedAsDocumented'
      BY <1>3, <2>1, SamePromise DEF RenamedAsDocumented
    <2> QED
      BY <2>2, <2>3 DEF WindowInv, StageInv
  <1>5. CASE StartSite
    BY <1>2, <1>5, StartSiteResult
  <1>6. CASE Match
    BY <1>2, <1>6, MatchResult
  <1>7. CASE GoLeft \/ GoRight
    BY <1>2, <1>7, HalveResult
  <1>8. CASE NextPart
    BY <1>2, <1>8, NextPartResult
  <1>9. CASE EndSite
    BY <1>2, <1>9, EndSiteResult
  <1>10. CASE Done \/ UNCHANGED vars
    <2>1. UNCHANGED vars
      BY <1>10 DEF Done
    <2>2. WindowInv /\ StageInv
      BY <1>2 DEF ResultInv
    <2>3. WindowInv'
      BY <2>1, <2>2 DEF vars, WindowInv, Searched, Val
    <2>4. StageInv'
      BY <2>1, <2>2, SamePromise DEF vars, StageInv
    <2>5. RenamedAsDocumented'
      BY <1>3, <2>1, SamePromise DEF vars, RenamedAsDocumented
    <2> QED
      BY <2>3, <2>4, <2>5
  <1> QED
    BY <1>4, <1>5, <1>6, <1>7, <1>8, <1>9, <1>10 DEF Next

-----------------------------------------------------------------------------
(* The renames start with copies that nothing has been done to.            *)
LEMMA InitIndInv ==
  ASSUME Init
  PROVE  IndInv
  <1>1. /\ given \in RenameTables /\ tables = given /\ sites \in Seq(Sites)
        /\ pc = "fields" /\ i = 1 /\ j = 2 /\ site = 1 /\ out = << >>
    BY DEF Init, InitTables
  <1>2. /\ DOMAIN given = Tables
        /\ \A p \in Tables :
             /\ given[p] \in Seq(Pairs(p))
             /\ \A m, n \in 1..Len(given[p]) :
                  given[p][m].source = given[p][n].source => m = n
    BY <1>1, RenameTablesAssumption
  <1>3. Len(given["fields"]) \in Nat /\ Len(sites) \in Nat
    <2>1. given["fields"] \in Seq(Pairs("fields"))
      BY <1>2 DEF Tables
    <2> QED
      BY <1>1, <2>1, LenProperties
  <1>4. TypeOK
    <2>1. out \in Seq(Seq(Nat)) /\ Len(out) = 0
      BY <1>1
    <2>2. pc \in Tables /\ pc \notin {"visit", "search", "done"}
      BY <1>1 DEF Tables
    <2>3. site \in 1..Len(sites) + 1
      BY <1>1, <1>3
    <2>4. i \in Nat \ {0} /\ j \in Nat /\ j > i
          /\ i <= Len(tables[pc]) + 1 /\ j <= Len(tables[pc]) + 2
      BY <1>1, <1>3
    <2> QED
      BY <1>1, <1>2, <2>1, <2>2, <2>3, <2>4 DEF TypeOK
  <1>5. CopyInv
    <2>1. ASSUME NEW p \in Tables PROVE SamePairs(tables[p], given[p])
      BY <1>1, <1>2 DEF SamePairs
    <2> QED
      BY <2>1 DEF CopyInv
  <1>6. SortInv
    <2>1. \A m, n \in 1..Len(tables["fields"]) :
            m < n => ~(m < i \/ (m = i /\ n < j))
      BY <1>1, <1>3
    <2> QED
      BY <1>1, <2>1 DEF SortInv, Tables
  <1>7. ResultInv
    <2>1. Len(out) = 0
      BY <1>1
    <2>2. RenamedAsDocumented
      BY <2>1 DEF RenamedAsDocumented
    <2> QED
      BY <1>1, <2>2 DEF ResultInv, WindowInv, StageInv
  <1> QED
    BY <1>4, <1>5, <1>6, <1>7 DEF IndInv

(* The invariant is inductive.                                             *)
THEOREM RenameInvariant == Spec => []IndInv
  <1>1. Init => IndInv
    BY InitIndInv
  <1>2. IndInv /\ [Next]_vars => IndInv'
    <2>1. SUFFICES ASSUME IndInv, [Next]_vars
                   PROVE  IndInv'
      OBVIOUS
    <2>2. TypeOK /\ CopyInv /\ SortInv /\ ResultInv
      BY <2>1 DEF IndInv
    <2>3. TypeOK'
      BY <2>1, <2>2, NextTypeOK
    <2>4. CopyInv'
      BY <2>1, <2>2, NextCopy
    <2>5. SortInv'
      BY <2>1, <2>2, NextSort
    <2>6. ResultInv'
      BY <2>1, <2>2, NextResult
    <2> QED
      BY <2>3, <2>4, <2>5, <2>6 DEF IndInv
  <1> QED
    BY <1>1, <1>2, PTL DEF Spec

(* The variables keep their types, the window stays inside the table that  *)
(* is searched, and no reference is searched in a table that is not        *)
(* sorted.                                                                 *)
THEOREM RenameTypeCorrect == Spec => []TypeOK
  <1>1. IndInv => TypeOK
    BY DEF IndInv
  <1> QED
    BY <1>1, RenameInvariant, PTL

(* util.h: "references to the type source_classes[i] will be replaced with *)
(* references to the type dest_classes[i]", for any tables without a chain *)
(* and any references.                                                     *)
THEOREM RenameDocumented == Spec => []RenamedWithoutChains
  <1>1. IndInv => RenamedWithoutChains
    BY DEF IndInv, ResultInv, RenamedWithoutChains
  <1> QED
    BY <1>1, RenameInvariant, PTL

-----------------------------------------------------------------------------
(* With chains a result is no longer what util.h promises, but it is still *)
(* a function of the key: the window and the value of a search follow from *)
(* those before, whichever reference is searched.                          *)
States(p) == [lo : 0..Len(tables[p]), hi : 0..Len(tables[p]), val : Keys(p)]

Middle(c) == c.lo + (c.hi - c.lo) \div 2

Follow(p) ==
  [c \in States(p) |->
     IF c.lo >= c.hi THEN c
     ELSE LET entry == tables[p][Middle(c) + 1]
          IN  IF c.val = entry.source THEN [c EXCEPT !.val = entry.dest]
              ELSE IF Less(c.val, entry.source) THEN [c EXCEPT !.hi = Middle(c)]
              ELSE [c EXCEPT !.lo = Middle(c) + 1]]

Begin(p, k) == [lo |-> 0, hi |-> Len(tables[p]), val |-> k]
Way(p, k) == Orbit(States(p), Follow(p), Begin(p, k))
Ends(p, k, l) == \E c \in Way(p, k) : c.lo >= c.hi /\ c.val = l

(* A member after its own search, and the classes in it after theirs.      *)
Members(s) ==
  {mem \in Keys(s.pool) :
     \E w \in Keys(s.pool) :
       /\ IF s.pool = "types" THEN w = s.key ELSE Ends(s.pool, s.key, w)
       /\ mem = IF s.own THEN [w EXCEPT ![1] = s.key[1]] ELSE w}

Renamed(s, mem, l, n) ==
  IF n \in ClassParts(s, mem) THEN Ends("types", <<mem[n]>>, <<l[n]>>) ELSE l[n] = mem[n]

OutcomeInv ==
  /\ pc \in Tables => Len(out) = 0
  /\ \A n \in 1..Len(out) :
       \E mem \in Members(sites[n]) :
         Len(out[n]) = Len(mem) /\ \A k \in 1..Len(mem) : Renamed(sites[n], mem, out[n], k)

WayInv ==
  pc = "search" =>
    LET s == sites[site]
        c == [lo |-> lo, hi |-> hi, val |-> Val]
    IN  IF part = 0 THEN c \in Way(s.pool, s.key)
        ELSE \E mem \in Members(s) :
               /\ part \in ClassParts(s, mem) /\ Len(key) = Len(mem)
               /\ c \in Way("types", <<mem[part]>>)
               /\ \A n \in 1..Len(key) :
                    /\ n < part => Renamed(s, mem, key, n)
                    /\ n > part => key[n] = mem[n]

(* The middle of a window that is not empty is in it.                      *)
LEMMA MiddleFacts ==
  ASSUME TypeOK, NEW p \in Tables, NEW c \in States(p), c.lo < c.hi
  PROVE  /\ Middle(c) \in Nat /\ c.lo <= Middle(c) /\ Middle(c) < c.hi
         /\ Middle(c) + 1 \in 1..Len(tables[p])
  <1>1. Len(tables[p]) \in Nat
    BY TableFacts
  <1>2. c.lo \in 0..Len(tables[p]) /\ c.hi \in 0..Len(tables[p])
    BY DEF States
  <1>3. (c.hi - c.lo) \div 2 \in 0..c.hi - c.lo - 1
    BY <1>1, <1>2
  <1> QED
    BY SMTT(30), <1>1, <1>2, <1>3 DEF Middle

(* An iteration of the search leads from a state to a state.               *)
LEMMA FollowType ==
  ASSUME TypeOK, NEW p \in Tables
  PROVE  Follow(p) \in [States(p) -> States(p)]
  <1>1. Len(tables[p]) \in Nat
    BY TableFacts
  <1>2. ASSUME NEW c \in States(p), c.lo < c.hi
        PROVE  LET entry == tables[p][Middle(c) + 1]
               IN  /\ [c EXCEPT !.val = entry.dest] \in States(p)
                   /\ [c EXCEPT !.hi = Middle(c)] \in States(p)
                   /\ [c EXCEPT !.lo = Middle(c) + 1] \in States(p)
    <2>1. Middle(c) \in Nat /\ Middle(c) < c.hi /\ Middle(c) + 1 \in 1..Len(tables[p])
      BY <1>2, MiddleFacts
    <2>2. tables[p][Middle(c) + 1].dest \in Keys(p)
      BY <2>1, TableFacts
    <2>3. c.hi \in 0..Len(tables[p])
      BY DEF States
    <2>4. Middle(c) \in 0..Len(tables[p]) /\ Middle(c) + 1 \in 0..Len(tables[p])
      BY <1>1, <2>1, <2>3
    <2> QED
      BY <2>2, <2>4 DEF States
  <1>3. ASSUME NEW c \in States(p)
        PROVE  (IF c.lo >= c.hi THEN c
                ELSE LET entry == tables[p][Middle(c) + 1]
                     IN  IF c.val = entry.source THEN [c EXCEPT !.val = entry.dest]
                         ELSE IF Less(c.val, entry.source) THEN [c EXCEPT !.hi = Middle(c)]
                         ELSE [c EXCEPT !.lo = Middle(c) + 1]) \in States(p)
    <2>1. c.lo \in Int /\ c.hi \in Int
      BY <1>1 DEF States
    <2> QED
      BY <1>2, <2>1
  <1> QED
    BY <1>3 DEF Follow

(* A search begins in a state.                                             *)
LEMMA BeginType ==
  ASSUME TypeOK, NEW p \in Tables, NEW k \in Keys(p)
  PROVE  Begin(p, k) \in States(p)
  <1>1. Len(tables[p]) \in Nat
    BY TableFacts
  <1>2. 0 \in 0..Len(tables[p]) /\ Len(tables[p]) \in 0..Len(tables[p])
    BY <1>1
  <1> QED
    BY <1>2 DEF Begin, States

(* A search has one result.                                                *)
LEMMA OneResult ==
  ASSUME TypeOK, NEW p \in Tables, NEW k \in Keys(p), NEW l, NEW m, Ends(p, k, l), Ends(p, k, m)
  PROVE  l = m
  <1>1. PICK c \in Way(p, k) : c.lo >= c.hi /\ c.val = l
    BY DEF Ends
  <1>2. PICK d \in Way(p, k) : d.lo >= d.hi /\ d.val = m
    BY DEF Ends
  <1>3. c \in States(p) /\ d \in States(p)
    BY DEF Way, Orbit
  <1>4. Follow(p)[c] = c /\ Follow(p)[d] = d
    BY <1>1, <1>2, <1>3 DEF Follow
  <1>5. Follow(p) \in [States(p) -> States(p)] /\ Begin(p, k) \in States(p)
    BY FollowType, BeginType
  <1>6. c = d
    BY <1>4, <1>5, OrbitEnd DEF Way
  <1> QED
    BY <1>1, <1>2, <1>6

(* When no member moves to another class, neither does a search.           *)
LEMMA KeptClass ==
  ASSUME TypeOK, CopyInv, ClassesKept, NEW p \in {"fields", "methods"}, NEW k \in Keys(p),
         NEW l, Ends(p, k, l)
  PROVE  l[1] = k[1]
  <1>1. p \in Tables
    BY DEF Tables
  <1> DEFINE T == {c \in States(p) : c.val[1] = k[1]}
  <1>2. Begin(p, k) \in T
    BY <1>1, BeginType DEF Begin
  <1>3. ASSUME NEW c \in T PROVE Follow(p)[c] \in T
    <2>1. c \in States(p) /\ Follow(p)[c] \in States(p)
      BY <1>1, FollowType
    <2>2. CASE c.lo >= c.hi
      BY <2>1, <2>2 DEF Follow
    <2>3. CASE ~(c.lo >= c.hi)
      <3>1. c.lo < c.hi
        <4>1. Len(tables[p]) \in Nat
          BY <1>1, TableFacts
        <4>2. c.lo \in Int /\ c.hi \in Int
          BY <2>1, <4>1 DEF States
        <4> QED
          BY <2>3, <4>2
      <3> DEFINE entry == tables[p][Middle(c) + 1]
      <3>2. Middle(c) + 1 \in 1..Len(tables[p])
        BY <1>1, <2>1, <3>1, MiddleFacts
      <3>3. SamePairs(tables[p], given[p])
        BY <1>1 DEF CopyInv
      <3>4. PICK n \in 1..Len(given[p]) : entry = given[p][n]
        BY <3>2, <3>3 DEF SamePairs
      <3>5. entry.dest[1] = entry.source[1]
        BY <3>4 DEF ClassesKept
      <3>6. Follow(p)[c] = IF c.val = entry.source THEN [c EXCEPT !.val = entry.dest]
                           ELSE IF Less(c.val, entry.source) THEN [c EXCEPT !.hi = Middle(c)]
                           ELSE [c EXCEPT !.lo = Middle(c) + 1]
        BY <2>1, <2>3 DEF Follow
      <3> HIDE DEF entry
      <3>7. Follow(p)[c].val = IF c.val = entry.source THEN entry.dest ELSE c.val
        BY <2>1, <3>6 DEF States
      <3> QED
        BY <2>1, <3>5, <3>7
    <2> QED
      BY <2>2, <2>3
  <1>4. Way(p, k) \subseteq T
    <2>1. T \in SUBSET States(p)
      OBVIOUS
    <2>2. Follow(p) \in [States(p) -> States(p)] /\ Begin(p, k) \in States(p)
      BY <1>1, FollowType, BeginType
    <2> HIDE DEF T
    <2> QED
      BY <1>2, <1>3, <2>1, <2>2, OrbitFacts DEF Way
  <1> QED
    BY <1>4 DEF Ends

(* The results of the searches depend on the copies only.                  *)
LEMMA SameWays ==
  ASSUME tables' = tables
  PROVE  /\ \A p, k : Way(p, k)' = Way(p, k)
         /\ \A s : Members(s)' = Members(s)
         /\ \A s, mem, l, n : Renamed(s, mem, l, n)' = Renamed(s, mem, l, n)
  <1>1. ASSUME NEW p, NEW k PROVE Way(p, k)' = Way(p, k)
    <2>1. States(p)' = States(p)
      BY DEF States
    <2>2. Follow(p)' = Follow(p)
      BY <2>1 DEF Follow
    <2>3. Begin(p, k)' = Begin(p, k)
      BY DEF Begin
    <2> QED
      BY <2>1, <2>2, <2>3 DEF Way, Orbit
  <1>2. ASSUME NEW p, NEW k, NEW l PROVE Ends(p, k, l)' = Ends(p, k, l)
    BY <1>1 DEF Ends
  <1>3. ASSUME NEW s PROVE Members(s)' = Members(s)
    BY <1>2 DEF Members
  <1>4. ASSUME NEW s, NEW mem, NEW l, NEW n PROVE Renamed(s, mem, l, n)' = Renamed(s, mem, l, n)
    BY <1>2 DEF Renamed
  <1> QED
    BY <1>1, <1>3, <1>4

(* A member after its search is a key of its table.                        *)
LEMMA MembersKey ==
  ASSUME NEW s \in Sites, NEW mem \in Members(s)
  PROVE  /\ s.pool \in Tables /\ mem \in Keys(s.pool) /\ mem \in Seq(Nat)
         /\ Len(mem) \in Nat \ {0} /\ \A n \in 1..Len(mem) : <<mem[n]>> \in Keys("types")
  <1>1. s.pool \in Tables /\ mem \in Keys(s.pool)
    BY DEF Sites, Members
  <1>2. mem \in Seq(Nat) /\ Len(mem) \in Nat \ {0} /\ \A n \in 1..Len(mem) : mem[n] \in Nat
    BY <1>1, KeyFacts
  <1>3. ASSUME NEW n \in 1..Len(mem) PROVE <<mem[n]>> \in Keys("types")
    <2>1. <<mem[n]>> \in Seq(Nat) /\ Len(<<mem[n]>>) = 1
      BY <1>2
    <2> QED
      BY <2>1 DEF Keys
  <1> QED
    BY <1>1, <1>2, <1>3

(* The member a class defines and a reference to it become the same.       *)
LEMMA SameMember ==
  ASSUME TypeOK, CopyInv, ClassesKept,
         NEW s \in Sites, NEW r \in Sites, s.own, ~r.own, s.pool = r.pool, s.key = r.key,
         NEW a \in Members(s), NEW b \in Members(r)
  PROVE  a = b /\ b[1] = r.key[1]
  <1>1. s.pool \in Tables /\ r.key \in Keys(s.pool)
    BY DEF Sites
  <1>2. PICK v \in Keys(s.pool) :
          /\ IF s.pool = "types" THEN v = r.key ELSE Ends(s.pool, r.key, v)
          /\ a = [v EXCEPT ![1] = r.key[1]]
    BY DEF Members
  <1>3. IF s.pool = "types" THEN b = r.key ELSE Ends(s.pool, r.key, b)
    BY DEF Members
  <1>4. v = b
    BY <1>1, <1>2, <1>3, OneResult
  <1>5. b[1] = r.key[1]
    <2>1. CASE s.pool = "types"
      BY <1>3, <2>1
    <2>2. CASE s.pool # "types"
      <3>1. s.pool \in {"fields", "methods"}
        BY <1>1, <2>2 DEF Tables
      <3> QED
        BY <1>1, <1>3, <2>2, <3>1, KeptClass
    <2> QED
      BY <2>1, <2>2
  <1>6. b \in Seq(Nat) /\ Len(b) \in Nat \ {0} /\ b[1] \in Nat
    <2>1. b \in Seq(Nat) /\ Len(b) \in Nat \ {0}
      BY MembersKey
    <2>2. 1 \in 1..Len(b)
      BY <2>1
    <2> QED
      BY <2>1, <2>2, ElementOfSeq
  <1>7. [b EXCEPT ![1] = b[1]] = b
    <2>1. 1 \in 1..Len(b)
      BY <1>6
    <2>2. /\ [b EXCEPT ![1] = b[1]] \in Seq(Nat)
          /\ Len([b EXCEPT ![1] = b[1]]) = Len(b)
          /\ \A n \in 1..Len(b) : [b EXCEPT ![1] = b[1]][n] = IF n = 1 THEN b[1] ELSE b[n]
      BY <1>6, <2>1, ExceptSeq
    <2>3. \A n \in 1..Len(b) : [b EXCEPT ![1] = b[1]][n] = b[n]
      BY <2>2
    <2> QED
      BY <1>6, <2>2, <2>3, SeqEqual
  <1> QED
    BY <1>2, <1>4, <1>5, <1>7

(* What the searches make of a reference is linked to what they make of    *)
(* the member and of its class.                                            *)
LEMMA OutcomeLinks ==
  ASSUME TypeOK, CopyInv, OutcomeInv
  PROVE  LinksKept
  <1>1. SUFFICES ASSUME ClassesKept,
                        NEW m \in 1..Len(out), NEW n \in 1..Len(out), NEW c \in 1..Len(out),
                        sites[m].own, ~sites[n].own,
                        sites[m].pool = sites[n].pool, sites[m].key = sites[n].key,
                        sites[c].pool = "types", sites[c].key = <<sites[m].key[1]>>
                 PROVE  out[n] = [out[m] EXCEPT ![1] = out[c][1]]
    BY DEF LinksKept
  <1> DEFINE s == sites[m]
             r == sites[n]
             d == sites[c]
  <1>2. s \in Sites /\ r \in Sites /\ d \in Sites
        /\ out[m] \in Seq(Nat) /\ out[n] \in Seq(Nat) /\ out[c] \in Seq(Nat)
    <2>1. /\ sites \in Seq(Sites) /\ out \in Seq(Seq(Nat)) /\ Len(out) = site - 1
          /\ site \in 1..Len(sites) + 1
      BY DEF TypeOK
    <2>2. Len(sites) \in Nat /\ Len(out) \in Nat
      BY <2>1, LenProperties
    <2>3. m \in 1..Len(sites) /\ n \in 1..Len(sites) /\ c \in 1..Len(sites)
      BY <2>1, <2>2
    <2> QED
      BY <2>1, <2>3, ElementOfSeq
  <1>3. PICK a \in Members(s) :
          Len(out[m]) = Len(a) /\ \A k \in 1..Len(a) : Renamed(s, a, out[m], k)
    BY DEF OutcomeInv
  <1>4. PICK b \in Members(r) :
          Len(out[n]) = Len(b) /\ \A k \in 1..Len(b) : Renamed(r, b, out[n], k)
    BY DEF OutcomeInv
  <1>5. PICK e \in Members(d) :
          Len(out[c]) = Len(e) /\ \A k \in 1..Len(e) : Renamed(d, e, out[c], k)
    BY DEF OutcomeInv
  <1>6. a = b /\ b[1] = r.key[1]
    <2>1. s.own /\ ~r.own /\ s.pool = r.pool /\ s.key = r.key /\ ClassesKept
      BY <1>1
    <2>2. s \in Sites /\ r \in Sites /\ a \in Members(s) /\ b \in Members(r)
      BY <1>2
    <2> HIDE DEF s, r
    <2> QED
      BY <2>1, <2>2, SameMember
  <1>7. /\ r.pool \in Tables /\ b \in Seq(Nat) /\ Len(b) \in Nat \ {0}
        /\ \A k \in 1..Len(b) : <<b[k]>> \in Keys("types")
    BY <1>2, MembersKey
  <1>8. 1 \in 1..Len(b) /\ "types" \in Tables
    BY <1>7 DEF Tables
  <1>9. Ends("types", <<b[1]>>, <<out[n][1]>>)
    <2>1. 1 \in ClassParts(r, b)
      BY <1>1, <1>7 DEF ClassParts, Tables
    <2> QED
      BY <1>4, <1>8, <2>1 DEF Renamed
  <1>10. Ends("types", <<b[1]>>, <<out[c][1]>>)
    <2>1. e = IF d.own THEN [d.key EXCEPT ![1] = d.key[1]] ELSE d.key
      BY <1>1 DEF Members
    <2>2. d.key = <<b[1]>>
      BY <1>1, <1>6
    <2>3. e[1] = b[1] /\ Len(e) \in Nat \ {0}
      <3>1. <<b[1]>>[1] = b[1] /\ [<<b[1]>> EXCEPT ![1] = b[1]][1] = b[1]
        OBVIOUS
      <3>2. Len(e) \in Nat \ {0}
        BY <1>2, MembersKey
      <3> QED
        BY <2>1, <2>2, <3>1, <3>2
    <2>4. 1 \in ClassParts(d, e) /\ 1 \in 1..Len(e)
      BY <1>1, <2>3 DEF ClassParts
    <2> QED
      BY <1>5, <2>3, <2>4 DEF Renamed
  <1>11. out[n][1] = out[c][1]
    <2>1. <<out[n][1]>> = <<out[c][1]>>
      BY <1>7, <1>8, <1>9, <1>10, OneResult
    <2> QED
      BY <2>1
  <1>12. ASSUME NEW k \in 1..Len(b), k # 1
         PROVE  out[n][k] = out[m][k]
    <2>1. k \in ClassParts(s, b) <=> k \in ClassParts(r, b)
      BY <1>1, <1>12 DEF ClassParts
    <2>2. Renamed(s, b, out[m], k) /\ Renamed(r, b, out[n], k)
      BY <1>3, <1>4, <1>6
    <2>3. CASE k \in ClassParts(r, b)
      <3>1. Ends("types", <<b[k]>>, <<out[m][k]>>) /\ Ends("types", <<b[k]>>, <<out[n][k]>>)
        BY <2>1, <2>2, <2>3 DEF Renamed
      <3>2. <<out[m][k]>> = <<out[n][k]>>
        BY <1>7, <1>8, <3>1, OneResult
      <3> QED
        BY <3>2
    <2>4. CASE k \notin ClassParts(r, b)
      BY <2>1, <2>2, <2>4 DEF Renamed
    <2> QED
      BY <2>3, <2>4
  <1>13. Len(out[m]) = Len(b) /\ Len(out[n]) = Len(b)
    BY <1>3, <1>4, <1>6
  <1>14. out[c][1] \in Nat
    <2>1. out[n][1] \in Nat
      BY <1>2, <1>8, <1>13, ElementOfSeq
    <2> QED
      BY <1>11, <2>1
  <1> DEFINE x == [out[m] EXCEPT ![1] = out[c][1]]
  <1>15. /\ x \in Seq(Nat) /\ Len(x) = Len(b)
         /\ \A k \in 1..Len(b) : x[k] = IF k = 1 THEN out[c][1] ELSE out[m][k]
    BY SMTT(30), <1>2, <1>8, <1>13, <1>14, ExceptSeq
  <1>16. \A k \in 1..Len(b) : x[k] = out[n][k]
    <2> HIDE DEF x
    <2> QED
      BY <1>11, <1>12, <1>15
  <1>17. x = out[n]
    <2> HIDE DEF x
    <2> QED
      BY <1>2, <1>13, <1>15, <1>16, SeqEqual
  <1> QED
    BY <1>17

-----------------------------------------------------------------------------
(* The window and the value of the search.                                 *)
Here == [lo |-> lo, hi |-> hi, val |-> Val]

(* An iteration of the search goes one state on its way.                   *)
LEMMA IterationFollows ==
  ASSUME TypeOK, Match \/ GoLeft \/ GoRight
  PROVE  /\ Here \in States(TableOf) /\ Here' = Follow(TableOf)[Here]
         /\ \A p, k : p = TableOf /\ k \in Keys(p) /\ Here \in Way(p, k) => Here' \in Way(p, k)
  <1>1. /\ pc = "search" /\ lo < hi /\ part' = part
    BY DEF Match, GoLeft, GoRight
  <1>2. /\ TableOf \in Tables /\ Val \in Keys(TableOf) /\ lo \in Nat /\ hi \in Nat
        /\ lo <= hi /\ hi <= Len(tables[TableOf]) /\ Len(tables[TableOf]) \in Nat
    BY <1>1, SearchFacts, TableFacts
  <1>3. Here \in States(TableOf)
    <2>1. lo \in 0..Len(tables[TableOf]) /\ hi \in 0..Len(tables[TableOf])
      BY <1>2
    <2> QED
      BY <1>2, <2>1 DEF Here, States
  <1>4. Here.lo = lo /\ Here.hi = hi /\ Here.val = Val /\ Middle(Here) = md
    BY DEF Here, Middle, md
  <1>5. /\ Probe = tables[TableOf][md + 1] /\ Probe.source \in Keys(TableOf)
    BY <1>1, ProbeFacts
  <1>6. ~(lo >= hi)
    BY <1>1, <1>2
  <1>7. Follow(TableOf)[Here] =
          IF Val = Probe.source THEN [Here EXCEPT !.val = Probe.dest]
          ELSE IF Less(Val, Probe.source) THEN [Here EXCEPT !.hi = md]
          ELSE [Here EXCEPT !.lo = md + 1]
    BY <1>3, <1>4, <1>5, <1>6 DEF Follow
  <1>8. /\ [Here EXCEPT !.val = Probe.dest] = [lo |-> lo, hi |-> hi, val |-> Probe.dest]
        /\ [Here EXCEPT !.hi = md] = [lo |-> lo, hi |-> md, val |-> Val]
        /\ [Here EXCEPT !.lo = md + 1] = [lo |-> md + 1, hi |-> hi, val |-> Val]
    BY DEF Here
  <1>9. Val \in Seq(Nat) /\ Probe.source \in Seq(Nat)
    BY <1>2, <1>5, KeyFacts
  <1>10. Here' = [lo |-> lo', hi |-> hi', val |-> Val']
    BY DEF Here
  <1>11. ASSUME Match PROVE Here' = Follow(TableOf)[Here]
    <2>1. lo' = lo /\ hi' = hi /\ Val = Probe.source
      BY <1>11 DEF Match
    <2>2. Val' = Probe.dest
      BY <1>11, MatchKey
    <2> QED
      BY <1>3, <1>7, <1>8, <1>10, <2>1, <2>2
  <1>12. ASSUME GoLeft PROVE Here' = Follow(TableOf)[Here]
    <2>1. lo' = lo /\ hi' = md /\ Less(Val, Probe.source) /\ Val' = Val
      BY <1>12 DEF GoLeft, Val
    <2>2. Val # Probe.source
      BY <1>9, <2>1, LessIrreflexive
    <2> QED
      BY <1>3, <1>7, <1>8, <1>10, <2>1, <2>2
  <1>13. ASSUME GoRight PROVE Here' = Follow(TableOf)[Here]
    <2>1. lo' = md + 1 /\ hi' = hi /\ Less(Probe.source, Val) /\ Val' = Val
      BY <1>13 DEF GoRight, Val
    <2>2. Val # Probe.source
      BY <1>9, <2>1, LessIrreflexive
    <2>3. ~Less(Val, Probe.source)
      <3>1. ASSUME Less(Val, Probe.source) PROVE FALSE
        <4>1. Less(Val, Val)
          BY <1>9, <2>1, <3>1, LessTransitive
        <4> QED
          BY <1>9, <4>1, LessIrreflexive
      <3> QED
        BY <3>1
    <2> QED
      BY <1>3, <1>7, <1>8, <1>10, <2>1, <2>2, <2>3
  <1>14. Here' = Follow(TableOf)[Here]
    BY <1>11, <1>12, <1>13
  <1>15. ASSUME NEW k \in Keys(TableOf), Here \in Way(TableOf, k)
         PROVE  Here' \in Way(TableOf, k)
    <2>1. Follow(TableOf) \in [States(TableOf) -> States(TableOf)]
          /\ Begin(TableOf, k) \in States(TableOf)
      BY <1>2, FollowType, BeginType
    <2> QED
      BY <1>14, <1>15, <2>1, OrbitFacts DEF Way
  <1> QED
    BY <1>3, <1>14, <1>15

(* A window that is empty: the search of part is at its end.               *)
LEMMA WayEnd ==
  ASSUME TypeOK, WayInv, pc = "search", lo >= hi
  PROVE  LET s == sites[site]
         IN  \E mem \in Members(s) :
               /\ Settled \in Seq(Nat) /\ Len(Settled) = Len(mem)
               /\ ClassParts(s, key) = ClassParts(s, mem) /\ Len(key) = Len(mem)
               /\ \A n \in 1..Len(key) :
                    /\ n <= part => Renamed(s, mem, Settled, n)
                    /\ n > part => Settled[n] = mem[n]
  <1> DEFINE s == sites[site]
  <1>1. /\ s \in Sites /\ s.pool \in Tables /\ key \in Keys(s.pool)
        /\ part \in 0..Len(key)
    BY SearchFacts
  <1>2. Settled \in Keys(s.pool) /\ Len(Settled) = Len(key)
    BY SettledKey
  <1>3. Settled \in Seq(Nat) /\ Len(key) \in Nat
    BY <1>1, <1>2, KeyFacts
  <1>4. Here.lo >= Here.hi /\ Here.val = Val
    BY DEF Here
  <1>5. CASE part = 0
    <2>1. Here \in Way(s.pool, s.key) /\ Val = key
      BY <1>5 DEF WayInv, Here, Val
    <2>2. Ends(s.pool, s.key, key)
      BY <1>4, <2>1 DEF Ends
    <2>3. s.pool # "types"
      BY <1>5 DEF TypeOK
    <2>4. Settled = IF s.own THEN [key EXCEPT ![1] = s.key[1]] ELSE key
      BY <1>5 DEF Settled
    <2>5. Settled \in Members(s)
      BY <1>1, <1>2, <2>2, <2>3, <2>4 DEF Members
    <2>6. ClassParts(s, key) = ClassParts(s, Settled)
      BY <1>2, SameParts
    <2>7. \A n \in 1..Len(key) : ~(n <= part)
      BY <1>3, <1>5
    <2> QED
      BY <1>2, <1>3, <2>5, <2>6, <2>7
  <1>6. CASE part # 0
    <2>1. PICK mem \in Members(s) :
            /\ part \in ClassParts(s, mem) /\ Len(key) = Len(mem)
            /\ Here \in Way("types", <<mem[part]>>)
            /\ \A n \in 1..Len(key) :
                 /\ n < part => Renamed(s, mem, key, n)
                 /\ n > part => key[n] = mem[n]
      BY <1>6 DEF WayInv, Here
    <2>2. Val = <<key[part]>> /\ Settled = key
      BY <1>6 DEF Val, Settled
    <2>3. Ends("types", <<mem[part]>>, <<key[part]>>)
      BY <1>4, <2>1, <2>2 DEF Ends
    <2>4. Renamed(s, mem, key, part)
      BY <2>1, <2>3 DEF Renamed
    <2>5. ASSUME NEW n \in 1..Len(key)
          PROVE  /\ n <= part => Renamed(s, mem, key, n)
                 /\ n > part => key[n] = mem[n]
      BY <1>1, <1>3, <2>1, <2>4
    <2>6. ClassParts(s, key) = ClassParts(s, mem)
      BY <2>1, SameParts
    <2> QED
      BY <1>3, <2>1, <2>2, <2>5, <2>6
  <1> QED
    BY <1>5, <1>6

(* The first search of a reference begins.                                 *)
LEMMA StartSiteWay ==
  ASSUME TypeOK, StartSite
  PROVE  WayInv'
  <1>1. /\ sites' = sites /\ site' = site /\ tables' = tables
        /\ key' = sites[site].key /\ part' = (IF sites[site].pool = "types" THEN 1 ELSE 0)
        /\ lo' = 0 /\ hi' = Len(Searched(part', sites[site])) /\ pc' = "search"
    BY DEF StartSite
  <1>2. site \in 1..Len(sites)
    <2>1. sites \in Seq(Sites)
      BY DEF TypeOK
    <2>2. Len(sites) \in Nat
      BY <2>1, LenProperties
    <2> QED
      BY <2>1, <2>2 DEF StartSite, TypeOK
  <1> DEFINE s == sites[site]
  <1>3. s \in Sites
    BY <1>2, ElementOfSeq DEF TypeOK
  <1>4. s.pool \in Tables /\ s.key \in Keys(s.pool)
    BY <1>3 DEF Sites
  <1>5. ASSUME NEW p \in Tables, NEW k \in Keys(p) PROVE Begin(p, k) \in Way(p, k)
    <2>1. Follow(p) \in [States(p) -> States(p)] /\ Begin(p, k) \in States(p)
      BY FollowType, BeginType
    <2> QED
      BY <2>1, OrbitFacts DEF Way
  <1>6. CASE s.pool # "types"
    <2>1. part' = 0 /\ Val' = s.key /\ hi' = Len(tables[s.pool])
      BY <1>1, <1>6 DEF Val, Searched
    <2>2. [lo |-> lo', hi |-> hi', val |-> Val'] = Begin(s.pool, s.key)
      BY <1>1, <2>1 DEF Begin
    <2>3. ([lo |-> lo, hi |-> hi, val |-> Val] \in Way(sites[site].pool, sites[site].key))'
      BY <1>1, <1>4, <1>5, <2>2, SameWays
    <2> QED
      BY <2>1, <2>3 DEF WayInv
  <1>7. CASE s.pool = "types"
    <2>1. Len(s.key) = 1 /\ s.key \in Seq(Nat) /\ s.key[1] \in Nat
      <3>1. Len(s.key) = 1 /\ s.key \in Seq(Nat) /\ \A n \in 1..Len(s.key) : s.key[n] \in Nat
        BY <1>4, <1>7, KeyFacts
      <3> QED
        BY <3>1
    <2>2. [s.key EXCEPT ![1] = s.key[1]] = s.key
      <3>1. 1 \in 1..Len(s.key)
        BY <2>1
      <3>2. /\ [s.key EXCEPT ![1] = s.key[1]] \in Seq(Nat)
            /\ Len([s.key EXCEPT ![1] = s.key[1]]) = Len(s.key)
            /\ \A n \in 1..Len(s.key) :
                 [s.key EXCEPT ![1] = s.key[1]][n] = IF n = 1 THEN s.key[1] ELSE s.key[n]
        BY <2>1, <3>1, ExceptSeq
      <3> QED
        BY <2>1, <3>2, SeqEqual
    <2>3. s.key \in Members(s)
      BY <1>4, <1>7, <2>2 DEF Members
    <2>4. part' = 1 /\ Val' = <<s.key[1]>> /\ hi' = Len(tables["types"])
      BY <1>1, <1>7 DEF Val, Searched
    <2>5. [lo |-> lo', hi |-> hi', val |-> Val'] = Begin("types", <<s.key[1]>>)
      BY <1>1, <2>4 DEF Begin
    <2>6. <<s.key[1]>> \in Keys("types")
      <3>1. <<s.key[1]>> \in Seq(Nat) /\ Len(<<s.key[1]>>) = 1
        BY <2>1
      <3> QED
        BY <3>1 DEF Keys
    <2>7. [lo |-> lo', hi |-> hi', val |-> Val'] \in Way("types", <<s.key[1]>>)
      BY <1>4, <1>5, <1>7, <2>5, <2>6
    <2>8. 1 \in ClassParts(s, s.key)
      BY <1>7 DEF ClassParts
    <2>9. \A n \in 1..Len(key') : ~(n < part') /\ ~(n > part')
      BY <1>1, <2>1, <2>4
    <2>10. ([lo |-> lo, hi |-> hi, val |-> Val] \in Way("types", <<sites[site].key[1]>>))'
      BY <1>1, <2>7, SameWays
    <2>11. (sites[site].key \in Members(sites[site]))'
      BY <1>1, <2>3, SameWays
    <2> QED
      BY SMTT(30), <1>1, <2>4, <2>8, <2>9, <2>10, <2>11 DEF WayInv
  <1> QED
    BY <1>6, <1>7

(* An iteration of a search keeps it on its way.                           *)
LEMMA IterationWay ==
  ASSUME TypeOK, WayInv, Match \/ GoLeft \/ GoRight
  PROVE  WayInv'
  <1>1. /\ UNCHANGED <<sites, tables, pc, site, part>> /\ pc = "search"
    BY DEF Match, GoLeft, GoRight
  <1> DEFINE s == sites[site]
  <1>2. /\ s \in Sites /\ s.pool \in Tables /\ s.key \in Keys(s.pool) /\ key \in Keys(s.pool)
        /\ part \in 0..Len(key)
    BY <1>1, SearchFacts
  <1>3. Here' = [lo |-> lo', hi |-> hi', val |-> Val'] /\ Here = [lo |-> lo, hi |-> hi, val |-> Val]
    BY DEF Here
  <1>4. CASE part = 0
    <2>1. TableOf = s.pool /\ Here \in Way(s.pool, s.key)
      BY <1>1, <1>3, <1>4 DEF TableOf, WayInv
    <2>2. Here' \in Way(s.pool, s.key)
      BY <1>2, <2>1, IterationFollows
    <2>3. ([lo |-> lo, hi |-> hi, val |-> Val] \in Way(sites[site].pool, sites[site].key))'
      BY <1>1, <1>3, <2>2, SameWays
    <2> QED
      BY <1>1, <1>4, <2>3 DEF WayInv
  <1>5. CASE part # 0
    <2>1. PICK mem \in Members(s) :
            /\ part \in ClassParts(s, mem) /\ Len(key) = Len(mem)
            /\ Here \in Way("types", <<mem[part]>>)
            /\ \A n \in 1..Len(key) :
                 /\ n < part => Renamed(s, mem, key, n)
                 /\ n > part => key[n] = mem[n]
      BY <1>1, <1>3, <1>5 DEF WayInv
    <2>2. TableOf = "types"
      BY <1>5 DEF TableOf
    <2>3. part \in 1..Len(mem) /\ part > 0 /\ Len(key) \in Nat
      <3>1. Len(mem) \in Nat
        BY <1>2, MembersKey
      <3> QED
        BY <1>2, <1>5, <2>1, <3>1
    <2>4. <<mem[part]>> \in Keys("types")
      BY <1>2, <2>3, MembersKey
    <2>5. Here' \in Way("types", <<mem[part]>>)
      BY <2>1, <2>2, <2>4, IterationFollows
    <2>6. Len(key') = Len(key) /\ \A n \in 1..Len(key) : n # part => key'[n] = key[n]
      <3>1. CASE Match
        BY <2>3, <3>1, MatchKey
      <3>2. CASE GoLeft \/ GoRight
        BY <3>2 DEF GoLeft, GoRight
      <3> QED
        BY <3>1, <3>2
    <2>7. ASSUME NEW n \in 1..Len(key')
          PROVE  /\ n < part => Renamed(s, mem, key', n)
                 /\ n > part => key'[n] = mem[n]
      <3>1. n # part => key'[n] = key[n]
        BY <2>6
      <3>2. n < part => n # part
        BY <2>3
      <3>3. n > part => n # part
        BY <2>3
      <3> QED
        BY <2>1, <2>6, <3>1, <3>2, <3>3 DEF Renamed
    <2>8. (mem \in Members(sites[site]))'
      BY <1>1, SameWays
    <2>9. ([lo |-> lo, hi |-> hi, val |-> Val] \in Way("types", <<mem[part]>>))'
      BY <1>1, <1>3, <2>5, SameWays
    <2>10. \A n \in 1..Len(key') : n < part' => Renamed(sites[site], mem, key, n)'
      BY <1>1, <2>7, SameWays
    <2> QED
      BY <1>1, <1>5, <2>1, <2>6, <2>7, <2>8, <2>9, <2>10 DEF WayInv
  <1> QED
    BY <1>4, <1>5

(* The search of the next class begins, with those before it at their ends. *)
LEMMA NextPartWay ==
  ASSUME TypeOK, WayInv, NextPart
  PROVE  WayInv'
  <1> DEFINE s == sites[site]
  <1>1. /\ UNCHANGED <<sites, tables, pc, site>> /\ pc = "search" /\ lo >= hi
        /\ key' = Settled /\ lo' = 0 /\ hi' = Len(tables["types"])
    BY DEF NextPart
  <1>2. /\ s \in Sites /\ s.pool \in Tables /\ key \in Keys(s.pool) /\ part \in 0..Len(key)
        /\ Len(key) \in Nat
    BY <1>1, SearchFacts, KeyFacts
  <1>3. PICK mem \in Members(s) :
          /\ Settled \in Seq(Nat) /\ Len(Settled) = Len(mem)
          /\ ClassParts(s, key) = ClassParts(s, mem) /\ Len(key) = Len(mem)
          /\ \A n \in 1..Len(key) :
               /\ n <= part => Renamed(s, mem, Settled, n)
               /\ n > part => Settled[n] = mem[n]
    BY <1>1, WayEnd
  <1>4. /\ part' \in ClassParts(s, key) /\ part' > part /\ part' \in 1..Len(key)
        /\ \A p \in ClassParts(s, key) : p > part => part' <= p
    BY NextPlace
  <1>5. ASSUME NEW n \in 1..Len(key')
        PROVE  /\ n < part' => Renamed(s, mem, Settled, n)
               /\ n > part' => Settled[n] = mem[n]
    <2>1. n \in 1..Len(key)
      BY <1>1, <1>3
    <2>2. ASSUME n < part', n > part PROVE Renamed(s, mem, Settled, n)
      <3>1. n \notin ClassParts(s, mem)
        BY <1>2, <1>3, <1>4, <2>1, <2>2
      <3> QED
        BY <1>3, <2>1, <2>2, <3>1 DEF Renamed
    <2>3. n < part' => Renamed(s, mem, Settled, n)
      BY <1>2, <1>3, <2>1, <2>2
    <2>4. n > part' => Settled[n] = mem[n]
      BY <1>2, <1>3, <1>4, <2>1
    <2> QED
      BY <2>3, <2>4
  <1>6. "types" \in Tables /\ <<mem[part']>> \in Keys("types")
    BY <1>2, <1>3, <1>4, MembersKey DEF Tables
  <1>7. Begin("types", <<mem[part']>>) \in Way("types", <<mem[part']>>)
    <2>1. /\ Follow("types") \in [States("types") -> States("types")]
          /\ Begin("types", <<mem[part']>>) \in States("types")
      BY <1>6, FollowType, BeginType
    <2> QED
      BY <2>1, OrbitFacts DEF Way
  <1>8. part' # 0
    BY <1>4
  <1>9. Val' = <<mem[part']>>
    <2>1. Settled[part'] = mem[part']
      BY <1>3, <1>4
    <2> QED
      BY <1>1, <1>8, <2>1 DEF Val
  <1>10. [lo |-> lo', hi |-> hi', val |-> Val'] \in Way("types", <<mem[part']>>)
    BY <1>1, <1>7, <1>9 DEF Begin
  <1>11. ([lo |-> lo, hi |-> hi, val |-> Val] \in Way("types", <<mem[part]>>))'
    BY <1>1, <1>10, SameWays
  <1>12. (mem \in Members(sites[site]))'
    BY <1>1, SameWays
  <1>13. \A n \in 1..Len(key') : n < part' => Renamed(sites[site], mem, key, n)'
    BY <1>1, <1>5, SameWays
  <1> QED
    BY <1>1, <1>3, <1>4, <1>5, <1>8, <1>11, <1>12, <1>13 DEF WayInv

(* A reference is left with every search at its end.                       *)
LEMMA EndSiteOutcome ==
  ASSUME TypeOK, WayInv, OutcomeInv, EndSite
  PROVE  OutcomeInv'
  <1> DEFINE s == sites[site]
  <1>1. /\ UNCHANGED <<sites, tables>> /\ pc = "search" /\ lo >= hi /\ pc' = "visit"
        /\ out' = Append(out, Settled)
        /\ \A p \in ClassParts(s, key) : ~(p > part)
    BY DEF EndSite
  <1>2. s \in Sites /\ part \in 0..Len(key) /\ Len(key) \in Nat
    BY <1>1, SearchFacts, KeyFacts
  <1>3. PICK mem \in Members(s) :
          /\ Settled \in Seq(Nat) /\ Len(Settled) = Len(mem)
          /\ ClassParts(s, key) = ClassParts(s, mem) /\ Len(key) = Len(mem)
          /\ \A n \in 1..Len(key) :
               /\ n <= part => Renamed(s, mem, Settled, n)
               /\ n > part => Settled[n] = mem[n]
    BY <1>1, WayEnd
  <1>4. ASSUME NEW k \in 1..Len(mem) PROVE Renamed(s, mem, Settled, k)
    <2>1. k \in 1..Len(key)
      BY <1>3
    <2>2. CASE k <= part
      BY <1>3, <2>1, <2>2
    <2>3. CASE k > part
      <3>1. k \notin ClassParts(s, mem)
        BY <1>1, <1>3, <2>3
      <3> QED
        BY <1>3, <2>1, <2>3, <3>1 DEF Renamed
    <2> QED
      BY <1>2, <2>1, <2>2, <2>3
  <1>5. out \in Seq(Seq(Nat)) /\ Len(out) = site - 1 /\ Len(out) \in Nat
    BY LenProperties DEF TypeOK
  <1>6. /\ Len(out') = Len(out) + 1
        /\ \A n \in 1..Len(out) : out'[n] = out[n]
        /\ out'[Len(out) + 1] = Settled
    BY <1>1, <1>3, <1>5, AppendProperties
  <1>7. site = Len(out) + 1
    BY <1>1, <1>5, SearchFacts
  <1>8. ASSUME NEW n \in 1..Len(out')
        PROVE  \E m \in Members(sites[n]) :
                 Len(out'[n]) = Len(m) /\ \A k \in 1..Len(m) : Renamed(sites[n], m, out'[n], k)
    <2>1. CASE n <= Len(out)
      <3>1. n \in 1..Len(out) /\ out'[n] = out[n]
        BY <1>5, <1>6, <2>1
      <3> QED
        BY <3>1 DEF OutcomeInv
    <2>2. CASE n = Len(out) + 1
      <3>1. n = site /\ out'[n] = Settled
        BY <1>6, <1>7, <2>2
      <3> QED
        BY <1>3, <1>4, <3>1
    <2> QED
      BY <1>5, <1>6, <2>1, <2>2
  <1>9. \A n \in 1..Len(out') :
          \E m \in (Members(sites[n]))' :
            Len(out'[n]) = Len(m) /\ \A k \in 1..Len(m) : Renamed(sites[n], m, out[n], k)'
    <2>1. ASSUME NEW n \in 1..Len(out')
          PROVE  \E m \in (Members(sites[n]))' :
                   Len(out'[n]) = Len(m) /\ \A k \in 1..Len(m) : Renamed(sites[n], m, out[n], k)'
      <3>1. PICK m \in Members(sites[n]) :
              Len(out'[n]) = Len(m) /\ \A k \in 1..Len(m) : Renamed(sites[n], m, out'[n], k)
        BY <1>8
      <3>2. m \in Members(sites[n])'
        BY <1>1, SameWays
      <3>3. \A k \in 1..Len(m) : Renamed(sites[n], m, out[n], k)'
        BY <1>1, <3>1, SameWays
      <3> QED
        BY <3>1, <3>2, <3>3
    <2> QED
      BY <2>1
  <1>10. pc' \notin Tables
    BY <1>1 DEF Tables
  <1> QED
    BY <1>9, <1>10 DEF OutcomeInv

(* No other action changes what was left.                                  *)
LEMMA KeepOutcome ==
  ASSUME OutcomeInv, UNCHANGED <<sites, out>>, pc \in Tables \/ tables' = tables,
         pc' \in Tables => pc \in Tables
  PROVE  OutcomeInv'
  <1>1. CASE pc \in Tables
    <2>1. Len(out') = 0
      BY <1>1 DEF OutcomeInv
    <2> QED
      BY <2>1 DEF OutcomeInv
  <1>2. CASE pc \notin Tables
    <2>1. tables' = tables /\ pc' \notin Tables
      BY <1>2
    <2>2. \A n \in 1..Len(out') :
            \E mem \in (Members(sites[n]))' :
              Len(out'[n]) = Len(mem) /\ \A k \in 1..Len(mem) : Renamed(sites[n], mem, out[n], k)'
      BY <2>1, SameWays DEF OutcomeInv
    <2> QED
      BY <2>1, <2>2 DEF OutcomeInv
  <1> QED
    BY <1>1, <1>2

(* Every search stays on its way, and every result is at the end of one.   *)
LEMMA NextWay ==
  ASSUME TypeOK, WayInv, OutcomeInv, [Next]_vars
  PROVE  WayInv' /\ OutcomeInv'
  <1>1. CASE Compare \/ NextEntry \/ EndSort \/ Finish
    <2>1. /\ UNCHANGED <<sites, out>> /\ pc' # "search"
          /\ pc \in Tables \/ (tables' = tables /\ pc' = "done")
      BY <1>1 DEF Compare, NextEntry, EndSort, Finish, Tables, After
    <2>2. pc' \in Tables => pc \in Tables
      BY <2>1 DEF Tables
    <2>3. OutcomeInv'
      BY <2>1, <2>2, KeepOutcome
    <2> QED
      BY <2>1, <2>3 DEF WayInv
  <1>2. CASE StartSite
    <2>1. UNCHANGED <<sites, out, tables>> /\ pc' \notin Tables
      BY <1>2 DEF StartSite, Tables
    <2>2. OutcomeInv'
      BY <2>1, KeepOutcome
    <2> QED
      BY <1>2, <2>2, StartSiteWay
  <1>3. CASE Match \/ GoLeft \/ GoRight
    <2>1. UNCHANGED <<sites, out, tables>> /\ pc' \notin Tables
      BY <1>3 DEF Match, GoLeft, GoRight, Tables
    <2>2. OutcomeInv'
      BY <2>1, KeepOutcome
    <2> QED
      BY <1>3, <2>2, IterationWay
  <1>4. CASE NextPart
    <2>1. UNCHANGED <<sites, out, tables>> /\ pc' \notin Tables
      BY <1>4 DEF NextPart, Tables
    <2>2. OutcomeInv'
      BY <2>1, KeepOutcome
    <2> QED
      BY <1>4, <2>2, NextPartWay
  <1>5. CASE EndSite
    <2>1. pc' # "search"
      BY <1>5 DEF EndSite
    <2> QED
      BY <1>5, <2>1, EndSiteOutcome DEF WayInv
  <1>6. CASE Done \/ UNCHANGED vars
    <2>1. UNCHANGED vars
      BY <1>6 DEF Done
    <2>2. OutcomeInv'
      BY <2>1, KeepOutcome DEF vars
    <2>3. Val' = Val /\ sites[site]' = sites[site]
      BY <2>1 DEF vars, Val
    <2>4. WayInv'
      BY <2>1, <2>3, SameWays DEF vars, WayInv
    <2> QED
      BY <2>2, <2>4
  <1> QED
    BY <1>1, <1>2, <1>3, <1>4, <1>5, <1>6 DEF Next

(* For any tables, with chains or without: what refers to a member is      *)
(* renamed to what the member is renamed to, although the class is renamed *)
(* behind the member, unless the caller moves a member to another class.   *)
THEOREM RenameLinksKept == Spec => []LinksKept
  <1>1. Init => OutcomeInv /\ WayInv
    <2>1. ASSUME Init PROVE Len(out) = 0 /\ pc # "search"
      BY <2>1 DEF Init, InitTables
    <2> QED
      BY <2>1 DEF OutcomeInv, WayInv
  <1>2. TypeOK /\ OutcomeInv /\ WayInv /\ [Next]_vars => (OutcomeInv /\ WayInv)'
    BY NextWay
  <1>3. IndInv => TypeOK /\ CopyInv
    BY DEF IndInv
  <1>4. TypeOK /\ CopyInv /\ OutcomeInv => LinksKept
    BY OutcomeLinks
  <1> QED
    BY <1>1, <1>2, <1>3, <1>4, RenameInvariant, PTL DEF Spec

=============================================================================
