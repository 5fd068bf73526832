----------------------------- MODULE LayoutInv ------------------------------
(***************************************************************************)
(* The inductive invariant of Layout: what holds between two steps of the  *)
(* loops that plan, sort, merge, place, list and copy the items.  The      *)
(* properties of Layout follow from it.                                    *)
(***************************************************************************)
EXTENDS Layout

Sorting == pc \in {"sort", "merge", "place"}

(* The type of the section that the loop works on.                         *)
Current == resolve_order[iter]

Rank == [t \in Types |-> CHOOSE s \in 1..Len(Sections) : Sections[s] = t]

(* The rank of the section that is worked on: those below are finished,    *)
(* and what they keep and where it is does not change any more.            *)
Reached ==
  CASE pc = "collect" -> 1
    [] pc = "ids" -> iter
    [] pc \in {"sections", "sort", "merge", "place"} -> Len(IdTypes) + iter
    [] OTHER -> Len(Sections) + 1

LaidTypes == {t \in Types : Rank[t] < Reached}

(* What is planned of a section: all of it, or what the loop has passed.   *)
Planned(t) ==
  IF Rank[t] < Reached THEN type_map[t]
  ELSE IF Rank[t] = Reached /\ pc = "ids" THEN SubSeq(type_map[t], 1, j - 1)
  ELSE IF Rank[t] = Reached /\ pc = "place" THEN kept
  ELSE << >>

Placed == {i \in Items : i \in ToSet(Planned(dat[i].type))}

(* The items of the current section that the placing loop has passed.      *)
Passed == IF pc = "place" THEN {data_ord[m] : m \in 1..j - 1} ELSE {}

(* The items whose offset is final.                                        *)
Settled == {i \in Items : dat[i].type \in LaidTypes \/ i \in Passed \/ i \in Placed}

(* What a step does to the plan: nothing to what is final, or it places an *)
(* item, or it drops one, which takes the offset of the one that is kept.  *)
SamePlan ==
  /\ \A t \in Types : Planned(t)' = Planned(t)
  /\ Placed' = Placed
  /\ Settled' = Settled
  /\ \A i \in Settled : offsets'[i] = offsets[i]

Places(x) ==
  /\ Plan(x)
  /\ pc \in {"ids", "place"} /\ pc' = pc
  /\ Rank[dat[x].type] = Reached /\ Reached' = Reached
  /\ \A t \in Types : Planned(t)' = IF t = dat[x].type THEN Append(Planned(t), x) ELSE Planned(t)
  /\ Placed' = Placed \cup {x}
  /\ Settled' = Settled \cup {x}
  /\ UNCHANGED <<freed, resolved, at, file_sz>>

Drops(x) ==
  /\ offsets[x] \in Placed /\ SameBytes(offsets[x], x)
  /\ dat[offsets[x]].type = dat[x].type
  /\ offsets' = [offsets EXCEPT ![x] = offsets[offsets[x]]]
  /\ freed' = [freed EXCEPT ![x] = @ + 1]
  /\ pc = "place" /\ pc' = pc
  /\ \A t \in Types : Planned(t)' = Planned(t)
  /\ Placed' = Placed
  /\ Settled' = Settled \cup {x}
  /\ Reached' = Reached
  /\ UNCHANGED <<off, resolved, at, file_sz>>

(* The types whose references are resolved: of the id items at the end.    *)
ResolvedTypes ==
  {t \in Types : \/ pc \in {"map", "copy", "done"}
                 \/ Len(IdTypes) < Rank[t] /\ Rank[t] < Reached
                 \/ Len(IdTypes) < Rank[t] /\ Rank[t] = Reached /\ Sorting}

Injective(s) == \A m, n \in 1..Len(s) : m # n => s[m] # s[n]

End(i) == offsets[i] + dat[i].size
Align(i) == alignment_mp[dat[i].type]
-----------------------------------------------------------------------------
(* The cursors stay inside of the lists.                                   *)
CursorInv ==
  /\ pc = "collect" => iter = 1
  /\ pc = "ids" => /\ iter \in 1..Len(IdTypes) + 1
                   /\ j > 1 => iter \in 1..Len(IdTypes) /\ j - 1 <= Len(type_map[IdTypes[iter]])
  /\ pc = "sections" => iter \in 1..Len(resolve_order) + 1
  /\ Sorting => iter \in 1..Len(resolve_order)
  /\ pc \in {"merge", "place"} => j <= Len(data_ord) + 1
  /\ pc = "copy" /\ j > 1 => iter <= Len(Sections) /\ j - 1 <= Len(type_map[Sections[iter]])

(* The lists by type hold each item once; sections that are finished hold  *)
(* one item for all with the same bytes.                                   *)
ListsInv ==
  /\ \A t \in Types : Injective(type_map[t])
  /\ pc = "collect" => \A t \in Types : ToSet(type_map[t]) = {i \in 1..j - 1 : dat[i].type = t}
  /\ pc # "collect" =>
       \A t \in Types : t \in ToSet(IdTypes) \/ t \notin LaidTypes =>
         ToSet(type_map[t]) = {i \in Items : dat[i].type = t}
  /\ pc \in {"merge", "place"} =>
       /\ Injective(data_ord)
       /\ ToSet(data_ord) = {i \in Items : dat[i].type = Current}
  /\ pc = "merge" => kept = << >>
  /\ pc = "place" => Injective(kept) /\ ToSet(kept) \subseteq Passed

(* Where the planned items are: behind the header, in the order of the     *)
(* sections and of their lists, each at the first aligned offset behind    *)
(* the one before; off is where the last one ends.                         *)
IsEnd(e, S) ==
  /\ e \in Nat /\ e >= HeaderSize
  /\ \A i \in S : End(i) <= e
  /\ e = HeaderSize \/ \E i \in S : e = End(i)

PlanInv ==
  /\ \A i \in Placed : /\ offsets[i] >= HeaderSize
                       /\ \E e \in HeaderSize..off : /\ IsEnd(e, {k \in Placed : offsets[k] < offsets[i]})
                                         /\ offsets[i] = AlignUp(e, Align(i))
  /\ \A i, k \in Placed : i # k => End(i) <= offsets[k] \/ End(k) <= offsets[i]
  /\ pc \in {"collect", "ids", "sections", "sort", "merge", "place"} => IsEnd(off, Placed)
  /\ pc \in {"map", "copy", "done"} => \E e \in HeaderSize..off : IsEnd(e, Placed) /\ off = AlignUp(e, 4)

OrderInv ==
  /\ \A i, k \in Placed : Rank[dat[i].type] < Rank[dat[k].type] => offsets[i] < offsets[k]
  /\ \A t \in Types : \A m, n \in 1..Len(Planned(t)) :
       m < n => offsets[Planned(t)[m]] < offsets[Planned(t)[n]]

(* What the offsets of the current section mean before they are final: -1  *)
(* for an item that is kept, else the item that it is a duplicate of.      *)
Waiting(m) == offsets[data_ord[m]] = -1

SameAsEarlier(m, n) ==
  n < m /\ offsets[data_ord[m]] = data_ord[n] /\ SameBytes(data_ord[n], data_ord[m])

MergeInv ==
  /\ pc = "sort" => \A i \in Items : dat[i].type = Current => offsets[i] = -1
  /\ pc = "merge" =>
       \A m \in 1..Len(data_ord) : ~Waiting(m) =>
         \E n \in 1..j - 1 : SameAsEarlier(m, n) /\ Waiting(n)
  /\ pc = "place" =>
       \A m \in j..Len(data_ord) : ~Waiting(m) =>
         \E n \in 1..m - 1 : /\ SameAsEarlier(m, n)
                             /\ IF n < j THEN data_ord[n] \in ToSet(kept) ELSE Waiting(n)

(* References are resolved to the offsets that stay.                       *)
ResolvedInv ==
  \A i \in Items : dat[i].type \in ResolvedTypes => resolved[i] = Resolve(i)

(* Each item with a final offset has there an item with its bytes.         *)
RepresentedInv ==
  \A i \in Settled : \E r \in Placed :
    dat[r].type = dat[i].type /\ offsets[r] = offsets[i] /\ (r = i \/ SameBytes(r, i))

(* The bytes of an item were freed when it was dropped or copied.          *)
FreedInv ==
  \A i \in Items : freed[i] = IF i \in Settled \ Placed \/ at[i] # -1 THEN 1 ELSE 0

(* The map has an entry for each section passed that is not empty.         *)
Entries == 2..(IF pc = "map" THEN Len(map) ELSE Len(map) - 1)

MapInv ==
  pc \in {"map", "copy", "done"} =>
    /\ Len(map) >= 1
    /\ map[1] = [type |-> "header", offset |-> 0, size |-> 1]
    /\ \A e \in Entries : /\ map[e].type \in Types /\ type_map[map[e].type] # << >>
                          /\ map[e] = MapEntry(map[e].type)
    /\ \A e, f \in Entries : e < f => Rank[map[e].type] < Rank[map[f].type]
    /\ IF pc = "map"
         THEN /\ \A e \in Entries : Rank[map[e].type] < iter
              /\ \A s \in 1..iter - 1 : type_map[Sections[s]] # << >> =>
                   \E e \in Entries : map[e].type = Sections[s]
         ELSE /\ \A t \in Types : type_map[t] # << >> => \E e \in Entries : map[e].type = t
              /\ Len(map) >= 2
              /\ map[Len(map)] = [type |-> "map_list", offset |-> off, size |-> 1]

(* The buffer holds the items that the copying loop has passed, at their   *)
(* planned offsets.                                                        *)
Copied(t) ==
  {type_map[t][k] : k \in {k \in 1..Len(type_map[t]) :
     Rank[t] < iter \/ (Rank[t] = iter /\ k < j)}}

CopyInv ==
  /\ pc \notin {"copy", "done"} => InFile = {} /\ file_sz = 0
  /\ pc \in {"copy", "done"} => InFile = UNION {Copied(t) : t \in Types}
  /\ \A i \in InFile : Start(i) = offsets[i]
  /\ pc = "copy" => IsEnd(HeaderSize + file_sz, InFile)
  /\ pc = "done" => iter = Len(Sections) + 1 /\ HeaderSize + file_sz = off

IndInv ==
  /\ TypeOK /\ CursorInv /\ ListsInv /\ PlanInv /\ OrderInv /\ MergeInv
  /\ ResolvedInv /\ RepresentedInv /\ FreedInv /\ MapInv /\ CopyInv

(* Checksums are numbers.                                                  *)
NumericChecksums ==
  \A d \in DataLists : \A i \in 1..Len(d) : \A refs \in Seq(Int) :
    Crc([payload |-> d[i].payload, refs |-> refs]) \in Nat

(* Items that the merging loop keeps are not the same: it has compared     *)
(* each item that it passed with all that follow it,                       *)
MergedInv ==
  pc = "merge" =>
    /\ CrcSorted(data_ord) /\ Current # "code"
    /\ \A m \in 1..j - 1 : \A n \in 1..Len(data_ord) :
         m < n /\ Waiting(m) /\ Waiting(n) => ~SameBytes(data_ord[m], data_ord[n])

Keeps(m) == IF m < j THEN data_ord[m] \in ToSet(kept) ELSE Waiting(m)

(* so that those which are placed, or wait to be, differ,                  *)
KeptInv ==
  pc = "place" /\ Current # "code" =>
    \A m, n \in 1..Len(data_ord) :
      m < n /\ Keeps(m) /\ Keeps(n) => ~SameBytes(data_ord[m], data_ord[n])

(* and no finished section but that of the code holds equal items.         *)
UniqueInv ==
  \A i, k \in Placed :
    /\ i # k /\ dat[i].type = dat[k].type
    /\ dat[i].type \in LaidTypes /\ dat[i].type \in ToSet(resolve_order) \ {"code"}
    => ~SameBytes(i, k)

MergingInv == MergedInv /\ KeptInv /\ UniqueInv
=============================================================================
