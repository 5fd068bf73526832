------------------------------- MODULE Layout -------------------------------
(***************************************************************************)
(* The layout of a file by dxc_write_file (src/src/write.c), once every    *)
(* data item is in ctx->dat and the items are collected by type.  Offsets  *)
(* are planned first: id items in their order, then the data items type by *)
(* type in resolve_order, so that the references of an item are resolved   *)
(* before the item is placed.  Items of a type are sorted by checksum, and *)
(* equal items merged, code excepted.  The kept items are then copied one  *)
(* after the other, which has to yield the offsets that were planned.      *)
(***************************************************************************)
EXTENDS Integers, Sequences, FiniteSets, SequencesExt

CONSTANTS
  DataLists,   (* the values of ctx->dat after write_classes               *)
  Crc(_),      (* dxc_checksum of the bytes of an item                     *)
  UlebLimit    (* what four bytes of a uleb hold: 2^28                     *)

VARIABLES
  dat,         (* ctx->dat: type, payload, size and references of an item  *)
  pc,          (* the loop that runs                                       *)
  iter,        (* the cursor of the loops over sections                    *)
  j,           (* the cursor of the loops over the items of a section      *)
  off,         (* the end of what is planned so far                        *)
  offsets,     (* item -> its offset, or while its section is merged -1 or *)
               (* the item it is a duplicate of                            *)
  resolved,    (* item -> the values of its resolved references            *)
  type_map,    (* section -> its items                                     *)
  data_ord,    (* the items of a section, by checksum                      *)
  kept,        (* the items of a section that are not duplicates           *)
  map,         (* the map list                                             *)
  at,          (* item -> its position in the buffer, -1 until it is there *)
  file_sz,     (* the size of the buffer                                   *)
  freed        (* item -> how often its bytes were given to free           *)

vars == <<dat, pc, iter, j, off, offsets, resolved, type_map, data_ord, kept,
          map, at, file_sz, freed>>

HeaderSize == 112   (* 0x70 *)

IdTypes == <<"string_id", "type_id", "proto_id", "field_id", "method_id", "class_def">>

(* Mutant: the sets of annotations before the annotations.                 *)
resolve_orderMut ==
  <<"string_data", "type_list", "debug_info", "code", "class_data", "annotation_set",
    "annotation", "annotation_set_ref_list", "encoded_array", "annotations_directory">>

resolve_order ==
  <<"string_data", "type_list", "debug_info", "code", "class_data", "annotation",
    "annotation_set", "annotation_set_ref_list", "encoded_array", "annotations_directory">>

Types == ToSet(IdTypes) \cup ToSet(resolve_order)

alignment_mp ==
  [t \in Types |-> IF t \in {"class_data", "string_data", "debug_info", "annotation",
                             "encoded_array"} THEN 1 ELSE 4]

(* while(off % algn != 0) off++ *)
AlignUp(n, algn) == ((n + algn - 1) \div algn) * algn

(* What the writers refer to with write_resolve.                           *)
RefersTo ==
  [t \in Types |->
     CASE t = "string_id" -> {"string_data"}
       [] t = "proto_id" -> {"type_list"}
       [] t = "class_def" -> {"type_list", "annotations_directory", "class_data", "encoded_array"}
       [] t = "code" -> {"debug_info"}
       [] t = "class_data" -> {"code"}
       [] t = "annotation_set" -> {"annotation"}
       [] t = "annotation_set_ref_list" -> {"annotation_set"}
       [] t = "annotations_directory" -> {"annotation_set", "annotation_set_ref_list"}
       [] OTHER -> {}]

ASSUME UlebAssumption == UlebLimit \in Nat \ {0}

(* Items have a type and at least one byte, and refer to items.            *)
ASSUME DataAssumption ==
  \A d \in DataLists :
    /\ DOMAIN d = 1..Len(d) /\ Len(d) \in Nat
    /\ \A i \in 1..Len(d) :
         /\ d[i].type \in Types
         /\ d[i].size \in Nat \ {0}
         /\ d[i].refs \in Seq([index : 1..Len(d), uleb : BOOLEAN])
         /\ \A r \in 1..Len(d[i].refs) :
              d[d[i].refs[r].index].type \in RefersTo[d[i].type]

Items == 1..Len(dat)

(* The bytes of an item, whose references are zero until they are resolved. *)
Bytes(i) == [payload |-> dat[i].payload, refs |-> resolved[i]]
SameBytes(i, k) == dat[i].size = dat[k].size /\ Bytes(i) = Bytes(k)

(* perform_resolve: four bytes, or a uleb of four bytes for a reference    *)
(* marked by write_uleb_resolve.                                           *)
Resolve(i) ==
  [r \in 1..Len(dat[i].refs) |->
     LET ref == dat[i].refs[r]
     IN  IF ref.uleb THEN offsets[ref.index] % UlebLimit ELSE offsets[ref.index]]
-----------------------------------------------------------------------------
Init ==
  /\ dat \in DataLists
  /\ pc = "collect"
  /\ iter = 1
  /\ j = 1
  /\ off = HeaderSize
  /\ offsets = [i \in Items |-> 0]
  /\ resolved = [i \in Items |-> [r \in 1..Len(dat[i].refs) |-> 0]]
  /\ type_map = [t \in Types |-> << >>]
  /\ data_ord = << >>
  /\ kept = << >>
  /\ map = << >>
  /\ at = [i \in Items |-> -1]
  /\ file_sz = 0
  /\ freed = [i \in Items |-> 0]

(* type_map[typ][type_list_sz[typ]++] = i *)
Collect ==
  /\ pc = "collect" /\ j <= Len(dat)
  /\ type_map' = [type_map EXCEPT ![dat[j].type] = Append(@, j)]
  /\ j' = j + 1
  /\ UNCHANGED <<dat, pc, iter, off, offsets, resolved, data_ord, kept, map, at, file_sz, freed>>

CollectEnd ==
  /\ pc = "collect" /\ j > Len(dat)
  /\ pc' = "ids"
  /\ j' = 1
  /\ UNCHANGED <<dat, iter, off, offsets, resolved, type_map, data_ord, kept, map, at, file_sz, freed>>

(* Item i goes to the next aligned offset.                                 *)
Plan(i) ==
  LET start == AlignUp(off, alignment_mp[dat[i].type])
  IN  /\ offsets' = [offsets EXCEPT ![i] = start]
      /\ off' = start + dat[i].size

PlanId ==
  /\ pc = "ids" /\ iter <= Len(IdTypes)
  /\ LET section == type_map[IdTypes[iter]]
     IN  IF j <= Len(section)
           THEN Plan(section[j]) /\ j' = j + 1 /\ UNCHANGED iter
           ELSE iter' = iter + 1 /\ j' = 1 /\ UNCHANGED <<off, offsets>>
  /\ UNCHANGED <<dat, pc, resolved, type_map, data_ord, kept, map, at, file_sz, freed>>

PlanIdsEnd ==
  /\ pc = "ids" /\ iter > Len(IdTypes)
  /\ pc' = "sections"
  /\ iter' = 1
  /\ UNCHANGED <<dat, j, off, offsets, resolved, type_map, data_ord, kept, map, at, file_sz, freed>>

CrcSorted(s) == \A k \in 1..Len(s) - 1 : Crc(Bytes(s[k])) <= Crc(Bytes(s[k + 1]))

SkipSection ==
  /\ pc = "sections" /\ iter <= Len(resolve_order)
  /\ type_map[resolve_order[iter]] = << >>
  /\ iter' = iter + 1
  /\ UNCHANGED <<dat, pc, j, off, offsets, resolved, type_map, data_ord, kept, map, at, file_sz, freed>>

(* The references of the items of a section are resolved.                  *)
ResolveSection ==
  /\ pc = "sections" /\ iter <= Len(resolve_order)
  /\ LET section == ToSet(type_map[resolve_order[iter]])
     IN  /\ section # {}
         /\ resolved' = [i \in Items |-> IF i \in section THEN Resolve(i) ELSE resolved[i]]
         /\ offsets' = [i \in Items |-> IF i \in section THEN -1 ELSE offsets[i]]
  /\ pc' = "sort"
  /\ UNCHANGED <<dat, iter, j, off, type_map, data_ord, kept, map, at, file_sz, freed>>

(* Mutant: the items are not sorted.                                       *)
SortSectionMut ==
  /\ pc = "sort"
  /\ data_ord' = type_map[resolve_order[iter]]
  /\ pc' = IF resolve_order[iter] = "code" THEN "place" ELSE "merge"
  /\ j' = 1
  /\ kept' = << >>
  /\ UNCHANGED <<dat, iter, off, offsets, resolved, type_map, map, at, file_sz, freed>>

(* Mutant: the count of kept items is not reset for a section.             *)
SortSectionKeptMut ==
  /\ pc = "sort"
  /\ \E order \in SetToSeqs(ToSet(type_map[resolve_order[iter]])) :
       CrcSorted(order) /\ data_ord' = order
  /\ pc' = IF resolve_order[iter] = "code" THEN "place" ELSE "merge"
  /\ j' = 1
  /\ UNCHANGED <<dat, iter, off, offsets, resolved, type_map, kept, map, at, file_sz, freed>>

(* qsort by checksum: the order of items with equal checksums is free.     *)
SortSection ==
  /\ pc = "sort"
  /\ \E order \in SetToSeqs(ToSet(type_map[resolve_order[iter]])) :
       CrcSorted(order) /\ data_ord' = order
  /\ pc' = IF resolve_order[iter] = "code" THEN "place" ELSE "merge"
  /\ j' = 1
  /\ kept' = << >>
  /\ UNCHANGED <<dat, iter, off, offsets, resolved, type_map, map, at, file_sz, freed>>

(* The inner loop: it stops at the first other checksum.                   *)
Duplicates(s, n) ==
  {s[k] : k \in {k \in n + 1..Len(s) :
     /\ \A m \in n..k : Crc(Bytes(s[m])) = Crc(Bytes(s[n]))
     /\ SameBytes(s[n], s[k]) /\ offsets[s[k]] = -1}}

MergeOne ==
  /\ pc = "merge" /\ j <= Len(data_ord)
  /\ LET first == data_ord[j]
         same == IF offsets[first] = -1 THEN Duplicates(data_ord, j) ELSE {}
     IN  offsets' = [i \in Items |-> IF i \in same THEN first ELSE offsets[i]]
  /\ j' = j + 1
  /\ UNCHANGED <<dat, pc, iter, off, resolved, type_map, data_ord, kept, map, at, file_sz, freed>>

MergeEnd ==
  /\ pc = "merge" /\ j > Len(data_ord)
  /\ pc' = "place"
  /\ j' = 1
  /\ UNCHANGED <<dat, iter, off, offsets, resolved, type_map, data_ord, kept, map, at, file_sz, freed>>

PlaceItem ==
  /\ pc = "place" /\ j <= Len(data_ord)
  /\ offsets[data_ord[j]] = -1
  /\ Plan(data_ord[j])
  /\ kept' = Append(kept, data_ord[j])
  /\ j' = j + 1
  /\ UNCHANGED <<dat, pc, iter, resolved, type_map, data_ord, map, at, file_sz, freed>>

(* Mutant: a duplicate stays in the list of the section.                   *)
DropItemMut ==
  /\ pc = "place" /\ j <= Len(data_ord)
  /\ LET i == data_ord[j]
     IN  /\ offsets[i] # -1
         /\ offsets' = [offsets EXCEPT ![i] = offsets[offsets[i]]]
         /\ freed' = [freed EXCEPT ![i] = @ + 1]
         /\ kept' = Append(kept, i)
  /\ j' = j + 1
  /\ UNCHANGED <<dat, pc, iter, off, resolved, type_map, data_ord, map, at, file_sz>>

DropItem ==
  /\ pc = "place" /\ j <= Len(data_ord)
  /\ LET i == data_ord[j]
     IN  /\ offsets[i] # -1
         /\ offsets' = [offsets EXCEPT ![i] = offsets[offsets[i]]]
         /\ freed' = [freed EXCEPT ![i] = @ + 1]
  /\ j' = j + 1
  /\ UNCHANGED <<dat, pc, iter, off, resolved, type_map, data_ord, kept, map, at, file_sz>>

SectionEnd ==
  /\ pc = "place" /\ j > Len(data_ord)
  /\ type_map' = [type_map EXCEPT ![resolve_order[iter]] = kept]
  /\ iter' = iter + 1
  /\ pc' = "sections"
  /\ UNCHANGED <<dat, j, off, offsets, resolved, data_ord, kept, map, at, file_sz, freed>>

(* Every data item has its offset: the id items are resolved.  The map     *)
(* list begins with the header.                                            *)
ResolveIds ==
  /\ pc = "sections" /\ iter > Len(resolve_order)
  /\ off' = AlignUp(off, 4)
  /\ resolved' = [i \in Items |-> IF dat[i].type \in ToSet(IdTypes) THEN Resolve(i) ELSE resolved[i]]
  /\ map' = <<[type |-> "header", offset |-> 0, size |-> 1]>>
  /\ pc' = "map"
  /\ iter' = 1
  /\ UNCHANGED <<dat, j, offsets, type_map, data_ord, kept, at, file_sz, freed>>

Sections == IdTypes \o resolve_order

(* Mutant: the map describes the sections as they were before merging.     *)
MapEntryMut(t) ==
  [type |-> t, offset |-> offsets[type_map[t][1]],
   size |-> Cardinality({i \in Items : dat[i].type = t})]

MapEntry(t) ==
  [type |-> t, offset |-> offsets[type_map[t][1]], size |-> Len(type_map[t])]

MapSection ==
  /\ pc = "map" /\ iter <= Len(Sections)
  /\ map' = IF type_map[Sections[iter]] = << >> THEN map
            ELSE Append(map, MapEntry(Sections[iter]))
  /\ iter' = iter + 1
  /\ UNCHANGED <<dat, pc, j, off, offsets, resolved, type_map, data_ord, kept, at, file_sz, freed>>

MapEnd ==
  /\ pc = "map" /\ iter > Len(Sections)
  /\ map' = Append(map, [type |-> "map_list", offset |-> off, size |-> 1])
  /\ pc' = "copy"
  /\ iter' = 1
  /\ j' = 1
  /\ UNCHANGED <<dat, off, offsets, resolved, type_map, data_ord, kept, at, file_sz, freed>>

(* Mutant: the buffer is not padded before an item.                        *)
CopyMut(i) ==
  /\ at' = [at EXCEPT ![i] = file_sz]
  /\ file_sz' = file_sz + dat[i].size
  /\ freed' = [freed EXCEPT ![i] = @ + 1]

(* The buffer is padded, then concat_data_and_free.                        *)
Copy(i) ==
  LET start == AlignUp(file_sz, alignment_mp[dat[i].type])
  IN  /\ at' = [at EXCEPT ![i] = start]
      /\ file_sz' = start + dat[i].size
      /\ freed' = [freed EXCEPT ![i] = @ + 1]

CopyItem ==
  /\ pc = "copy" /\ iter <= Len(Sections)
  /\ LET section == type_map[Sections[iter]]
     IN  IF j <= Len(section)
           THEN Copy(section[j]) /\ j' = j + 1 /\ UNCHANGED iter
           ELSE iter' = iter + 1 /\ j' = 1 /\ UNCHANGED <<at, file_sz, freed>>
  /\ UNCHANGED <<dat, pc, off, offsets, resolved, type_map, data_ord, kept, map>>

(* The map list follows the last item.                                     *)
CopyEnd ==
  /\ pc = "copy" /\ iter > Len(Sections)
  /\ file_sz' = AlignUp(file_sz, 4)
  /\ pc' = "done"
  /\ UNCHANGED <<dat, iter, j, off, offsets, resolved, type_map, data_ord, kept, map, at, freed>>

Done == pc = "done" /\ UNCHANGED vars

Next ==
  \/ Collect \/ CollectEnd
  \/ PlanId \/ PlanIdsEnd
  \/ SkipSection \/ ResolveSection \/ SortSection \/ MergeOne \/ MergeEnd
  \/ PlaceItem \/ DropItem \/ SectionEnd
  \/ ResolveIds \/ MapSection \/ MapEnd \/ CopyItem \/ CopyEnd
  \/ Done

Spec == Init /\ [][Next]_vars
-----------------------------------------------------------------------------
InFile == {i \in Items : at[i] # -1}
Start(i) == HeaderSize + at[i]

TypeOK ==
  /\ dat \in DataLists
  /\ pc \in {"collect", "ids", "sections", "sort", "merge", "place", "map", "copy", "done"}
  /\ iter \in 1..Len(Sections) + 1
  /\ j \in 1..Len(dat) + 1
  /\ off \in Nat /\ off >= HeaderSize
  /\ offsets \in [Items -> Nat \cup {-1}]
  /\ resolved \in [Items -> Seq(Int)]
  /\ \A i \in Items : Len(resolved[i]) = Len(dat[i].refs)
  /\ type_map \in [Types -> Seq(Items)]
  /\ \A t \in Types : \A k \in 1..Len(type_map[t]) : dat[type_map[t][k]].type = t
  /\ data_ord \in Seq(Items) /\ kept \in Seq(Items)
  /\ map \in Seq([type : Types \cup {"header", "map_list"}, offset : Nat, size : Nat])
  /\ at \in [Items -> Nat \cup {-1}]
  /\ file_sz \in Nat
  /\ freed \in [Items -> Nat]

(* The file holds the same graph as ctx->dat.  Every item, duplicates and  *)
(* code included, is found where its offset says: an item with the same    *)
(* bytes whose references lead to the items that the original refers to.   *)
(* In particular each offset was final when it was copied into a reference. *)
ReferencesReach ==
  pc = "done" =>
    \A i \in Items : \E r \in InFile :
      /\ Start(r) = offsets[i]
      /\ dat[r].type = dat[i].type /\ dat[r].payload = dat[i].payload
      /\ resolved[r] = [k \in 1..Len(dat[i].refs) |-> offsets[dat[i].refs[k].index]]

(* The two computations of offsets agree: an item is copied to the offset  *)
(* planned for it, and the map list follows where the header says.         *)
OffsetsAgree ==
  /\ \A i \in InFile : Start(i) = offsets[i]
  /\ pc = "done" => HeaderSize + file_sz = off

(* Merging is complete although only neighbours with equal checksums are   *)
(* compared: no two items of a type other than code have the same bytes.   *)
NoDuplicates ==
  pc = "done" =>
    \A i, k \in InFile :
      i # k /\ dat[i].type = dat[k].type /\ dat[i].type \in ToSet(resolve_order) \ {"code"}
        => ~SameBytes(i, k)

(* The bytes of an item are freed exactly once, with its duplicate or with *)
(* the buffer it is copied to, and never used afterwards.                  *)
FreedOnce ==
  /\ \A i \in Items : freed[i] <= 1
  /\ pc = "done" => \A i \in Items : freed[i] = 1

(* The map list is in the order of the offsets, and an entry covers the    *)
(* items of its type: as many as it says, from its offset to the next one. *)
Covered(e) ==
  {i \in InFile : map[e].offset <= Start(i) /\ Start(i) < map[e + 1].offset}

MapExact ==
  pc = "done" =>
    /\ \A e \in 1..Len(map) - 1 : map[e].offset < map[e + 1].offset
    /\ \A e \in 2..Len(map) - 1 :
         /\ Cardinality(Covered(e)) = map[e].size
         /\ \A i \in Covered(e) : dat[i].type = map[e].type
         /\ \E i \in Covered(e) : Start(i) = map[e].offset
    /\ map[Len(map)].offset = HeaderSize + file_sz
=============================================================================
