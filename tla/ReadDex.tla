------------------------------- MODULE ReadDex -------------------------------
(***************************************************************************)
(* dxc_read_buffer and dxc_free_file (src/src/file.c): the sections of a   *)
(* dex or odex file, read one after the other into a context of shared,    *)
(* counted strings and prototypes; the classes, each in the steps of       *)
(* dxc_read_class_section, which take the annotations of their members     *)
(* over from the context; the hand-over to the DexFile, or the cleanup     *)
(* when a step fails.  held counts the references and blocks acquired and  *)
(* not yet released.                                                       *)
(***************************************************************************)
EXTENDS DexItems

CONSTANT DexFiles   (* what the files say, see DexItems and MCReadDex       *)

VARIABLES
  file,      (* the file read                                              *)
  pc,        (* the step of the reader, a list of members while they are   *)
             (* read, or how the file ended                                *)
  ctx,       (* read_context                                               *)
  protos,    (* the contents of the prototypes                             *)
  metadata,  (* OdexData                                                   *)
  class,     (* the class being read                                       *)
  members,   (* the members of its present list that have been read        *)
  idx,       (* the index of the last of them into the section             *)
  dex,       (* the DexFile                                                *)
  held       (* the bag of what has been acquired and not released         *)

vars == <<file, pc, ctx, protos, metadata, class, members, idx, dex, held>>

Lists == <<"static_fields", "instance_fields", "direct_methods", "virtual_methods">>
Steps ==
  {"odex", "header", "strings", "types", "protos", "fields", "methods", "classes", "class",
   "directory", "interfaces", "class_data", "static_values", "move", "release", "failed"}
Endings == {"null", "done", "freed", "crashed"}

Init ==
  /\ file \in DexFiles
  /\ pc = "odex"
  /\ ctx = NoContext
  /\ protos = << >>
  /\ metadata = NULL
  /\ class = 0 /\ members = 0 /\ idx = 0
  /\ dex = NULL
  /\ held = BagOf(<<EmptyStr>>)
-----------------------------------------------------------------------------
(* What a reader r acquired is held; it goes on to next or fails.          *)
Acquire(r, next) ==
  /\ held' = held (+) BagOf(r.took)
  /\ pc' = IF r.ok THEN next ELSE "failed"

(* A prototype is freed with the last reference to it, and releases the    *)
(* strings of its list up to the first that is NULL.                       *)
LastRefs(released) ==
  {p \in DOMAIN protos :
     /\ Proto(p) \in ToSet(released)
     /\ Occurrences(released, Proto(p)) = Copies(Proto(p), held)}
Contents(ps) ==
  FlattenSeq([i \in DOMAIN protos |->
                IF i \in ps THEN Before(protos[i], LAMBDA r : r = NULL) ELSE << >>])

(* Released more often than held, or through NULL: the program is lost.    *)
Release(released, next) ==
  LET all == BagOf(released \o Contents(LastRefs(released)))
  IN  IF all \sqsubseteq held
      THEN held' = held (-) all /\ pc' = next
      ELSE held' = held /\ pc' = "crashed"
-----------------------------------------------------------------------------
(* The header.  metadata exists for an odex file only.                     *)

DepReads(deps) ==
  ReadArray([i \in DOMAIN deps |->
               IF deps[i] = NULL THEN Failed(NULL) ELSE Done(Block("dep"), <<Block("dep")>>)],
            NULL, "strstr")
ShaReads(deps) ==
  ReadArray([i \in DOMAIN deps |->
               IF deps[i] = NULL THEN Failed(NULL) ELSE Done(Block("sha"), <<Block("sha")>>)],
            NULL, "dep_shas")

ReadDepsTable(deps) ==
  IF deps = NULL THEN Failed(<<NULL, NULL>>) ELSE
  LET strings == DepReads(deps)
      shas == ShaReads(deps)
  IN  Result(<<strings.value, shas.value>>, strings.ok, strings.took \o shas.took)

(* The checks of the odex header, the dependencies and the aux data.       *)
ReadOdexHeader ==
  /\ pc = "odex" /\ file.odex # << >>
  /\ LET o == file.odex[1]
         deps == IF o.deps = << >> THEN Done(<<NULL, NULL>>, << >>) ELSE ReadDepsTable(o.deps[1])
         checks == <<Result(NULL, o.header, << >>), deps, Result(NULL, o.aux, << >>)>>
         r == InOrder(checks, <<NULL, NULL>>)
     IN  /\ metadata' = [ZeroOdex EXCEPT !.deps = r.value[2][1], !.dep_shas = r.value[2][2]]
         /\ Acquire([r EXCEPT !.took = <<Block("odex")>> \o @], "header")
  /\ UNCHANGED <<file, ctx, protos, class, members, idx, dex>>

NoOdexHeader ==
  /\ pc = "odex" /\ file.odex = << >>
  /\ pc' = "header"
  /\ UNCHANGED <<file, ctx, protos, metadata, class, members, idx, dex, held>>

(* Version and checksum; the id of an odex file; sizes, tag and tables.    *)
ReadHeader ==
  /\ pc = "header"
  /\ LET id == IF metadata = NULL THEN Done(NULL, << >>) ELSE Done(Block("id"), <<Block("id")>>)
         r == InOrder(<<Result(NULL, file.version, << >>), id, Result(NULL, file.sizes, << >>)>>,
                      NULL)
     IN  /\ metadata' = IF metadata = NULL THEN NULL ELSE [metadata EXCEPT !.id = r.value[2]]
         /\ Acquire(r, "strings")
  /\ UNCHANGED <<file, ctx, protos, class, members, idx, dex>>
-----------------------------------------------------------------------------
(* The sections.                                                           *)

Section(name, r, next) ==
  /\ pc = name
  /\ Acquire(r, next)
  /\ UNCHANGED <<file, metadata, class, members, idx, dex>>

ReadStrings ==
  LET r == ReadArray([i \in DOMAIN file.strings |->
                        IF file.strings[i] = NULL THEN Failed(NULL) ELSE Done(Str(i), <<Str(i)>>)],
                     NULL, "strs")
  IN  /\ Section("strings", r, "types")
      /\ ctx' = [ctx EXCEPT !.strs = r.value]
      /\ UNCHANGED protos

ReadTypes ==
  LET r == ReadArray([i \in DOMAIN file.types |-> ReadRef(ctx.strs, file.types[i])], NULL, "types")
  IN  /\ Section("types", r, "protos")
      /\ ctx' = [ctx EXCEPT !.types = r.value]
      /\ UNCHANGED protos

(* A parameter that is not in the data section ends the read; one whose    *)
(* index is too large leaves a hole, which is no error.                    *)
ReadProto(i) ==
  LET p == file.protos[i]
      parameter(k) ==
        IF p.parameters[k] = NULL THEN Failed(NULL)
        ELSE [ReadRef(ctx.types, p.parameters[k]) EXCEPT !.ok = TRUE]
      r == InOrder(<<ReadRef(ctx.types, p.return_type)>>
                     \o [k \in DOMAIN p.parameters |-> parameter(k)], NULL)
  IN  IF p.parameters = NULL \/ p.return_type \notin DOMAIN ctx.types
      THEN Failed([ref |-> NULL, list |-> << >>])
      ELSE Result([ref |-> Proto(i), list |-> r.value], r.ok, <<Proto(i)>> \o r.took)

ReadProtos ==
  LET r == ReadArray([i \in DOMAIN file.protos |-> ReadProto(i)],
                     [ref |-> NULL, list |-> << >>], "protos")
  IN  /\ Section("protos", r, "fields")
      /\ ctx' = [ctx EXCEPT !.protos = [i \in DOMAIN r.value |-> r.value[i].ref]]
      /\ protos' = [i \in DOMAIN r.value |-> r.value[i].list]

ZeroRawField == [defining_class |-> NULL, type |-> NULL, name |-> NULL, annotations |-> NULL]
RawField(f) ==
  LET r == InOrder(<<ReadRef(ctx.types, f.class), ReadRef(ctx.types, f.type),
                     ReadRef(ctx.strs, f.name)>>, NULL)
      fld == [ZeroRawField EXCEPT !.defining_class = r.value[1], !.type = r.value[2],
                                  !.name = r.value[3]]
  IN  IF r.ok THEN [r EXCEPT !.value = fld] ELSE Failed(ZeroRawField)

ReadFields ==
  LET r == ReadArray([i \in DOMAIN file.fields |-> RawField(file.fields[i])], ZeroRawField,
                     "raw_fields")
  IN  /\ Section("fields", r, "methods")
      /\ ctx' = [ctx EXCEPT !.fields = r.value]
      /\ UNCHANGED protos

ZeroRawMethod ==
  [defining_class |-> NULL, name |-> NULL, prototype |-> NULL, annotations |-> NULL,
   parameter_annotations |-> NULL]
RawMethod(m) ==
  LET r == InOrder(<<ReadRef(ctx.types, m.class), ReadRef(ctx.protos, m.prototype),
                     ReadRef(ctx.strs, m.name)>>, NULL)
      mtd == [ZeroRawMethod EXCEPT !.defining_class = r.value[1], !.prototype = r.value[2],
                                   !.name = r.value[3]]
  IN  IF r.ok THEN [r EXCEPT !.value = mtd] ELSE Failed(ZeroRawMethod)

ReadMethods ==
  LET r == ReadArray([i \in DOMAIN file.methods |-> RawMethod(file.methods[i])], ZeroRawMethod,
                     "raw_methods")
  IN  /\ Section("methods", r, "classes")
      /\ ctx' = [ctx EXCEPT !.methods = r.value]
      /\ UNCHANGED protos
-----------------------------------------------------------------------------
(* The classes.  cl is what the file says of the class being read.         *)

cl == file.classes[class]
NextClass(c) == IF c < Len(file.classes) THEN "class" ELSE "move"

(* The class being read becomes new.                                       *)
SetClass(new) == ctx' = [ctx EXCEPT !.classes[class] = new]
This == ctx.classes[class]

AllocClasses ==
  /\ pc = "classes"
  /\ ctx' = [ctx EXCEPT !.classes = [i \in DOMAIN file.classes |-> ZeroClass]]
  /\ class' = 1
  /\ Acquire(Done(NULL, <<Block("classes")>>), NextClass(0))
  /\ UNCHANGED <<file, protos, metadata, members, idx, dex>>

(* All three indexes are checked before the first copy.                    *)
ReadClass ==
  /\ pc = "class"
  /\ LET r == InOrder(<<ReadRef(ctx.types, cl.name), ReadRefP1(ctx.types, cl.super_class),
                        ReadRefP1(ctx.strs, cl.source_file)>>, NULL)
     IN  IF r.ok
         THEN /\ SetClass([This EXCEPT !.name = r.value[1], !.super_class = r.value[2],
                                       !.source_file = r.value[3]])
              /\ Acquire(r, "directory")
         ELSE ctx' = ctx /\ Acquire(Failed(NULL), "directory")
  /\ UNCHANGED <<file, protos, metadata, class, members, idx, dex>>

NoDirectory ==
  /\ pc = "directory" /\ cl.annotations = << >>
  /\ SetClass([This EXCEPT !.annotations = << >>])
  /\ Acquire(Done(NULL, <<Block("annotations")>>), "interfaces")
  /\ UNCHANGED <<file, protos, metadata, class, members, idx, dex>>

(* The entries of the directory in their order, each read to a slot: the   *)
(* list of an entry, or what of it was read.                               *)
Entry(slot, known, list) ==
  IF known THEN [list EXCEPT !.value = <<slot, @>>] ELSE Failed(<<slot, NULL>>)
Entries(dir) ==
  <<Entry(<<"class", 0>>, TRUE,
          IF dir.class = << >> THEN Done(<< >>, <<Block("annotations")>>)
          ELSE ReadAnnotationList(ctx, dir.class[1]))>>
    \o [i \in DOMAIN dir.fields |->
          Entry(<<"field", dir.fields[i].idx>>, dir.fields[i].idx \in DOMAIN ctx.fields,
                ReadAnnotationList(ctx, dir.fields[i].list))]
    \o [i \in DOMAIN dir.methods |->
          Entry(<<"method", dir.methods[i].idx>>, dir.methods[i].idx \in DOMAIN ctx.methods,
                ReadAnnotationList(ctx, dir.methods[i].list))]
    \o [i \in DOMAIN dir.parameters |->
          Entry(<<"parameter", dir.parameters[i].idx>>,
                dir.parameters[i].idx \in DOMAIN ctx.methods,
                ReadParameterAnnotations(ctx, dir.parameters[i].list))]

ReadEntries(dir) ==
  IF dir = NULL THEN Failed(<< >>) ELSE InOrder(Entries(dir), <<<<"none", 0>>, NULL>>)

(* What stores leaves in a slot that held old: the last list stored there. *)
Stored(stores, slot, old) ==
  LET here == {i \in DOMAIN stores : stores[i][1] = slot /\ stores[i][2] # NULL}
  IN  IF here = {} THEN old ELSE stores[CHOOSE i \in here : \A k \in here : k <= i][2]
FieldsAt(fs, stores) ==
  [i \in DOMAIN fs |-> [fs[i] EXCEPT !.annotations = Stored(stores, <<"field", i>>, @)]]
MethodsAt(ms, stores) ==
  [i \in DOMAIN ms |-> [ms[i] EXCEPT !.annotations = Stored(stores, <<"method", i>>, @),
                                     !.parameter_annotations = Stored(stores, <<"parameter", i>>, @)]]

ReadDirectory ==
  /\ pc = "directory" /\ cl.annotations # << >>
  /\ \E r \in {ReadEntries(cl.annotations[1])} :
         /\ ctx' = [ctx EXCEPT
              !.classes[class].annotations = Stored(r.value, <<"class", 0>>, @),
              !.fields = FieldsAt(@, r.value), !.methods = MethodsAt(@, r.value)]
         /\ Acquire(r, "interfaces")
  /\ UNCHANGED <<file, protos, metadata, class, members, idx, dex>>

ReadInterfaces ==
  /\ pc = "interfaces"
  /\ LET r == IF cl.interfaces = NULL THEN Failed(NULL)
              ELSE ReadStrstr([i \in DOMAIN cl.interfaces |-> ReadRef(ctx.types, cl.interfaces[i])])
     IN  /\ SetClass([This EXCEPT !.interfaces = r.value])
         /\ Acquire(r, "class_data")
  /\ UNCHANGED <<file, protos, metadata, class, members, idx, dex>>
-----------------------------------------------------------------------------
(* The class data: four lists of members, each coded as the distances of   *)
(* their indexes.                                                          *)

NoClassData ==
  /\ pc = "class_data" /\ cl.class_data = << >>
  /\ SetClass([This EXCEPT !.static_fields = << >>, !.instance_fields = << >>,
                           !.direct_methods = << >>, !.virtual_methods = << >>])
  /\ Acquire(Done(NULL, <<Block("fields"), Block("fields"), Block("methods"), Block("methods")>>),
             "static_values")
  /\ UNCHANGED <<file, protos, metadata, class, members, idx, dex>>

IsFields(list) == list \in {"static_fields", "instance_fields"}
ListPos == CHOOSE i \in DOMAIN Lists : Lists[i] = pc

(* The array of the list named next, with zeros for its members; indexes   *)
(* are counted from the start again.                                       *)
OpenListKeepsMut(next) ==   \* the position in the list is not reset
  LET zero == IF IsFields(next) THEN ZeroField ELSE ZeroMethod
      kind == IF IsFields(next) THEN "fields" ELSE "methods"
  IN  /\ SetClass([This EXCEPT ![next] = [i \in DOMAIN cl.class_data[1][next] |-> zero]])
      /\ members' = members /\ idx' = 0
      /\ Acquire(Done(NULL, <<Block(kind)>>), next)
      /\ UNCHANGED <<file, protos, metadata, class, dex>>
OpenListMut(next) ==   \* the missing reset of idx
  LET zero == IF IsFields(next) THEN ZeroField ELSE ZeroMethod
      kind == IF IsFields(next) THEN "fields" ELSE "methods"
  IN  /\ SetClass([This EXCEPT ![next] = [i \in DOMAIN cl.class_data[1][next] |-> zero]])
      /\ members' = 0 /\ idx' = idx
      /\ Acquire(Done(NULL, <<Block(kind)>>), next)
      /\ UNCHANGED <<file, protos, metadata, class, dex>>
OpenList(next) ==
  LET zero == IF IsFields(next) THEN ZeroField ELSE ZeroMethod
      kind == IF IsFields(next) THEN "fields" ELSE "methods"
  IN  /\ SetClass([This EXCEPT ![next] = [i \in DOMAIN cl.class_data[1][next] |-> zero]])
      /\ members' = 0 /\ idx' = 0
      /\ Acquire(Done(NULL, <<Block(kind)>>), next)
      /\ UNCHANGED <<file, protos, metadata, class, dex>>

OpenClassData ==
  /\ pc = "class_data" /\ cl.class_data # << >>
  /\ IF cl.class_data[1] = NULL
     THEN /\ pc' = "failed"
          /\ UNCHANGED <<file, ctx, protos, metadata, class, members, idx, dex, held>>
     ELSE OpenList(Lists[1])

NextList ==
  /\ pc \in ToSet(Lists) /\ members = Len(This[pc])
  /\ IF ListPos < Len(Lists) THEN OpenList(Lists[ListPos + 1])
     ELSE /\ pc' = "static_values"
          /\ UNCHANGED <<file, ctx, protos, metadata, class, members, idx, dex, held>>

(* The annotations of a member: those the directory left for it, or none.  *)
Taken(slot, kind) ==
  IF slot = NULL THEN Done(<< >>, <<Block(kind)>>) ELSE Done(slot, << >>)

ReadField(item) ==
  LET at == idx + item.diff
      raw == ctx.fields[at]
      anns == Taken(raw.annotations, "annotations")
      fld == [type |-> raw.type, name |-> raw.name, annotations |-> anns.value]
  IN  /\ idx' = at
      /\ IF at \in DOMAIN ctx.fields /\ raw.defining_class = This.name
         THEN /\ ctx' = [ctx EXCEPT !.classes[class][pc][members + 1] = fld,
                                    !.fields[at].annotations = NULL]
              /\ Acquire(Done(fld, <<raw.type, raw.name>> \o anns.took), pc)
         ELSE ctx' = ctx /\ Acquire(Failed(NULL), pc)

CodeBody(code) ==
  IF code = << >> THEN Done(NULL, << >>) ELSE After(<<Block("code")>>, ReadCode(ctx, code[1]))

ReadMethod(item) ==
  LET at == idx + item.diff
      raw == ctx.methods[at]
      anns == Taken(raw.annotations, "annotations")
      panns == Taken(raw.parameter_annotations, "parameter_annotations")
      mtd(code) == [name |-> raw.name, prototype |-> raw.prototype, annotations |-> anns.value,
                    parameter_annotations |-> panns.value, code_body |-> code]
  IN  /\ idx' = at
      /\ IF at \in DOMAIN ctx.methods /\ raw.defining_class = This.name
         THEN \E code \in {CodeBody(item.code)} :
                /\ ctx' = [ctx EXCEPT !.classes[class][pc][members + 1] = mtd(code.value),
                                      !.methods[at].annotations = NULL,
                                      !.methods[at].parameter_annotations = NULL]
                /\ Acquire(After(<<raw.name, raw.prototype>> \o anns.took \o panns.took, code), pc)
         ELSE ctx' = ctx /\ Acquire(Failed(NULL), pc)

ReadMember ==
  /\ pc \in ToSet(Lists) /\ members < Len(This[pc])
  /\ LET item == cl.class_data[1][pc][members + 1]
     IN  IF IsFields(pc) THEN ReadField(item) ELSE ReadMethod(item)
  /\ members' = members + 1
  /\ UNCHANGED <<file, protos, metadata, class, dex>>

StaticValues(values) ==
  IF values = << >> THEN Done(<< >>, <<Block("values")>>)
  ELSE IF values[1] = NULL THEN Failed(NULL) ELSE ReadValueArray(ctx, values[1])

ReadStaticValues ==
  /\ pc = "static_values"
  /\ \E r \in {StaticValues(cl.static_values)} :
         /\ SetClass([This EXCEPT !.static_values = r.value])
         /\ Acquire(r, NextClass(class))
  /\ class' = class + 1
  /\ UNCHANGED <<file, protos, metadata, members, idx, dex>>
-----------------------------------------------------------------------------
(* The end.                                                                *)

TableNames == <<"method_table", "field_table", "type_table">>
(* What the three tables of the DexFile hold.                              *)
TableRefs(d) ==
  FlattenSeq(d.method_table) \o FlattenSeq(d.field_table) \o d.type_table
    \o [i \in DOMAIN TableNames |-> Block(TableNames[i])]

(* The classes go to the DexFile, the tables are copied.                   *)
MoveToFileMut ==   \* the context keeps the classes
  /\ pc = "move"
  /\ dex' = [classes |-> ctx.classes, metadata |-> metadata,
             method_table |-> [i \in DOMAIN ctx.methods |-> RawMethodRefs(ctx.methods[i])],
             field_table |-> [i \in DOMAIN ctx.fields |-> RawFieldRefs(ctx.fields[i])],
             type_table |-> ctx.types]
  /\ Acquire(Done(dex', <<Block("file")>> \o TableRefs(dex')), "release")
  /\ UNCHANGED <<file, ctx, protos, metadata, class, members, idx>>
MoveToFile ==
  /\ pc = "move"
  /\ dex' = [classes |-> ctx.classes, metadata |-> metadata,
             method_table |-> [i \in DOMAIN ctx.methods |-> RawMethodRefs(ctx.methods[i])],
             field_table |-> [i \in DOMAIN ctx.fields |-> RawFieldRefs(ctx.fields[i])],
             type_table |-> ctx.types]
  /\ ctx' = [ctx EXCEPT !.classes = NULL]
  /\ Acquire(Done(dex', <<Block("file")>> \o TableRefs(dex')), "release")
  /\ UNCHANGED <<file, protos, metadata, class, members, idx>>

ReleaseContext ==
  /\ pc = "release"
  /\ Release(FreeContext(ctx), "done")
  /\ ctx' = NoContext
  /\ UNCHANGED <<file, protos, metadata, class, members, idx, dex>>

(* A read that fails returns NULL.  The context is still empty when a      *)
(* header fails.                                                           *)
ReleaseFailed ==
  /\ pc = "failed"
  /\ Release(FreeContext(ctx) \o FreeOdexData(metadata), "null")
  /\ ctx' = NoContext /\ metadata' = NULL
  /\ UNCHANGED <<file, protos, class, members, idx, dex>>

(* The caller frees the file.                                              *)
FreeFile ==
  /\ pc = "done"
  /\ Release(FreeDexFile(dex), "freed")
  /\ UNCHANGED <<file, ctx, protos, metadata, class, members, idx, dex>>

(* Nothing happens after a file was refused, freed or lost.                *)
Ended == pc \in {"null", "freed", "crashed"} /\ UNCHANGED vars

ReadHeaders == ReadOdexHeader \/ NoOdexHeader \/ ReadHeader
ReadSections ==
  ReadStrings \/ ReadTypes \/ ReadProtos \/ ReadFields \/ ReadMethods \/ AllocClasses
ReadClasses ==
  \/ ReadClass \/ NoDirectory \/ ReadDirectory \/ ReadInterfaces
  \/ NoClassData \/ OpenClassData \/ NextList \/ ReadMember \/ ReadStaticValues

Next ==
  \/ ReadHeaders \/ ReadSections \/ ReadClasses
  \/ MoveToFile \/ ReleaseContext \/ ReleaseFailed \/ FreeFile
  \/ Ended

Spec == Init /\ [][Next]_vars
-----------------------------------------------------------------------------
(* Types of the variables of the reader.                                   *)
TypeOK ==
  /\ pc \in Steps \cup ToSet(Lists) \cup Endings
  /\ DOMAIN ctx = DOMAIN NoContext
  /\ Len(protos) <= Len(file.protos)
  /\ metadata # NULL => DOMAIN metadata = DOMAIN ZeroOdex
  /\ class \in 0..(Len(file.classes) + 1) /\ members \in Nat /\ idx \in Nat
  /\ pc \in ToSet(Lists) => members <= Len(This[pc])
  /\ IsABag(held)

(* The release functions never read through a pointer that is not set, and *)
(* never release a string, a prototype or a block that is no longer held:  *)
(* wherever a read stops, and again when the caller frees the file, after  *)
(* free_context has released what the file shares with the context.        *)
NoCrash == pc # "crashed"

(* Wherever a read fails, free_context and dxc_free_odex_data release all  *)
(* that the sections, the classes and their members had acquired.          *)
FailureReleasesAll == pc = "null" => held = BagOf(<<EmptyStr>>)

(* dxc_free_file leaves nothing but the three tables, with the prototypes  *)
(* that they keep: what the classes and the metadata hold is released.     *)
OnlyTablesRemain ==
  pc = "freed" =>
    LET refs == TableRefs(dex)
    IN  held = BagOf(<<EmptyStr>> \o refs
                       \o Contents({p \in DOMAIN protos : Proto(p) \in ToSet(refs)}))

(* The members of the classes as they are listed: class, list and place.   *)
Listed ==
  UNION {{<<c, l, k>> : k \in DOMAIN file.classes[c].class_data[1][Lists[l]]} :
           c \in {d \in DOMAIN file.classes : file.classes[d].class_data # << >>},
           l \in DOMAIN Lists}
Earlier(n, m) ==
  \/ n[1] < m[1]
  \/ n[1] = m[1] /\ n[2] < m[2]
  \/ n[1] = m[1] /\ n[2] = m[2] /\ n[3] < m[3]

(* The section that a list indexes, and the entry that the distances add   *)
(* up to, from the start of the list.                                      *)
SectionOf(m) == IF IsFields(Lists[m[2]]) THEN "fields" ELSE "methods"
EntryOf(m) ==
  FoldLeft(LAMBDA sum, item : sum + item.diff, 0,
           SubSeq(file.classes[m[1]].class_data[1][Lists[m[2]]], 1, m[3]))

(* The lists that the directory of class c has for an entry, in one part.  *)
ListsFor(c, part, entry) ==
  FlattenSeq([i \in DOMAIN file.classes[c].annotations |->
                SelectSeq(file.classes[c].annotations[i][part], LAMBDA e : e.idx = entry)])

(* What is left for the member m in a part of the directories: the last    *)
(* list for its entry in the directories of its class and of those before, *)
(* unless another member with this entry took it.                          *)
LeftFor(m, part, Read(_)) ==
  LET naming == {c \in 1..m[1] : ListsFor(c, part, EntryOf(m)) # << >>}
      last == CHOOSE c \in naming : \A d \in naming : d <= c
      taken == \E n \in Listed : /\ last <= n[1] /\ Earlier(n, m)
                                 /\ SectionOf(n) = SectionOf(m) /\ EntryOf(n) = EntryOf(m)
  IN  IF naming = {} \/ taken THEN << >>
      ELSE Read(Last(ListsFor(last, part, EntryOf(m))).list).value

(* Each member gets the name of the entry that its distances add up to in  *)
(* its own list, and the annotations that were left for this entry, which  *)
(* come by way of the sections that all classes share: those of the        *)
(* directory of its own class, or of an earlier class whose directory      *)
(* names the entry, as dxc_read_annotation_directory does not look whose   *)
(* member it is; never those of a later class, and none twice.             *)
MembersDelivered ==
  pc = "move" =>
    \A m \in Listed :
      LET member == ctx.classes[m[1]][Lists[m[2]]][m[3]]
      IN  /\ member.name = Str(file[SectionOf(m)][EntryOf(m)].name)
          /\ member.annotations = LeftFor(m, SectionOf(m), LAMBDA l : ReadAnnotationList(ctx, l))
          /\ SectionOf(m) = "methods" =>
               member.parameter_annotations =
                 LeftFor(m, "parameters", LAMBDA l : ReadParameterAnnotations(ctx, l))

(* A file that has been freed holds nothing: "Free the entire DexFile      *)
(* structure including the given pointer itself" (dxcut/file.h).           *)
FileReleased == pc = "freed" => held = BagOf(<<EmptyStr>>)
=============================================================================
