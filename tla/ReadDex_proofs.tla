--------------------------- MODULE ReadDex_proofs ---------------------------
(***************************************************************************)
(* Reading a dex or odex file, part two: the steps that read a class move  *)
(* tokens between the tables of the sections, the class and its members    *)
(* without losing any; the directory stores annotations in the tables, the *)
(* members take them from there.  Then the header, the move of the context *)
(* to the file, what free_context and dxc_free_file release, and the       *)
(* theorems: the reader never releases what is not held, a failed read     *)
(* releases all, and freeing a file leaves only its three tables.          *)
(***************************************************************************)
EXTENDS DexOwing_proofs

(* A part that r has read.                                                 *)
LEMMA PartRead ==
  ASSUME NullApart, NEW exact, IInv(exact), pc \in ClassSteps \ {"class"},
         NEW part \in PartNames, part \in Unread(pc),
         NEW v, NEW r, Pays(r, FreePart(part, v), exact), NEW new, PartSet(This, new, part, v),
         ClassSet(ctx, ctx', class, new), NEW next, Acquire(r, next), ReadFrame, class' = class,
         members' \in Nat, idx' \in Nat, next \in ClassSteps \ {"class", "directory"},
         Unread(next) \subseteq Unread(pc) \ {part}, Unread(next) \subseteq PartNames,
         pc' \in MemberLists => AtMember'
  PROVE  IInv(exact)'
  <1> DEFINE took == r.took
  <1>1. Paid(took, FreePart(part, v), exact) /\ r.ok \in BOOLEAN
    BY DEF Pays, IsResult
  <1>2. HoldsMore(took) /\ pc' = IF r.ok THEN next ELSE "failed"
    BY DEF Acquire, HoldsMore
  <1> HIDE DEF took
  <1>3. pc' = "failed" \/ pc' \in ClassSteps \ {"class", "directory"}
    BY <1>2
  <1>4. "failed" \notin ClassSteps
    BY DEF ClassSteps
  <1>5. pc' \in ClassSteps => Unread(pc') \subseteq Unread(pc) \ {part} /\ Unread(pc') \subseteq PartNames
    BY <1>2, <1>4
  <1> QED
    BY <1>1, <1>2, <1>3, <1>5, ReadPart

(* The counters of the reader are numbers.                                 *)
LEMMA Counters ==
  ASSUME NEW exact, IInv(exact)
  PROVE  members \in Nat /\ idx \in Nat /\ class \in 0..Len(file.classes) + 1
  BY DEF IInv, Common

(* A class without annotations gets an empty list of them.                 *)
LEMMA NoDirectoryStep ==
  ASSUME NullApart, NEW exact, IInv(exact), NoDirectory
  PROVE  IInv(exact)'
  <1> DEFINE new == [This EXCEPT !.annotations = << >>]
             r == Done(NULL, <<Block("annotations")>>)
  <1>1. ClassSet(ctx, ctx', class, new) /\ PartSet(This, new, "annotations", << >>)
    BY DEF NoDirectory, SetClass, ClassSet, PartSet
  <1>2. Pays(r, FreePart("annotations", << >>), exact)
    BY EmptyParts, DonePays DEF FreePart
  <1>3. Acquire(r, "interfaces") /\ ReadFrame /\ class' = class /\ members' \in Nat /\ idx' \in Nat
    BY Counters DEF NoDirectory, ReadFrame
  <1>4. pc = "directory" /\ pc \in ClassSteps \ {"class"}
    BY DEF NoDirectory, ClassSteps
  <1>5. /\ "annotations" \in PartNames /\ "annotations" \in Unread(pc)
        /\ "interfaces" \in ClassSteps \ {"class", "directory"}
        /\ Unread("interfaces") \subseteq Unread(pc) \ {"annotations"}
        /\ Unread("interfaces") \subseteq PartNames
    BY <1>4 DEF PartNames, Unread, MemberLists, ClassSteps
  <1>6. pc' \notin MemberLists
    BY <1>3 DEF Acquire, MemberLists
  <1> HIDE DEF new, r
  <1> QED
    BY <1>1, <1>2, <1>3, <1>4, <1>5, <1>6, PartRead

(* The list of interfaces.                                                 *)
LEMMA ReadInterfacesStep ==
  ASSUME NullApart, NEW exact, IInv(exact), Valued(file), FileSurvives(file), exact => Clean(file),
         ReadInterfaces
  PROVE  IInv(exact)'
  <1> DEFINE r == IF cl.interfaces = NULL THEN Failed(NULL)
                  ELSE ReadStrstr([i \in DOMAIN cl.interfaces |-> ReadRef(ctx.types, cl.interfaces[i])])
             new == [This EXCEPT !.interfaces = r.value]
  <1>1. pc = "interfaces" /\ pc \in ClassSteps \ {"class"}
    BY DEF ReadInterfaces, ClassSteps
  <1>2. AtClass(exact)
    BY <1>1, ClassFacts
  <1>3. Loaded(ctx, file) /\ class \in 1..Len(file.classes)
    BY <1>2 DEF AtClass
  <1>4. Ctx(ctx) /\ \E V : FileHolds(V, exact)
    BY <1>3, FileValues
  <1>5. cl.interfaces # NULL => IsList(cl.interfaces)
    BY <1>3, <1>4 DEF FileHolds, FileShape, ClassShape, cl
  <1>6. Pays(r, FreeStrstr(r.value), exact)
    <2>1. CASE cl.interfaces = NULL
      <3>1. FreeStrstr(NULL) = << >>
        BY DEF FreeStrstr, FreeArray
      <3>2. r = Failed(NULL) /\ r.value = NULL
        BY <2>1, FailedPays
      <3> QED
        BY <3>1, <3>2, FailedPays
    <2>2. CASE cl.interfaces # NULL
      <3> DEFINE list == cl.interfaces
                 types == ctx.types
                 reads == [i \in DOMAIN list |-> ReadRef(types, list[i])]
      <3>1. IsList(list) /\ DOMAIN list = 1..Len(list)
        BY <1>5, <2>2, ListFacts
      <3>2. IsList(types) /\ \A i \in 1..Len(types) : types[i] \in Tokens
        BY <1>4, RefTokens DEF Ctx
      <3>3. r = ReadStrstr(reads)
        BY <2>2
      <3> HIDE DEF list, types
      <3>4. IsList(reads) /\ Len(reads) = Len(list)
        BY <3>1, ListOf, ListFacts
      <3>5. ASSUME NEW i \in 1..Len(reads)
            PROVE  Pays(reads[i], FreeRef(reads[i].value), exact) /\ (reads[i].value = NULL => ~reads[i].ok)
        <4>1. reads[i] = ReadRef(types, list[i])
          BY <3>1, <3>4
        <4>2. /\ IsResult(ReadRef(types, list[i]))
              /\ Paid(ReadRef(types, list[i]).took, FreeRef(ReadRef(types, list[i]).value), exact)
              /\ ReadRef(types, list[i]).ok => list[i] \in 1..Len(types) /\ ReadRef(types, list[i]).value = types[list[i]]
          BY <3>2, ReadRefPaid
        <4>3. ReadRef(types, list[i]).ok => ReadRef(types, list[i]).value \in Tokens
          BY <3>2, <4>2
        <4> HIDE DEF reads
        <4> QED
          BY <4>1, <4>2, <4>3, NotNull DEF Pays
      <3> HIDE DEF reads, r
      <3> QED
        BY <3>3, <3>4, <3>5, StrstrPays
    <2> QED
      BY <2>1, <2>2
  <1>7. ClassSet(ctx, ctx', class, new) /\ PartSet(This, new, "interfaces", r.value)
    BY DEF ReadInterfaces, SetClass, ClassSet, PartSet
  <1>8. Acquire(r, "class_data") /\ ReadFrame /\ class' = class /\ members' \in Nat /\ idx' \in Nat
    BY Counters DEF ReadInterfaces, ReadFrame
  <1>9. /\ "interfaces" \in PartNames /\ "interfaces" \in Unread(pc)
        /\ "class_data" \in ClassSteps \ {"class", "directory"}
        /\ Unread("class_data") \subseteq Unread(pc) \ {"interfaces"}
        /\ Unread("class_data") \subseteq PartNames
    BY <1>1 DEF PartNames, Unread, MemberLists, ClassSteps
  <1>10. pc' \notin MemberLists
    BY <1>8 DEF Acquire, MemberLists
  <1> DEFINE v == r.value
  <1>11. Pays(r, FreePart("interfaces", v), exact)
    BY <1>6 DEF FreePart
  <1> HIDE DEF new, r
  <1> QED
    BY <1>1, <1>7, <1>8, <1>9, <1>10, <1>11, PartRead

(* The class being read is the new one.                                    *)
LEMMA ThisSet ==
  ASSUME Context(ctx), class \in 1..Len(ctx.classes), IsList(ctx.classes), NEW new,
         ClassSet(ctx, ctx', class, new), class' = class
  PROVE  This' = new
  <1> DEFINE d == ctx'
  <1>1. ClassSet(ctx, d, class, new)
    OBVIOUS
  <1> HIDE DEF d
  <1>2. d.classes = [ctx.classes EXCEPT ![class] = new]
    BY <1>1, ClassSetFacts
  <1>3. class \in DOMAIN ctx.classes
    BY ListFacts
  <1>4. d.classes[class] = new
    BY <1>2, <1>3
  <1> QED
    BY <1>4 DEF This, d

(* The invariant within a class, in its parts.                             *)
LEMMA AtList ==
  ASSUME NEW exact, IInv(exact), pc \in ClassSteps
  PROVE  /\ Context(ctx) /\ Loaded(ctx, file) /\ class \in 1..Len(file.classes)
         /\ class \in 1..Len(ctx.classes) /\ IsList(ctx.classes) /\ Len(ctx.classes) = Len(file.classes)
         /\ Len(file.classes) \in Nat /\ class \in Nat
         /\ ClassParts(This)
         /\ (pc # "class" => This.name # NULL)
         /\ \A part \in Unread(pc) : This[part] = NULL
  <1>1. Common /\ AtClass(exact)
    BY ClassFacts
  <1>2. ClassesRead(ctx.classes, class, Len(file.classes)) /\ class \in 1..Len(file.classes)
    BY <1>1 DEF AtClass
  <1>3. /\ class \in 1..Len(ctx.classes) /\ IsList(ctx.classes) /\ Len(ctx.classes) = Len(file.classes)
        /\ Len(file.classes) \in Nat /\ class \in Nat
    BY <1>2 DEF ClassesRead, IsList
  <1>4. ClassParts(This)
    BY <1>2 DEF ClassesRead, This
  <1> QED
    BY <1>1, <1>2, <1>3, <1>4 DEF AtClass, Common

(* The array of a list of members.                                         *)
LEMMA OpenListStep ==
  ASSUME NullApart, NEW exact, IInv(exact), Valued(file), FileSurvives(file), exact => Clean(file),
         pc \in ClassSteps \ {"class"}, NEW next \in MemberLists, next \in Unread(pc),
         Unread(next) \subseteq Unread(pc) \ {next}, HasClassData(file, class), OpenList(next)
  PROVE  IInv(exact)'
  <1> DEFINE items == cl.class_data[1][next]
             zero == IF IsFields(next) THEN ZeroField ELSE ZeroMethod
             kind == IF IsFields(next) THEN "fields" ELSE "methods"
             z == [i \in DOMAIN items |-> zero]
             new == [This EXCEPT ![next] = z]
             r == Done(NULL, <<Block(kind)>>)
             n == Len(items)
  <1>1. /\ Context(ctx) /\ Loaded(ctx, file) /\ class \in 1..Len(file.classes)
        /\ class \in 1..Len(ctx.classes) /\ IsList(ctx.classes) /\ ClassParts(This)
        /\ \A part \in Unread(pc) : This[part] = NULL
    BY AtList
  <1>2. IsList(items)
    <2>1. PICK V : FileHolds(V, exact)
      BY <1>1, FileValues
    <2>2. ClassShape(file.classes[class], V)
      BY <1>1, <2>1 DEF FileHolds, FileShape
    <2>3. cl.class_data # << >> /\ cl.class_data[1] # NULL
      BY DEF HasClassData, cl
    <2>4. ClassDataShape(cl.class_data[1])
      BY <2>2, <2>3 DEF ClassShape, cl
    <2> QED
      BY <2>3, <2>4 DEF ClassDataShape
  <1>3. n \in Nat /\ DOMAIN items = 1..n
    BY <1>2, ListFacts
  <1>4. Filled(z, n, zero)
    <2> HIDE DEF items, n, zero
    <2>1. z = [i \in 1..n |-> zero]
      BY <1>3
    <2> QED
      BY <1>3, <2>1, FilledFun
  <1>5. ClassSet(ctx, ctx', class, new) /\ PartSet(This, new, next, z)
    BY DEF OpenList, SetClass, ClassSet, PartSet
  <1>6. Acquire(r, next) /\ ReadFrame /\ class' = class /\ members' = 0 /\ idx' = 0
    BY DEF OpenList, ReadFrame
  <1>7. next \in {"static_fields", "instance_fields"} \/ next \in {"direct_methods", "virtual_methods"}
    BY DEF MemberLists
  <1>8. /\ Pays(r, FreePart(next, z), exact) /\ Len(z) = n
        /\ IF IsFields(next) THEN FieldList(z, 0) ELSE MethodList(z, 0)
    <2>1. <<Block(kind)>> \in Seq(Tokens)
      BY EmptyParts
    <2>2. CASE next \in {"static_fields", "instance_fields"}
      <3>1. IsFields(next) /\ zero = ZeroField /\ kind = "fields"
        BY <2>2 DEF IsFields
      <3>2. FreePart(next, z) = FreeFields(z)
        BY <2>2 DEF FreePart
      <3> HIDE DEF z, zero, n, kind
      <3>3. /\ FieldList(z, 0) /\ Len(z) = n /\ FreeFields(z) \in Seq(Tokens)
            /\ \A x : Occurrences(FreeFields(z), x) = Occurrences(<<Block("fields")>>, x)
        BY <1>3, <1>4, <3>1, FieldsOpen
      <3>4. \A x : Occurrences(FreeFields(z), x) \in Nat
        BY <3>3, OccNat
      <3>5. Paid(<<Block("fields")>>, FreeFields(z), exact)
        BY <2>1, <3>1, <3>3, <3>4 DEF Paid
      <3>6. Pays(Result(NULL, TRUE, <<Block("fields")>>), FreeFields(z), exact)
        BY <3>5, ResultPays
      <3> QED
        BY <3>1, <3>2, <3>3, <3>6 DEF Done
    <2>3. CASE next \in {"direct_methods", "virtual_methods"}
      <3>1. ~IsFields(next) /\ zero = ZeroMethod /\ kind = "methods"
        BY <2>3 DEF IsFields
      <3>2. FreePart(next, z) = FreeMethods(z)
        BY <2>3 DEF FreePart
      <3> HIDE DEF z, zero, n, kind
      <3>3. /\ MethodList(z, 0) /\ Len(z) = n /\ FreeMethods(z) \in Seq(Tokens)
            /\ \A x : Occurrences(FreeMethods(z), x) = Occurrences(<<Block("methods")>>, x)
        BY <1>3, <1>4, <3>1, MethodsOpen
      <3>4. \A x : Occurrences(FreeMethods(z), x) \in Nat
        BY <3>3, OccNat
      <3>5. Paid(<<Block("methods")>>, FreeMethods(z), exact)
        BY <2>1, <3>1, <3>3, <3>4 DEF Paid
      <3>6. Pays(Result(NULL, TRUE, <<Block("methods")>>), FreeMethods(z), exact)
        BY <3>5, ResultPays
      <3> QED
        BY <3>1, <3>2, <3>3, <3>6 DEF Done
    <2> QED
      BY <1>7, <2>2, <2>3
  <1>9. next \in PartNames /\ Unread(next) \subseteq PartNames /\ next \in ClassSteps \ {"class", "directory"}
    BY DEF PartNames, Unread, MemberLists, ClassSteps
  <1>10. pc' = next
    BY <1>6 DEF Acquire, Done, Result
  <1> HIDE DEF new, z, r, items, n
  <1>11. This' = new
    BY <1>1, <1>5, <1>6, ThisSet
  <1>12. new[next] = z
    <2>1. FreePart(next, z) \in Seq(Tokens)
      BY <1>8 DEF Pays, Paid
    <2> QED
      BY <1>1, <1>5, <1>9, <2>1, PartChange
  <1>13. cl' = cl /\ HasClassData(file, class)'
    BY <1>6 DEF cl, ReadFrame, HasClassData
  <1>14. AtMember'
    BY <1>6, <1>8, <1>10, <1>11, <1>12, <1>13 DEF AtMember, n, items, ReadFrame, IsFields
  <1>15. members' \in Nat /\ idx' \in Nat
    BY <1>6
  <1> QED
    BY <1>5, <1>6, <1>8, <1>9, <1>14, <1>15, PartRead

(* Class data begins with the list of static fields.                       *)
LEMMA OpenClassDataStep ==
  ASSUME NullApart, NEW exact, IInv(exact), Valued(file), FileSurvives(file), exact => Clean(file),
         OpenClassData
  PROVE  IInv(exact)'
  <1>1. pc = "class_data" /\ pc \in ClassSteps \ {"class"}
    BY DEF OpenClassData, ClassSteps
  <1>2. CASE cl.class_data[1] = NULL
    <2>1. ctx' = ctx /\ ReadFrame /\ held' = held /\ pc' = "failed" /\ class' = class /\ members' = members /\ idx' = idx
      BY <1>2 DEF OpenClassData, ReadFrame
    <2>2. Common /\ AtReading(exact) /\ ProtosNamed
      BY <1>1, ClassFacts
    <2>3. AtReading(exact)' /\ ProtosNamed' /\ IsABag(held')
      BY <2>1, <2>2, NothingRead
    <2>4. Common'
      <3>1. pc' \in Steps \cup MemberLists /\ Context(ctx') /\ members' \in Nat /\ idx' \in Nat
            /\ class' \in 0..Len(file.classes) + 1
        BY <2>1, <2>2 DEF Common, Steps
      <3> QED
        BY <2>1, <2>2, <2>3, <3>1, CommonStep
    <2> QED
      BY <2>1, <2>3, <2>4, AtFailed
  <1>3. CASE cl.class_data[1] # NULL
    <2>1. OpenList("static_fields") /\ cl.class_data # << >>
      BY <1>3 DEF OpenClassData, Lists
    <2>2. HasClassData(file, class)
      BY <1>3, <2>1 DEF HasClassData, cl
    <2>3. /\ "static_fields" \in MemberLists /\ "static_fields" \in Unread(pc)
          /\ Unread("static_fields") \subseteq Unread(pc) \ {"static_fields"}
      BY <1>1 DEF MemberLists, Unread
    <2> QED
      BY <1>1, <2>1, <2>2, <2>3, OpenListStep
  <1> QED
    BY <1>2, <1>3

(* The end of a list of members opens the next one.                        *)
LEMMA NextListStep ==
  ASSUME NullApart, NEW exact, IInv(exact), Valued(file), FileSurvives(file), exact => Clean(file),
         NextList
  PROVE  IInv(exact)'
  <1>1. pc \in MemberLists /\ pc \in ClassSteps \ {"class"}
    BY DEF NextList, ClassSteps, MemberLists, Lists, ToSet
  <1>2. HasClassData(file, class)
    BY <1>1, ClassFacts DEF AtMember
  <1>3. DOMAIN Lists = 1..4 /\ Len(Lists) = 4
    BY DEF Lists
  <1>4. /\ Lists[1] = "static_fields" /\ Lists[2] = "instance_fields"
        /\ Lists[3] = "direct_methods" /\ Lists[4] = "virtual_methods"
    BY DEF Lists
  <1>5. ListPos \in 1..4 /\ Lists[ListPos] = pc
    <2>1. \E i \in DOMAIN Lists : Lists[i] = pc
      BY <1>1, <1>3, <1>4 DEF MemberLists
    <2> QED
      BY <1>3, <2>1 DEF ListPos
  <1>6. ListPos = 1 \/ ListPos = 2 \/ ListPos = 3 \/ ListPos = 4
    BY <1>5
  <1>7. CASE ListPos < 4
    <2> DEFINE next == Lists[ListPos + 1]
    <2>1. OpenList(next)
      BY <1>3, <1>7 DEF NextList
    <2>2. next \in MemberLists /\ next \in Unread(pc) /\ Unread(next) \subseteq Unread(pc) \ {next}
      <3>1. CASE ListPos = 1
        BY <3>1, <1>4, <1>5 DEF MemberLists, Unread
      <3>2. CASE ListPos = 2
        BY <3>2, <1>4, <1>5 DEF MemberLists, Unread
      <3>3. CASE ListPos = 3
        BY <3>3, <1>4, <1>5 DEF MemberLists, Unread
      <3> QED
        BY <1>6, <1>7, <3>1, <3>2, <3>3
    <2> HIDE DEF next
    <2> QED
      BY <1>1, <1>2, <2>1, <2>2, OpenListStep
  <1>8. CASE ListPos = 4
    <2>1. /\ ctx' = ctx /\ ReadFrame /\ held' = held /\ pc' = "static_values" /\ class' = class
          /\ members' = members /\ idx' = idx
      BY <1>3, <1>8 DEF NextList, ReadFrame
    <2>2. Common /\ AtReading(exact) /\ ProtosNamed /\ AtClass(exact)
      BY <1>1, ClassFacts
    <2>3. AtReading(exact)' /\ ProtosNamed' /\ IsABag(held')
      BY <2>1, <2>2, NothingRead
    <2>4. Common'
      <3>1. pc' \in Steps \cup MemberLists /\ Context(ctx') /\ members' \in Nat /\ idx' \in Nat
            /\ class' \in 0..Len(file.classes) + 1
        BY <2>1, <2>2 DEF Common, Steps
      <3> QED
        BY <2>1, <2>2, <2>3, <3>1, CommonStep
    <2>5. pc = "virtual_methods"
      BY <1>4, <1>5, <1>8
    <2>6. Unread(pc') = Unread(pc) /\ This' = This
      BY <2>1, <2>5 DEF Unread, This
    <2>7. AtClass(exact)'
      <3>1. exact => SlotsNamed(ctx, file, class)
        BY <2>2, <2>5 DEF AtClass
      <3> QED
        BY <2>1, <2>2, <2>5, <2>6, <3>1 DEF AtClass, ReadFrame
    <2>8. pc' \in ClassSteps /\ pc' \notin MemberLists
      BY <2>1 DEF ClassSteps, MemberLists
    <2> QED
      BY <2>3, <2>4, <2>7, <2>8, AtClassStep
  <1> QED
    BY <1>6, <1>7, <1>8

(* Two steps of growth are one.                                            *)
LEMMA GrowsTwice ==
  ASSUME NEW exact, NEW a \in Seq(Tokens), NEW b \in Seq(Tokens), NEW c \in Seq(Tokens),
         NEW s \in Seq(Tokens), NEW t \in Seq(Tokens), GrowsBy(a, b, s, exact), GrowsBy(b, c, t, exact)
  PROVE  GrowsBy(a, c, s \o t, exact) /\ s \o t \in Seq(Tokens)
  <1>1. ASSUME NEW x
        PROVE  /\ Occurrences(c, x) <= Occurrences(a, x) + Occurrences(s \o t, x)
               /\ exact => Occurrences(c, x) = Occurrences(a, x) + Occurrences(s \o t, x)
    <2> DEFINE na == Occurrences(a, x)
               nb == Occurrences(b, x)
               nc == Occurrences(c, x)
               ns == Occurrences(s, x)
               nt == Occurrences(t, x)
    <2>1. na \in Nat /\ nb \in Nat /\ nc \in Nat /\ ns \in Nat /\ nt \in Nat
      BY OccNat
    <2>2. Occurrences(s \o t, x) = ns + nt
      BY OccSum
    <2>3. nb <= na + ns /\ nc <= nb + nt /\ (exact => nb = na + ns) /\ (exact => nc = nb + nt)
      BY DEF GrowsBy
    <2> HIDE DEF na, nb, nc, ns, nt
    <2>4. nc <= na + (ns + nt)
      BY <2>1, <2>3
    <2>5. nb = na + ns /\ nc = nb + nt => nc = na + (ns + nt)
      BY <2>1
    <2>6. exact => nc = na + (ns + nt)
      BY <2>3, <2>5
    <2> QED
      BY <2>2, <2>4, <2>6 DEF na, nc
  <1> QED
    BY <1>1, OccSum DEF GrowsBy

(* A list with one token behind it.                                        *)
LEMMA OneMore ==
  ASSUME NEW s \in Seq(Tokens), NEW b \in Tokens
  PROVE  /\ s \o <<b>> \in Seq(Tokens) /\ Len(s \o <<b>>) = Len(s) + 1
         /\ (s \o <<b>>)[Len(s) + 1] = b
         /\ \A i \in 1..Len(s) : (s \o <<b>>)[i] = s[i]
  OBVIOUS

(* The four lists of a class that has no members.                          *)
FourBlocks == <<Block("fields"), Block("fields"), Block("methods"), Block("methods")>>
(* A class with four empty lists of members.                               *)
LEMMA FourEmpty ==
  ASSUME NullApart, NEW exact, NEW c, ClassParts(c), \A list \in MemberLists : c[list] = NULL,
         NEW d, d = [c EXCEPT !.static_fields = << >>, !.instance_fields = << >>,
                              !.direct_methods = << >>, !.virtual_methods = << >>]
  PROVE  /\ ClassParts(d) /\ d.name = c.name /\ d.static_values = c.static_values
         /\ FourBlocks \in Seq(Tokens) /\ GrowsBy(FreeClass(c), FreeClass(d), FourBlocks, exact)
  <1> DEFINE e1 == [c EXCEPT !["static_fields"] = << >>]
             e2 == [e1 EXCEPT !["instance_fields"] = << >>]
             e3 == [e2 EXCEPT !["direct_methods"] = << >>]
             e4 == [e3 EXCEPT !["virtual_methods"] = << >>]
             f == <<Block("fields")>>
             m == <<Block("methods")>>
  <1>1. d = e4
    <2> DEFINE f1 == c.name
               f2 == c.super_class
               f3 == c.source_file
               f4 == c.interfaces
               f5 == c.annotations
               f6 == c.static_values
               f7 == c.static_fields
               f8 == c.instance_fields
               f9 == c.direct_methods
               f10 == c.virtual_methods
    <2>1. c = [name |-> f1, super_class |-> f2, source_file |-> f3, interfaces |-> f4,
               annotations |-> f5, static_values |-> f6, static_fields |-> f7,
               instance_fields |-> f8, direct_methods |-> f9, virtual_methods |-> f10]
      BY DEF ClassParts
    <2> HIDE DEF f1, f2, f3, f4, f5, f6, f7, f8, f9, f10
    <2>2. d = [name |-> f1, super_class |-> f2, source_file |-> f3, interfaces |-> f4,
               annotations |-> f5, static_values |-> f6, static_fields |-> << >>,
               instance_fields |-> << >>, direct_methods |-> << >>, virtual_methods |-> << >>]
      BY <2>1
    <2>3. e4 = [name |-> f1, super_class |-> f2, source_file |-> f3, interfaces |-> f4,
               annotations |-> f5, static_values |-> f6, static_fields |-> << >>,
               instance_fields |-> << >>, direct_methods |-> << >>, virtual_methods |-> << >>]
      BY <2>1
    <2> QED
      BY <2>2, <2>3
  <1>2. /\ PartSet(c, e1, "static_fields", << >>) /\ PartSet(e1, e2, "instance_fields", << >>)
        /\ PartSet(e2, e3, "direct_methods", << >>) /\ PartSet(e3, e4, "virtual_methods", << >>)
    BY DEF PartSet
  <1>3. /\ f \in Seq(Tokens) /\ m \in Seq(Tokens)
        /\ FreeFields(<< >>) = f /\ FreeMethods(<< >>) = m
    BY EmptyParts
  <1>4. /\ Paid(f, FreePart("static_fields", << >>), exact)
        /\ Paid(f, FreePart("instance_fields", << >>), exact)
        /\ Paid(m, FreePart("direct_methods", << >>), exact)
        /\ Paid(m, FreePart("virtual_methods", << >>), exact)
    BY <1>3, PaidSame DEF FreePart
  <1>5. /\ "static_fields" \in PartNames /\ "instance_fields" \in PartNames
        /\ "direct_methods" \in PartNames /\ "virtual_methods" \in PartNames
        /\ "static_values" \in PartNames
    BY DEF PartNames, MemberLists
  <1>6. /\ c["static_fields"] = NULL /\ c["instance_fields"] = NULL
        /\ c["direct_methods"] = NULL /\ c["virtual_methods"] = NULL
    BY DEF MemberLists
  <1> HIDE DEF e1, e2, e3, e4, f, m
  <1>7. /\ ClassParts(e1) /\ e1.name = c.name /\ GrowsBy(FreeClass(c), FreeClass(e1), f, exact)
        /\ \A p \in PartNames \ {"static_fields"} : e1[p] = c[p]
    BY <1>2, <1>4, <1>5, <1>6, PartOwes
  <1>8. /\ ClassParts(e2) /\ e2.name = e1.name /\ GrowsBy(FreeClass(e1), FreeClass(e2), f, exact)
        /\ \A p \in PartNames \ {"instance_fields"} : e2[p] = e1[p]
    <2>1. e1["instance_fields"] = NULL
      BY <1>5, <1>6, <1>7
    <2> QED
      BY <1>2, <1>4, <1>5, <1>7, <2>1, PartOwes
  <1>9. /\ ClassParts(e3) /\ e3.name = e2.name /\ GrowsBy(FreeClass(e2), FreeClass(e3), m, exact)
        /\ \A p \in PartNames \ {"direct_methods"} : e3[p] = e2[p]
    <2>1. e2["direct_methods"] = NULL
      BY <1>5, <1>6, <1>7, <1>8
    <2> QED
      BY <1>2, <1>4, <1>5, <1>8, <2>1, PartOwes
  <1>10. /\ ClassParts(e4) /\ e4.name = e3.name /\ GrowsBy(FreeClass(e3), FreeClass(e4), m, exact)
         /\ \A p \in PartNames \ {"virtual_methods"} : e4[p] = e3[p]
    <2>1. e3["virtual_methods"] = NULL
      BY <1>5, <1>6, <1>7, <1>8, <1>9
    <2> QED
      BY <1>2, <1>4, <1>5, <1>9, <2>1, PartOwes
  <1>11. e4["static_values"] = c["static_values"]
    BY <1>5, <1>7, <1>8, <1>9, <1>10
  <1>12. /\ FreeClass(c) \in Seq(Tokens) /\ FreeClass(e1) \in Seq(Tokens) /\ FreeClass(e2) \in Seq(Tokens)
         /\ FreeClass(e3) \in Seq(Tokens) /\ FreeClass(e4) \in Seq(Tokens)
    BY <1>7, <1>8, <1>9, <1>10, ClassSum
  <1> DEFINE t2 == f \o f
             t3 == t2 \o m
             t4 == t3 \o m
  <1>13. GrowsBy(FreeClass(c), FreeClass(e2), t2, exact) /\ t2 \in Seq(Tokens)
    BY <1>3, <1>7, <1>8, <1>12, GrowsTwice
  <1>14. GrowsBy(FreeClass(c), FreeClass(e3), t3, exact) /\ t3 \in Seq(Tokens)
    <2> HIDE DEF t2
    <2> QED
      BY <1>3, <1>9, <1>12, <1>13, GrowsTwice
  <1>15. GrowsBy(FreeClass(c), FreeClass(e4), t4, exact) /\ t4 \in Seq(Tokens)
    <2> HIDE DEF t3
    <2> QED
      BY <1>3, <1>10, <1>12, <1>14, GrowsTwice
  <1>16. t4 = FourBlocks
    <2> DEFINE a == Block("fields")
               b == Block("methods")
    <2> HIDE DEF a, b
    <2>0. a \in Tokens /\ b \in Tokens
      BY BlockToken DEF a, b, Kinds
    <2>1. <<a>> \in Seq(Tokens) /\ <<b>> \in Seq(Tokens)
      BY <2>0
    <2> DEFINE s2 == <<a>> \o <<a>>
               s3 == s2 \o <<b>>
               s4 == s3 \o <<b>>
    <2>2. s2 \in Seq(Tokens) /\ Len(s2) = 2 /\ s2[1] = a /\ s2[2] = a
      BY <2>1
    <2> HIDE DEF s2
    <2>3. s3 \in Seq(Tokens) /\ Len(s3) = 3 /\ s3[1] = a /\ s3[2] = a /\ s3[3] = b
      <3>1. /\ s3 \in Seq(Tokens) /\ Len(s3) = Len(s2) + 1 /\ s3[Len(s2) + 1] = b
            /\ \A i \in 1..Len(s2) : s3[i] = s2[i]
        BY <2>0, <2>2, OneMore
      <3> HIDE DEF s3
      <3> QED
        BY <2>2, <3>1
    <2> HIDE DEF s3
    <2>4. s4 \in Seq(Tokens) /\ Len(s4) = 4 /\ s4[1] = a /\ s4[2] = a /\ s4[3] = b /\ s4[4] = b
      <3>1. /\ s4 \in Seq(Tokens) /\ Len(s4) = Len(s3) + 1 /\ s4[Len(s3) + 1] = b
            /\ \A i \in 1..Len(s3) : s4[i] = s3[i]
        BY <2>0, <2>3, OneMore
      <3> HIDE DEF s4
      <3> QED
        BY <2>3, <3>1
    <2> HIDE DEF s4
    <2>5. s4 = <<a, a, b, b>>
      BY <2>0, <2>4
    <2>6. t4 = s4
      BY DEF t4, t3, t2, f, m, a, b, s2, s3, s4
    <2> QED
      BY <2>5, <2>6 DEF FourBlocks, a, b
  <1> HIDE DEF t4
  <1> QED
    BY <1>1, <1>7, <1>8, <1>9, <1>10, <1>11, <1>15, <1>16

(* A class without class data gets four empty lists.                       *)
LEMMA NoClassDataStep ==
  ASSUME NullApart, NEW exact, IInv(exact), NoClassData
  PROVE  IInv(exact)'
  <1> DEFINE new == [This EXCEPT !.static_fields = << >>, !.instance_fields = << >>,
                                 !.direct_methods = << >>, !.virtual_methods = << >>]
  <1>1. pc = "class_data" /\ pc \in ClassSteps
    BY DEF NoClassData, ClassSteps
  <1>2. ClassParts(This) /\ This.name # NULL /\ \A part \in Unread(pc) : This[part] = NULL
    BY <1>1, AtList
  <1>3. ClassSet(ctx, ctx', class, new)
    BY DEF NoClassData, SetClass, ClassSet
  <1>4. HoldsMore(FourBlocks) /\ ReadFrame /\ class' = class /\ pc' = "static_values"
    BY DEF NoClassData, Acquire, HoldsMore, FourBlocks, ReadFrame, Done, Result
  <1>5. members' \in Nat /\ idx' \in Nat
    BY Counters DEF NoClassData
  <1>6. \A list \in MemberLists \cup {"static_values"} : This[list] = NULL
    BY <1>1, <1>2 DEF Unread
  <1>7. \E d : d = new
    OBVIOUS
  <1> HIDE DEF new
  <1>8. /\ ClassParts(new) /\ new.name = This.name /\ new.static_values = This.static_values
        /\ FourBlocks \in Seq(Tokens) /\ GrowsBy(FreeClass(This), FreeClass(new), FourBlocks, exact)
    BY <1>2, <1>6, FourEmpty DEF new
  <1>9. \A part \in Unread(pc') : new[part] = NULL
    BY <1>4, <1>6, <1>8 DEF Unread
  <1>10. pc' \in ClassSteps \ {"class"} /\ pc' # "directory" /\ pc' \notin MemberLists
    BY <1>4 DEF ClassSteps, MemberLists
  <1> QED
    BY <1>1, <1>2, <1>3, <1>4, <1>5, <1>8, <1>9, <1>10, ClassStep

(* The static values, with which a class ends.                             *)
LEMMA ReadStaticValuesStep ==
  ASSUME NullApart, NEW exact, IInv(exact), Valued(file), FileSurvives(file), exact => Clean(file),
         ReadStaticValues
  PROVE  IInv(exact)'
  <1> DEFINE r == StaticValues(cl.static_values)
             new == [This EXCEPT !.static_values = r.value]
             next == NextClass(class)
             took == r.took
             n == Len(file.classes)
  <1>1. pc = "static_values" /\ pc \in ClassSteps
    BY DEF ReadStaticValues, ClassSteps
  <1>2. Common /\ AtReading(exact) /\ ProtosNamed /\ AtClass(exact)
    BY <1>1, ClassFacts
  <1>3. /\ Context(ctx) /\ Loaded(ctx, file) /\ class \in 1..n
        /\ IsList(ctx.classes) /\ Len(ctx.classes) = n /\ n \in Nat /\ class \in Nat
        /\ ClassParts(This) /\ This.name # NULL /\ \A part \in Unread(pc) : This[part] = NULL
    BY <1>1, AtList
  <1>4. This["static_values"] = NULL
    BY <1>1, <1>3 DEF Unread
  <1>5. Pays(r, FreeValues(r.value), exact)
    <2>1. PICK V : FileHolds(V, exact)
      BY <1>3, FileValues
    <2>2. ClassShape(file.classes[class], V)
      BY <1>3, <2>1 DEF FileHolds, FileShape
    <2> DEFINE values == cl.static_values
    <2>3. values # << >> => (values[1] # NULL =>
             IsList(values[1]) /\ \A i \in 1..Len(values[1]) : values[1][i] \in V)
      BY <2>2 DEF ClassShape, cl
    <2> HIDE DEF values
    <2>4. CASE values = << >>
      <3>1. r = Done(<< >>, <<Block("values")>>)
        BY <2>4 DEF StaticValues, values
      <3> HIDE DEF r
      <3>2. r.value = << >> /\ <<Block("values")>> \in Seq(Tokens) /\ FreeValues(<< >>) = <<Block("values")>>
        BY <3>1, DonePays, EmptyParts
      <3>3. Pays(r, <<Block("values")>>, exact)
        BY <3>1, <3>2, DonePays
      <3> QED
        BY <3>2, <3>3
    <2>5. CASE values # << >> /\ values[1] = NULL
      <3>1. r = Failed(NULL)
        BY <2>5 DEF StaticValues, values
      <3>2. FreeValues(NULL) = << >>
        BY DEF FreeValues, FreeValuesBy, FreeArray
      <3> HIDE DEF r
      <3> QED
        BY <3>1, <3>2, FailedPays
    <2>6. CASE values # << >> /\ values[1] # NULL
      <3>1. r = ReadValueArray(ctx, values[1])
        BY <2>6 DEF StaticValues, values
      <3> HIDE DEF r
      <3>2. \A i \in 1..Len(values[1]) : ValuePays(ctx, values[1][i], exact)
        BY <2>1, <2>3, <2>6 DEF FileHolds
      <3>3. FreeValue(ZeroValue) = << >>
        BY <2>1 DEF FileHolds
      <3> QED
        BY <2>3, <2>6, <3>1, <3>2, <3>3, ValueArrayPays
    <2> QED
      BY <2>4, <2>5, <2>6
  <1>6. ClassSet(ctx, ctx', class, new) /\ PartSet(This, new, "static_values", r.value)
    BY DEF ReadStaticValues, SetClass, ClassSet, PartSet
  <1>7. /\ HoldsMore(took) /\ ReadFrame /\ class' = class + 1 /\ pc' = (IF r.ok THEN next ELSE "failed")
        /\ members' = members /\ idx' = idx
    BY DEF ReadStaticValues, Acquire, HoldsMore, ReadFrame
  <1> DEFINE v == r.value
  <1>8. r.ok \in BOOLEAN /\ Paid(took, FreePart("static_values", v), exact)
    BY <1>5 DEF Pays, IsResult, FreePart
  <1>9. "static_values" \in PartNames
    BY DEF PartNames
  <1>10. PartSet(This, new, "static_values", v)
    BY <1>6
  <1> HIDE DEF r, new, took, v
  <1>11. /\ ClassParts(new) /\ new.name = This.name /\ took \in Seq(Tokens)
         /\ GrowsBy(FreeClass(This), FreeClass(new), took, exact)
    BY <1>3, <1>4, <1>8, <1>9, <1>10, PartOwes, SMTT(20)
  <1>12. /\ AtReading(exact)' /\ ProtosNamed' /\ Context(ctx') /\ IsABag(held')
         /\ SameTables(ctx, ctx') /\ ctx'.fields = ctx.fields /\ ctx'.methods = ctx.methods
         /\ Loaded(ctx', file)
         /\ IsList(ctx'.classes) /\ Len(ctx'.classes) = n
         /\ ctx'.classes[class] = new
         /\ \A i \in 1..n : i # class => ctx'.classes[i] = ctx.classes[i]
    BY <1>2, <1>3, <1>6, <1>7, <1>11, SetThis
  <1>13. next \in {"class", "move"}
    BY DEF NextClass
  <1>14. Common'
    <2>1. pc' \in Steps \cup MemberLists
      BY <1>7, <1>8, <1>13 DEF Steps
    <2>2. members' \in Nat /\ idx' \in Nat /\ class' \in 0..n + 1
      BY <1>3, <1>7, Counters
    <2> QED
      BY <1>2, <1>7, <1>12, <2>1, <2>2, CommonStep
  <1>15. ClassesRead(ctx'.classes, class + 1, n)
    <2>1. ClassesRead(ctx.classes, class, n)
      BY <1>2 DEF AtClass
    <2>2. ASSUME NEW i \in 1..n
          PROVE  ClassParts(ctx'.classes[i]) /\ (i < class + 1 => ctx'.classes[i].name # NULL)
                 /\ (class + 1 < i => ctx'.classes[i] = ZeroClass)
      <3>1. CASE i = class
        BY <1>3, <1>11, <1>12, <3>1
      <3>2. CASE i # class
        BY <1>3, <1>12, <2>1, <3>2 DEF ClassesRead
      <3> QED
        BY <3>1, <3>2
    <2> QED
      BY <1>12, <2>2 DEF ClassesRead
  <1>16. CASE pc' = "failed"
    BY <1>12, <1>14, <1>16, AtFailed
  <1>17. CASE pc' # "failed" /\ class < n
    <2>1. pc' = "class"
      BY <1>7, <1>8, <1>17 DEF NextClass, n
    <2>2. This' = ZeroClass
      <3>1. ClassesRead(ctx.classes, class, n)
        BY <1>2 DEF AtClass
      <3>2. ctx.classes[class + 1] = ZeroClass
        BY <1>3, <1>17, <3>1 DEF ClassesRead
      <3>3. ctx'.classes[class + 1] = ctx.classes[class + 1]
        BY <1>3, <1>12, <1>17
      <3> QED
        BY <1>7, <3>2, <3>3 DEF This
    <2>3. class' \in 1..n
      BY <1>3, <1>7, <1>17
    <2>4. exact => SlotsNamed(ctx', file, class)
      <3>1. exact => SlotsNamed(ctx, file, class)
        BY <1>1, <1>2 DEF AtClass
      <3> QED
        BY <1>12, <3>1 DEF SlotsNamed
    <2>5. (class + 1) - 1 = class
      BY <1>3
    <2>6. Unread("class") = {}
      BY DEF Unread
    <2>7. AtClass(exact)'
      BY <1>7, <1>12, <1>15, <2>1, <2>2, <2>3, <2>4, <2>5, <2>6 DEF AtClass, ReadFrame
    <2>8. pc' \in ClassSteps /\ pc' \notin MemberLists
      BY <2>1 DEF ClassSteps, MemberLists
    <2> QED
      BY <1>12, <1>14, <2>7, <2>8, AtClassStep
  <1>18. CASE pc' # "failed" /\ ~(class < n)
    <2>1. pc' = "move"
      BY <1>7, <1>8, <1>18 DEF NextClass, n
    <2>2. class' = n + 1
      BY <1>3, <1>7, <1>18
    <2>3. AtMove'
      BY <1>7, <1>12, <1>15, <2>2 DEF AtMove, ReadFrame
    <2> QED
      BY <1>12, <1>14, <2>1, <2>3, AtMoveStep
  <1> QED
    BY <1>16, <1>17, <1>18

-----------------------------------------------------------------------------
(* The names of a class.                                                   *)
NamesRead(c) ==
  InOrder(<<ReadRef(c.types, cl.name), ReadRefP1(c.types, cl.super_class),
            ReadRefP1(c.strs, cl.source_file)>>, NULL)
(* The three names of a class pay when all are read.                       *)
LEMMA NamesPay ==
  ASSUME NullApart, NEW exact, NEW c, StrList(c.types), StrList(c.strs), NEW r, r = NamesRead(c)
  PROVE  /\ IsResult(r)
         /\ r.ok => /\ r.value[1] \in Strs /\ r.value[2] \in Tokens \cup {NULL}
                    /\ r.value[3] \in Tokens \cup {NULL}
                    /\ Paid(r.took, FreeRefs(<<r.value[1], r.value[2], r.value[3]>>), exact)
  <1> DEFINE p == ReadRef(c.types, cl.name)
             q == ReadRefP1(c.types, cl.super_class)
             s == ReadRefP1(c.strs, cl.source_file)
  <1>1. /\ IsList(c.types) /\ (\A i \in 1..Len(c.types) : c.types[i] \in Tokens)
        /\ IsList(c.strs) /\ (\A i \in 1..Len(c.strs) : c.strs[i] \in Tokens)
        /\ (\A i \in 1..Len(c.types) : c.types[i] \in Strs)
    BY RefTokens DEF StrList
  <1>2. /\ IsResult(p) /\ Paid(p.took, FreeRef(p.value), exact) /\ (p.ok => p.value \in Strs)
    <2>1. p.ok => cl.name \in 1..Len(c.types) /\ p.value = c.types[cl.name]
      BY <1>1, ReadRefPaid
    <2> QED
      BY <1>1, <2>1, ReadRefPaid
  <1>3. /\ IsResult(q) /\ Paid(q.took, FreeRef(q.value), exact) /\ q.value \in Tokens \cup {NULL}
    BY <1>1, ReadRefP1Pays DEF Pays
  <1>4. /\ IsResult(s) /\ Paid(s.took, FreeRef(s.value), exact) /\ s.value \in Tokens \cup {NULL}
    BY <1>1, ReadRefP1Pays DEF Pays
  <1>5. r = InOrder(<<p, q, s>>, NULL)
    BY DEF NamesRead
  <1> HIDE DEF p, q, s
  <1>6. /\ r.value[1] = p.value /\ r.value[2] = (IF p.ok THEN q.value ELSE NULL)
        /\ r.value[3] = (IF p.ok /\ q.ok THEN s.value ELSE NULL)
        /\ r.took = (IF ~p.ok THEN p.took ELSE IF ~q.ok THEN p.took \o q.took
                                              ELSE (p.took \o q.took) \o s.took)
        /\ r.ok = (p.ok /\ q.ok /\ s.ok) /\ IsResult(r)
    BY <1>2, <1>3, <1>4, <1>5, InOrderThree
  <1>7. ASSUME r.ok
        PROVE  /\ r.value[1] \in Strs /\ r.value[2] \in Tokens \cup {NULL}
               /\ r.value[3] \in Tokens \cup {NULL}
               /\ Paid(r.took, FreeRefs(<<r.value[1], r.value[2], r.value[3]>>), exact)
    <2>1. p.ok /\ q.ok /\ s.ok
      BY <1>6, <1>7
    <2>2. /\ r.value[1] = p.value /\ r.value[2] = q.value /\ r.value[3] = s.value
          /\ r.took = (p.took \o q.took) \o s.took
      BY <1>6, <2>1
    <2>3. p.value \in Tokens \cup {NULL}
      BY <1>2, <2>1, RefTokens
    <2>4. FreeRefs(<<p.value, q.value, s.value>>) = (FreeRef(p.value) \o FreeRef(q.value)) \o FreeRef(s.value)
      BY <1>3, <1>4, <2>3, FreeRefsThree
    <2> DEFINE t2 == p.took \o q.took
               f2 == FreeRef(p.value) \o FreeRef(q.value)
    <2>5. Paid(t2, f2, exact)
      BY <1>2, <1>3, PaidCat
    <2> HIDE DEF t2, f2
    <2>6. Paid(t2 \o s.took, f2 \o FreeRef(s.value), exact)
      BY <1>4, <2>5, PaidCat
    <2> QED
      BY <1>2, <1>3, <1>4, <2>1, <2>2, <2>4, <2>6 DEF t2, f2
  <1> QED
    BY <1>6, <1>7

(* A class of which only the names have been read.                         *)
Named(new, a, b, d) == new = [ZeroClass EXCEPT !.name = a, !.super_class = b, !.source_file = d]
(* A class of which the names have been read.                              *)
LEMMA NamedClass ==
  ASSUME NullApart, NEW exact, NEW a \in Strs, NEW b \in Tokens \cup {NULL}, NEW d \in Tokens \cup {NULL},
         NEW took, Paid(took, FreeRefs(<<a, b, d>>), exact),
         NEW new, Named(new, a, b, d)
  PROVE  /\ ClassParts(new) /\ new.name # NULL
         /\ \A part \in PartNames : new[part] = NULL
         /\ took \in Seq(Tokens)
         /\ GrowsBy(FreeClass(ZeroClass), FreeClass(new), took, exact)
  <1>0. new = [ZeroClass EXCEPT !.name = a, !.super_class = b, !.source_file = d]
    BY DEF Named
  <1>1. new = [name |-> a, super_class |-> b, source_file |-> d, interfaces |-> NULL,
               annotations |-> NULL, static_values |-> NULL, static_fields |-> NULL,
               instance_fields |-> NULL, direct_methods |-> NULL, virtual_methods |-> NULL]
    BY <1>0 DEF ZeroClass
  <1>2. /\ FreeAnnotations(NULL) = << >> /\ FreeValues(NULL) = << >> /\ FreeStrstr(NULL) = << >>
        /\ FreeFields(NULL) = << >> /\ FreeMethods(NULL) = << >>
    BY DEF FreeAnnotations, FreeValues, FreeValuesBy, FreeStrstr, FreeFields, FreeMethods, FreeArray
  <1>3. /\ new.name = a /\ new.super_class = b /\ new.source_file = d /\ new.interfaces = NULL
        /\ new.annotations = NULL /\ new.static_values = NULL /\ new.static_fields = NULL
        /\ new.instance_fields = NULL /\ new.direct_methods = NULL /\ new.virtual_methods = NULL
    <2> QED
      BY <1>1
  <1>4. \A part \in PartNames : new[part] = NULL
    BY <1>3 DEF PartNames, MemberLists
  <1>5. ClassParts(new)
    BY <1>1, <1>2, <1>3, NoTokens DEF ClassParts
  <1>6. new.name # NULL
    BY <1>3, RefTokens, NotNull
  <1>7. FreeNames(new) = FreeRefs(<<a, b, d>>)
    BY <1>3 DEF FreeNames
  <1>8. ASSUME NEW x
        PROVE  Occurrences(FreeClass(new), x) = Occurrences(FreeRefs(<<a, b, d>>), x)
    <2>1. /\ Occurrences(FreeClass(new), x)
                    = Occurrences(FreeAnnotations(new.annotations), x)
                        + Occurrences(FreeValues(new.static_values), x)
                        + Occurrences(FreeFields(new.static_fields), x)
                        + Occurrences(FreeFields(new.instance_fields), x)
                        + Occurrences(FreeMethods(new.direct_methods), x)
                        + Occurrences(FreeMethods(new.virtual_methods), x)
                        + Occurrences(FreeNames(new), x)
                        + Occurrences(FreeStrstr(new.interfaces), x)
      BY <1>5, ClassSum
    <2>2. Occurrences(<< >>, x) = 0
      BY OccEmpty
    <2>3. Occurrences(FreeRefs(<<a, b, d>>), x) \in Nat
      BY OccNat DEF Paid
    <2> QED
      BY <1>2, <1>3, <1>7, <2>1, <2>2, <2>3
  <1>9. FreeClass(ZeroClass) = << >>
    BY ZeroClassFree
  <1>10. ASSUME NEW x
         PROVE  /\ Occurrences(FreeClass(new), x) <= Occurrences(FreeClass(ZeroClass), x) + Occurrences(took, x)
                /\ exact => Occurrences(FreeClass(new), x) = Occurrences(FreeClass(ZeroClass), x) + Occurrences(took, x)
    <2> DEFINE n == Occurrences(FreeClass(new), x)
               t == Occurrences(took, x)
               z == Occurrences(FreeClass(ZeroClass), x)
    <2>1. t \in Nat /\ z = 0
      BY <1>9, OccEmpty, OccNat DEF Paid
    <2>2. n <= t /\ (exact => n = t)
      BY <1>8 DEF Paid
    <2>3. z + t = t
      BY <2>1
    <2> HIDE DEF n, t, z
    <2> QED
      BY <2>2, <2>3 DEF n, t, z
  <1> QED
    BY <1>4, <1>5, <1>6, <1>10 DEF GrowsBy, Paid

(* The names of a class: all three indexes are checked before the first    *)
(* copy.                                                                   *)
LEMMA ReadClassStep ==
  ASSUME NullApart, NEW exact, IInv(exact), ReadClass
  PROVE  IInv(exact)'
  <1> DEFINE r == NamesRead(ctx)
             new == [This EXCEPT !.name = r.value[1], !.super_class = r.value[2],
                                 !.source_file = r.value[3]]
             took == r.took
  <1>1. pc = "class" /\ pc \in ClassSteps
    BY DEF ReadClass, ClassSteps
  <1>2. Common /\ AtReading(exact) /\ ProtosNamed /\ AtClass(exact) /\ StrList(ctx.types) /\ StrList(ctx.strs)
    BY <1>1, ClassFacts DEF AtClass, Loaded
  <1>3. This = ZeroClass
    BY <1>1, <1>2 DEF AtClass
  <1>4. /\ IsResult(r)
        /\ r.ok => /\ r.value[1] \in Strs /\ r.value[2] \in Tokens \cup {NULL}
                   /\ r.value[3] \in Tokens \cup {NULL}
                   /\ Paid(r.took, FreeRefs(<<r.value[1], r.value[2], r.value[3]>>), exact)
    BY <1>2, NamesPay
  <1>5. ReadFrame /\ class' = class /\ members' \in Nat /\ idx' \in Nat /\ members' = members /\ idx' = idx
    BY Counters DEF ReadClass, ReadFrame
  <1>6. CASE r.ok
    <2>1. ClassSet(ctx, ctx', class, new) /\ HoldsMore(took) /\ pc' = "directory"
      BY <1>6 DEF ReadClass, SetClass, ClassSet, HoldsMore, Acquire, NamesRead
    <2> HIDE DEF r
    <2> DEFINE a == r.value[1]
               b == r.value[2]
               d == r.value[3]
    <2>2. new = [ZeroClass EXCEPT !.name = a, !.super_class = b, !.source_file = d]
      BY <1>3
    <2>3. a \in Strs /\ b \in Tokens \cup {NULL} /\ d \in Tokens \cup {NULL} /\ Paid(took, FreeRefs(<<a, b, d>>), exact)
      BY <1>4, <1>6
    <2> HIDE DEF a, b, d, new, took
    <2>4. /\ ClassParts(new) /\ new.name # NULL
          /\ \A part \in PartNames : new[part] = NULL
          /\ took \in Seq(Tokens)
          /\ GrowsBy(FreeClass(This), FreeClass(new), took, exact)
      <3>1. Named(new, a, b, d)
        BY <2>2 DEF Named
      <3>2. /\ ClassParts(new) /\ new.name # NULL
            /\ \A part \in PartNames : new[part] = NULL
            /\ took \in Seq(Tokens)
            /\ GrowsBy(FreeClass(ZeroClass), FreeClass(new), took, exact)
        BY <2>3, <3>1, NamedClass
      <3> QED
        BY <1>3, <3>2
    <2>5. Unread(pc') \subseteq PartNames /\ pc' \in ClassSteps \ {"class"} /\ pc' \notin MemberLists
      BY <2>1 DEF Unread, PartNames, ClassSteps, MemberLists
    <2> QED
      BY <1>1, <1>5, <2>1, <2>4, <2>5, ClassStep
  <1>7. CASE ~r.ok
    <2>1. ctx' = ctx /\ HoldsMore(<< >>) /\ pc' = "failed"
      BY <1>7 DEF ReadClass, Acquire, HoldsMore, Failed, Result, NamesRead
    <2>2. AtReading(exact)' /\ ProtosNamed' /\ IsABag(held')
      BY <1>2, <1>5, <2>1, NothingRead
    <2>3. Common'
      <3>1. pc' \in Steps \cup MemberLists /\ Context(ctx') /\ class' \in 0..Len(file.classes) + 1
        BY <1>2, <1>5, <2>1 DEF Common, Steps
      <3> QED
        BY <1>2, <1>5, <2>2, <3>1, CommonStep
    <2> QED
      BY <2>1, <2>2, <2>3, AtFailed
  <1> QED
    BY <1>6, <1>7

(* The annotations of a member that the directory left, or none.           *)
TakenFree(a, free, took) ==
  free \in Seq(Tokens) /\ took \in Seq(Tokens) /\ a \in Seq(Tokens)
  /\ \A x : Occurrences(free, x) = Occurrences(a, x) + Occurrences(took, x)
(* A list that is taken over keeps what it holds; a new one holds what was *)
(* acquired.                                                               *)
LEMMA TakenEither ==
  /\ \A b \in Seq(Tokens) : TakenFree(<< >>, b, b)
  /\ \A a \in Seq(Tokens) : TakenFree(a, a, << >>)
  <1>1. ASSUME NEW b \in Seq(Tokens), NEW x
        PROVE  /\ Occurrences(b, x) = Occurrences(<< >>, x) + Occurrences(b, x)
               /\ Occurrences(b, x) = Occurrences(b, x) + Occurrences(<< >>, x)
    <2> DEFINE n == Occurrences(b, x)
               z == Occurrences(<< >>, x)
    <2>1. n \in Nat /\ z = 0
      BY OccNat, OccEmpty
    <2> HIDE DEF n, z
    <2>2. n = z + n /\ n = n + z
      BY <2>1
    <2> QED
      BY <2>2 DEF n, z
  <1> QED
    BY <1>1, NoTokens DEF TakenFree
(* A list of two tokens.                                                   *)
LEMMA TwoTokens ==
  ASSUME NEW a \in Tokens, NEW b \in Tokens
  PROVE  <<a>> \o <<b>> = <<a, b>> /\ <<a, b>> \in Seq(Tokens)
  <1> DEFINE s == <<a>>
             t == s \o <<b>>
  <1>1. s \in Seq(Tokens) /\ Len(s) = 1 /\ s[1] = a
    OBVIOUS
  <1> HIDE DEF s
  <1>2. t \in Seq(Tokens) /\ Len(t) = Len(s) + 1 /\ t[Len(s) + 1] = b /\ \A i \in 1..Len(s) : t[i] = s[i]
    BY <1>1, OneMore
  <1> HIDE DEF t
  <1>3. t = <<a, b>>
    BY <1>1, <1>2
  <1> QED
    BY <1>2, <1>3 DEF t, s
(* A member takes the annotations left for it in the section, or gets an   *)
(* empty list.                                                             *)
LEMMA TakenAnnotations ==
  ASSUME NullApart, NEW slot, FreeAnnotations(slot) \in Seq(Tokens),
         NEW t, t = Taken(slot, "annotations")
  PROVE  TakenFree(FreeAnnotations(slot), FreeAnnotations(t.value), t.took)
  <1>1. CASE slot = NULL
    <2>1. t.value = << >> /\ t.took = <<Block("annotations")>>
      BY <1>1 DEF Taken, Done, Result
    <2>2. FreeAnnotations(slot) = << >>
      BY <1>1 DEF FreeAnnotations, FreeArray
    <2>3. FreeAnnotations(<< >>) = <<Block("annotations")>> /\ <<Block("annotations")>> \in Seq(Tokens)
      BY EmptyParts
    <2> QED
      BY <2>1, <2>2, <2>3, TakenEither
  <1>2. CASE slot # NULL
    <2>1. t.value = slot /\ t.took = << >>
      BY <1>2 DEF Taken, Done, Result
    <2> QED
      BY <2>1, TakenEither
  <1> QED
    BY <1>1, <1>2

(* The same for the annotations of parameters.                             *)
LEMMA TakenParameters ==
  ASSUME NullApart, NEW slot, FreeParameterAnnotations(slot) \in Seq(Tokens),
         NEW t, t = Taken(slot, "parameter_annotations")
  PROVE  TakenFree(FreeParameterAnnotations(slot), FreeParameterAnnotations(t.value), t.took)
  <1>1. CASE slot = NULL
    <2>1. t.value = << >> /\ t.took = <<Block("parameter_annotations")>>
      BY <1>1 DEF Taken, Done, Result
    <2>2. FreeParameterAnnotations(slot) = << >>
      BY <1>1 DEF FreeParameterAnnotations, FreeArray
    <2>3. FreeParameterAnnotations(<< >>) = <<Block("parameter_annotations")>> /\ <<Block("parameter_annotations")>> \in Seq(Tokens)
      BY EmptyParts
    <2> QED
      BY <2>1, <2>2, <2>3, TakenEither
  <1>2. CASE slot # NULL
    <2>1. t.value = slot /\ t.took = << >>
      BY <1>2 DEF Taken, Done, Result
    <2> QED
      BY <2>1, TakenEither
  <1> QED
    BY <1>1, <1>2

(* A field takes its strings and its annotations over from the section.    *)
FieldMade(raw, fld, nr, took) ==
  /\ fld = [type |-> raw.type, name |-> raw.name,
            annotations |-> Taken(raw.annotations, "annotations").value]
  /\ nr = [raw EXCEPT !.annotations = NULL]
  /\ took = <<raw.type, raw.name>> \o Taken(raw.annotations, "annotations").took
(* A field together with its entry of the section holds what the entry     *)
(* held and what was acquired.                                             *)
LEMMA FieldTaken ==
  ASSUME NullApart, NEW raw, RawFieldParts(raw), NEW fld, NEW nr, NEW took, FieldMade(raw, fld, nr, took)
  PROVE  /\ fld.name # NULL /\ FreeField(fld) \in Seq(Tokens) /\ took \in Seq(Tokens)
         /\ RawFieldParts(nr) /\ nr.annotations = NULL
         /\ FreeRawField(raw) \in Seq(Tokens) /\ FreeRawField(nr) \in Seq(Tokens)
         /\ \A x : Occurrences(FreeField(fld), x) + Occurrences(FreeRawField(nr), x)
                     = Occurrences(FreeRawField(raw), x) + Occurrences(took, x)
  <1> DEFINE dc == raw.defining_class
             ty == raw.type
             na == raw.name
             an == raw.annotations
             t == Taken(an, "annotations")
  <1>1. /\ raw = [defining_class |-> dc, type |-> ty, name |-> na, annotations |-> an]
        /\ dc \in Tokens /\ ty \in Tokens /\ na \in Tokens /\ dc \in Strs /\ ty \in Strs /\ na \in Strs
        /\ FreeAnnotations(an) \in Seq(Tokens)
    BY RefTokens DEF RawFieldParts
  <1>2. /\ fld = [type |-> ty, name |-> na, annotations |-> t.value]
        /\ nr = [raw EXCEPT !.annotations = NULL]
        /\ took = <<ty, na>> \o t.took
    BY DEF FieldMade
  <1> HIDE DEF dc, ty, na, an
  <1>3. nr = [defining_class |-> dc, type |-> ty, name |-> na, annotations |-> NULL]
    BY <1>1, <1>2
  <1>4. TakenFree(FreeAnnotations(an), FreeAnnotations(t.value), t.took)
    BY <1>1, TakenAnnotations
  <1> DEFINE tv == t.value
             tt == t.took
  <1>5. fld.type = ty /\ fld.name = na /\ fld.annotations = tv /\ took = <<ty, na>> \o tt
        /\ TakenFree(FreeAnnotations(an), FreeAnnotations(tv), tt)
    BY <1>2, <1>4
  <1> HIDE DEF t, tv, tt
  <1>6. nr.defining_class = dc /\ nr.type = ty /\ nr.name = na /\ nr.annotations = NULL
    BY <1>3
  <1>7. FreeAnnotations(NULL) = << >>
    BY DEF FreeAnnotations, FreeArray
  <1>8. RawFieldParts(nr)
    BY <1>1, <1>3, <1>6, <1>7, NoTokens DEF RawFieldParts
  <1> DEFINE refs == FreeRefs(<<ty, na>>)
             rr == FreeRefs(<<dc, na, ty>>)
             fa == FreeAnnotations(an)
             fv == FreeAnnotations(tv)
  <1>9. refs \in Seq(Tokens) /\ rr \in Seq(Tokens) /\ refs = <<ty, na>>
    <2>0. dc \in Tokens \cup {NULL} /\ ty \in Tokens \cup {NULL} /\ na \in Tokens \cup {NULL}
      BY <1>1
    <2>1. refs = FreeRef(ty) \o FreeRef(na)
      BY <2>0, FreeRefsTwo
    <2>2. rr = (FreeRef(dc) \o FreeRef(na)) \o FreeRef(ty)
      BY <2>0, FreeRefsThree
    <2>3. FreeRef(ty) = <<ty>> /\ FreeRef(na) = <<na>> /\ FreeRef(dc) = <<dc>>
      BY <1>1, FreeRefFacts
    <2>4. <<ty>> \o <<na>> = <<ty, na>>
      BY <1>1, TwoTokens
    <2>5. <<ty>> \in Seq(Tokens) /\ <<na>> \in Seq(Tokens) /\ <<dc>> \in Seq(Tokens)
      BY <1>1
    <2>6. FreeRef(ty) \in Seq(Tokens) /\ FreeRef(na) \in Seq(Tokens) /\ FreeRef(dc) \in Seq(Tokens)
      BY <2>3, <2>5
    <2>7. rr \in Seq(Tokens)
      <3> HIDE DEF rr
      <3> QED
        BY <2>2, <2>6, Chain3
    <2>8. refs = <<ty, na>>
      <3> HIDE DEF refs
      <3> QED
        BY <2>1, <2>3, <2>4
    <2>9. <<ty, na>> \in Seq(Tokens)
      BY <1>1, TwoTokens
    <2> QED
      BY <2>7, <2>8, <2>9
  <1>10. /\ FreeField(fld) = fv \o refs
         /\ FreeRawField(raw) = rr \o fa
         /\ FreeRawField(nr) = rr
         /\ took = refs \o tt
    <2>1. rr \o << >> = rr
      <3>1. rr \in Seq(Tokens)
        BY <1>9
      <3> HIDE DEF rr
      <3> QED
        BY <3>1
    <2> QED
      BY <1>1, <1>5, <1>6, <1>7, <1>9, <2>1 DEF FreeField, FreeRawField, dc, ty, na, an
  <1>11. fv \in Seq(Tokens) /\ tt \in Seq(Tokens) /\ fa \in Seq(Tokens)
         /\ \A x : Occurrences(fv, x) = Occurrences(fa, x) + Occurrences(tt, x)
    BY <1>5 DEF TakenFree
  <1> HIDE DEF refs, rr, fa, fv
  <1>20. fv \in Seq(Tokens) /\ tt \in Seq(Tokens) /\ fa \in Seq(Tokens) /\ refs \in Seq(Tokens) /\ rr \in Seq(Tokens)
         /\ << >> \in Seq(Tokens)
    BY <1>9, <1>11, NoTokens
  <1>12. ASSUME NEW x
         PROVE  Occurrences(FreeField(fld), x) + Occurrences(FreeRawField(nr), x)
                  = Occurrences(FreeRawField(raw), x) + Occurrences(took, x)
    <2>1. /\ Occurrences(FreeField(fld), x) = Occurrences(fv, x) + Occurrences(refs, x)
          /\ Occurrences(FreeRawField(raw), x) = Occurrences(rr, x) + Occurrences(fa, x)
          /\ Occurrences(FreeRawField(nr), x) = Occurrences(rr, x)
          /\ Occurrences(took, x) = Occurrences(refs, x) + Occurrences(tt, x)
      <3>1. FreeField(fld) = fv \o refs /\ FreeRawField(raw) = rr \o fa /\ FreeRawField(nr) = rr
            /\ took = refs \o tt
        BY <1>10
      <3>2. /\ Occurrences(fv \o refs, x) = Occurrences(fv, x) + Occurrences(refs, x)
            /\ Occurrences(rr \o fa, x) = Occurrences(rr, x) + Occurrences(fa, x)
            /\ Occurrences(refs \o tt, x) = Occurrences(refs, x) + Occurrences(tt, x)
        BY <1>20, OccSum
      <3> QED
        BY <3>1, <3>2
    <2>2. /\ Occurrences(fv, x) \in Nat /\ Occurrences(refs, x) \in Nat /\ Occurrences(rr, x) \in Nat
          /\ Occurrences(fa, x) \in Nat /\ Occurrences(tt, x) \in Nat
      BY <1>9, <1>11, OccNat
    <2> QED
      BY <1>11, <2>1, <2>2
  <1>13. FreeField(fld) \in Seq(Tokens) /\ took \in Seq(Tokens) /\ FreeRawField(raw) \in Seq(Tokens)
         /\ FreeRawField(nr) \in Seq(Tokens)
    BY <1>10, <1>20, OccSum
  <1>14. fld.name # NULL
    BY <1>1, <1>5, NotNull
  <1> QED
    BY <1>6, <1>8, <1>12, <1>13, <1>14

(* A method takes its name, its prototype and its annotations over, and    *)
(* adds its code.                                                          *)
FreeBody(code) == IF code = NULL THEN << >> ELSE FreeCode(code) \o <<Block("code")>>

(* A method made of its entry in the table and its code.                   *)
MethodMade(raw, code, mtd, nr, took) ==
  /\ mtd = [name |-> raw.name, prototype |-> raw.prototype,
            annotations |-> Taken(raw.annotations, "annotations").value,
            parameter_annotations |-> Taken(raw.parameter_annotations, "parameter_annotations").value,
            code_body |-> code.value]
  /\ nr = [raw EXCEPT !.annotations = NULL, !.parameter_annotations = NULL]
  /\ took = (<<raw.name, raw.prototype>> \o Taken(raw.annotations, "annotations").took
               \o Taken(raw.parameter_annotations, "parameter_annotations").took) \o code.took
(* A method together with its entry of the section holds what the entry    *)
(* held and what was acquired; no more than that when its code was not     *)
(* read whole.                                                             *)
LEMMA MethodTaken ==
  ASSUME NullApart, NEW exact, NEW raw, RawMethodParts(raw), NEW code, Pays(code, FreeBody(code.value), exact),
         NEW mtd, NEW nr, NEW took, MethodMade(raw, code, mtd, nr, took)
  PROVE  /\ mtd.prototype # NULL /\ FreeMethod(mtd) \in Seq(Tokens) /\ took \in Seq(Tokens)
         /\ RawMethodParts(nr) /\ nr.annotations = NULL /\ nr.parameter_annotations = NULL
         /\ FreeRawMethod(raw) \in Seq(Tokens) /\ FreeRawMethod(nr) \in Seq(Tokens)
         /\ \A x : Occurrences(FreeMethod(mtd), x) + Occurrences(FreeRawMethod(nr), x)
                     <= Occurrences(FreeRawMethod(raw), x) + Occurrences(took, x)
         /\ exact => \A x : Occurrences(FreeMethod(mtd), x) + Occurrences(FreeRawMethod(nr), x)
                             = Occurrences(FreeRawMethod(raw), x) + Occurrences(took, x)
  <1> DEFINE dc == raw.defining_class
             pr == raw.prototype
             na == raw.name
             an == raw.annotations
             pn == raw.parameter_annotations
             t == Taken(an, "annotations")
             u == Taken(pn, "parameter_annotations")
  <1>1. /\ raw = [defining_class |-> dc, name |-> na, prototype |-> pr, annotations |-> an,
                  parameter_annotations |-> pn]
        /\ dc \in Tokens /\ pr \in Tokens /\ na \in Tokens /\ dc \in Strs /\ pr \in Protos /\ na \in Strs
        /\ FreeAnnotations(an) \in Seq(Tokens) /\ FreeParameterAnnotations(pn) \in Seq(Tokens)
    BY RefTokens DEF RawMethodParts
  <1>2. /\ mtd = [name |-> na, prototype |-> pr, annotations |-> t.value,
                  parameter_annotations |-> u.value, code_body |-> code.value]
        /\ nr = [raw EXCEPT !.annotations = NULL, !.parameter_annotations = NULL]
        /\ took = ((<<na, pr>> \o t.took) \o u.took) \o code.took
    BY DEF MethodMade
  <1> HIDE DEF dc, pr, na, an, pn
  <1>3. nr = [defining_class |-> dc, name |-> na, prototype |-> pr, annotations |-> NULL,
              parameter_annotations |-> NULL]
    BY <1>1, <1>2
  <1>4. TakenFree(FreeAnnotations(an), FreeAnnotations(t.value), t.took)
    BY <1>1, TakenAnnotations
  <1>40. TakenFree(FreeParameterAnnotations(pn), FreeParameterAnnotations(u.value), u.took)
    BY <1>1, TakenParameters
  <1> DEFINE tv == t.value
             tt == t.took
             uv == u.value
             ut == u.took
             cv == code.value
             ct == code.took
  <1>5. /\ mtd.prototype = pr /\ mtd.name = na /\ mtd.annotations = tv
        /\ mtd.parameter_annotations = uv /\ mtd.code_body = cv
        /\ took = ((<<na, pr>> \o tt) \o ut) \o ct
        /\ TakenFree(FreeAnnotations(an), FreeAnnotations(tv), tt)
        /\ TakenFree(FreeParameterAnnotations(pn), FreeParameterAnnotations(uv), ut)
        /\ Paid(ct, FreeBody(cv), exact)
    BY <1>2, <1>4, <1>40 DEF Pays
  <1> HIDE DEF t, u, tv, tt, uv, ut, cv, ct
  <1>6. /\ nr.defining_class = dc /\ nr.prototype = pr /\ nr.name = na /\ nr.annotations = NULL
        /\ nr.parameter_annotations = NULL
    BY <1>3
  <1>7. FreeAnnotations(NULL) = << >> /\ FreeParameterAnnotations(NULL) = << >>
    BY DEF FreeAnnotations, FreeParameterAnnotations, FreeArray
  <1>8. RawMethodParts(nr)
    BY <1>1, <1>3, <1>6, <1>7, NoTokens DEF RawMethodParts
  <1> DEFINE refs == FreeRefs(<<na, pr>>)
             rr == FreeRefs(<<dc, na, pr>>)
             fa == FreeAnnotations(an)
             fv == FreeAnnotations(tv)
             pa == FreeParameterAnnotations(pn)
             pv == FreeParameterAnnotations(uv)
             fb == FreeBody(cv)
  <1>9. refs \in Seq(Tokens) /\ rr \in Seq(Tokens) /\ refs = <<na, pr>>
    <2>0. dc \in Tokens \cup {NULL} /\ pr \in Tokens \cup {NULL} /\ na \in Tokens \cup {NULL}
      BY <1>1
    <2>1. refs = FreeRef(na) \o FreeRef(pr)
      BY <2>0, FreeRefsTwo
    <2>2. rr = (FreeRef(dc) \o FreeRef(na)) \o FreeRef(pr)
      BY <2>0, FreeRefsThree
    <2>3. FreeRef(pr) = <<pr>> /\ FreeRef(na) = <<na>> /\ FreeRef(dc) = <<dc>>
      BY <1>1, FreeRefFacts
    <2>4. <<na>> \o <<pr>> = <<na, pr>>
      BY <1>1, TwoTokens
    <2>5. <<pr>> \in Seq(Tokens) /\ <<na>> \in Seq(Tokens) /\ <<dc>> \in Seq(Tokens)
      BY <1>1
    <2>6. FreeRef(pr) \in Seq(Tokens) /\ FreeRef(na) \in Seq(Tokens) /\ FreeRef(dc) \in Seq(Tokens)
      BY <2>3, <2>5
    <2>7. rr \in Seq(Tokens)
      <3> HIDE DEF rr
      <3> QED
        BY <2>2, <2>6, Chain3
    <2>8. refs = <<na, pr>>
      <3> HIDE DEF refs
      <3> QED
        BY <2>1, <2>3, <2>4
    <2>9. <<na, pr>> \in Seq(Tokens)
      BY <1>1, TwoTokens
    <2> QED
      BY <2>7, <2>8, <2>9
  <1>10. /\ FreeMethod(mtd) = ((fb \o fv) \o pv) \o refs
         /\ FreeRawMethod(raw) = (rr \o fa) \o pa
         /\ FreeRawMethod(nr) = rr
         /\ took = ((refs \o tt) \o ut) \o ct
    <2>1. rr \o << >> = rr
      <3>1. rr \in Seq(Tokens)
        BY <1>9
      <3> HIDE DEF rr
      <3> QED
        BY <3>1
    <2> QED
      BY <1>1, <1>5, <1>6, <1>7, <1>9, <2>1 DEF FreeMethod, FreeRawMethod, FreeBody, dc, pr, na, an, pn
  <1>11. /\ fv \in Seq(Tokens) /\ tt \in Seq(Tokens) /\ fa \in Seq(Tokens)
         /\ pv \in Seq(Tokens) /\ ut \in Seq(Tokens) /\ pa \in Seq(Tokens)
         /\ fb \in Seq(Tokens) /\ ct \in Seq(Tokens)
         /\ \A x : Occurrences(fv, x) = Occurrences(fa, x) + Occurrences(tt, x)
         /\ \A x : Occurrences(pv, x) = Occurrences(pa, x) + Occurrences(ut, x)
         /\ \A x : Occurrences(fb, x) <= Occurrences(ct, x)
         /\ exact => \A x : Occurrences(fb, x) = Occurrences(ct, x)
    BY <1>5 DEF TakenFree, Paid
  <1> HIDE DEF refs, rr, fa, fv, pa, pv, fb
  <1>20. /\ fv \in Seq(Tokens) /\ tt \in Seq(Tokens) /\ fa \in Seq(Tokens)
         /\ pv \in Seq(Tokens) /\ ut \in Seq(Tokens) /\ pa \in Seq(Tokens)
         /\ fb \in Seq(Tokens) /\ ct \in Seq(Tokens) /\ refs \in Seq(Tokens) /\ rr \in Seq(Tokens)
         /\ << >> \in Seq(Tokens)
    BY <1>9, <1>11, NoTokens
  <1>12. ASSUME NEW x
         PROVE  /\ Occurrences(FreeMethod(mtd), x) + Occurrences(FreeRawMethod(nr), x)
                     <= Occurrences(FreeRawMethod(raw), x) + Occurrences(took, x)
                /\ exact => Occurrences(FreeMethod(mtd), x) + Occurrences(FreeRawMethod(nr), x)
                              = Occurrences(FreeRawMethod(raw), x) + Occurrences(took, x)
    <2> DEFINE nfv == Occurrences(fv, x)
               nfa == Occurrences(fa, x)
               ntt == Occurrences(tt, x)
               npv == Occurrences(pv, x)
               npa == Occurrences(pa, x)
               nut == Occurrences(ut, x)
               nfb == Occurrences(fb, x)
               nct == Occurrences(ct, x)
               nrf == Occurrences(refs, x)
               nrr == Occurrences(rr, x)
    <2>1. Occurrences(FreeMethod(mtd), x) = nfb + nfv + npv + nrf
      <3>1. Occurrences(((fb \o fv) \o pv) \o refs, x) = nfb + nfv + npv + nrf
        BY <1>20, Chain4
      <3> QED
        BY <1>10, <3>1
    <2>2. Occurrences(FreeRawMethod(raw), x) = nrr + nfa + npa
      BY <1>9, <1>10, <1>11, Chain3
    <2>3. Occurrences(FreeRawMethod(nr), x) = nrr
      BY <1>10
    <2>4. Occurrences(took, x) = nrf + ntt + nut + nct
      <3>1. Occurrences(((refs \o tt) \o ut) \o ct, x) = nrf + ntt + nut + nct
        BY <1>20, Chain4
      <3> QED
        BY <1>10, <3>1
    <2>5. /\ nfv \in Nat /\ nfa \in Nat /\ ntt \in Nat /\ npv \in Nat /\ npa \in Nat /\ nut \in Nat
          /\ nfb \in Nat /\ nct \in Nat /\ nrf \in Nat /\ nrr \in Nat
      BY <1>9, <1>11, OccNat
    <2>6. nfv = nfa + ntt /\ npv = npa + nut /\ nfb <= nct /\ (exact => nfb = nct)
      BY <1>11
    <2> HIDE DEF nfv, nfa, ntt, npv, npa, nut, nfb, nct, nrf, nrr
    <2>7. (nfb + nfv + npv + nrf) + nrr <= (nrr + nfa + npa) + (nrf + ntt + nut + nct)
      BY <2>5, <2>6
    <2>8. nfb = nct => (nfb + nfv + npv + nrf) + nrr = (nrr + nfa + npa) + (nrf + ntt + nut + nct)
      BY <2>5, <2>6
    <2> QED
      BY <2>1, <2>2, <2>3, <2>4, <2>6, <2>7, <2>8
  <1>13. /\ FreeMethod(mtd) \in Seq(Tokens) /\ took \in Seq(Tokens)
         /\ FreeRawMethod(raw) \in Seq(Tokens) /\ FreeRawMethod(nr) \in Seq(Tokens)
    BY <1>10, <1>20, Chain3, Chain4
  <1>14. mtd.prototype # NULL
    BY <1>1, <1>5, NotNull
  <1> QED
    BY <1>6, <1>8, <1>12, <1>13, <1>14

(* A step that changes the class, and what the sections hold for it.       *)
NextContext(c, d, f, j, new, took, exact) ==
  /\ Context(d) /\ SameTables(c, d) /\ ChangesBy(c, d, took, exact)
  /\ FreeRawFields(d) \in Seq(Tokens) /\ FreeRawMethods(d) \in Seq(Tokens) /\ FreeClasses(d) \in Seq(Tokens)
  /\ Updated(c.classes, d.classes, j, new) /\ Loaded(d, f)
(* A step within a class that may change the entries of the sections too.  *)
LEMMA ContextStep ==
  ASSUME NullApart, NEW exact, IInv(exact), pc \in ClassSteps \ {"class"},
         NEW new, ClassParts(new), new.name # NULL, NEW took \in Seq(Tokens),
         NextContext(ctx, ctx', file, class, new, took, exact),
         HoldsMore(took), ReadFrame, class' = class, members' \in Nat, idx' \in Nat,
         pc' = "failed" \/ pc' \in ClassSteps \ {"class", "directory"},
         pc' \in ClassSteps => \A part \in Unread(pc') : new[part] = NULL,
         exact => SlotsNamed(ctx', file, class),
         pc' \in MemberLists => AtMember'
  PROVE  IInv(exact)'
  <1>1. Common /\ AtReading(exact) /\ ProtosNamed /\ AtClass(exact)
    BY ClassFacts
  <1>2. /\ Context(ctx) /\ class \in 1..Len(file.classes)
        /\ class \in 1..Len(ctx.classes) /\ IsList(ctx.classes) /\ Len(ctx.classes) = Len(file.classes)
        /\ Len(file.classes) \in Nat /\ class \in Nat
    BY AtList
  <1> DEFINE d == ctx'
             b == held (+) BagOf(took)
  <1>3. /\ Context(d) /\ SameTables(ctx, d) /\ ChangesBy(ctx, d, took, exact)
        /\ FreeRawFields(d) \in Seq(Tokens) /\ FreeRawMethods(d) \in Seq(Tokens) /\ FreeClasses(d) \in Seq(Tokens)
        /\ Updated(ctx.classes, d.classes, class, new) /\ Loaded(d, file)
    BY DEF NextContext
  <1> HIDE DEF d
  <1>4. Parts(d, metadata, protos) /\ Owes(Debt(d, metadata, protos), b, exact)
    <2>1. Parts(ctx, metadata, protos) /\ Owes(Debt(ctx, metadata, protos), held, exact)
      BY <1>1 DEF AtReading
    <2> QED
      BY <1>3, <2>1, ContextChange
  <1>5. held' = b /\ IsABag(b)
    BY <1>4 DEF HoldsMore, Owes
  <1>6. AtReading(exact)'
    BY <1>4, <1>5 DEF AtReading, ReadFrame, d
  <1>7. ProtosNamed'
    BY <1>1, <1>3 DEF ProtosNamed, ReadFrame, SameTables, d
  <1>8. Common'
    <2>1. pc' \in Steps \cup MemberLists
      BY DEF Steps, ClassSteps, MemberLists
    <2>2. Context(ctx') /\ IsABag(held') /\ class' \in 0..Len(file.classes) + 1
      BY <1>2, <1>3, <1>5 DEF d
    <2> QED
      BY <1>1, <2>1, <2>2, CommonStep
  <1>9. CASE pc' = "failed"
    BY <1>6, <1>7, <1>8, <1>9, AtFailed
  <1>10. CASE pc' \in ClassSteps \ {"class", "directory"}
    <2>1. IsList(d.classes) /\ Len(d.classes) = Len(ctx.classes) /\ d.classes[class] = new
          /\ \A i \in 1..Len(ctx.classes) : i # class => d.classes[i] = ctx.classes[i]
      BY <1>3 DEF Updated
    <2>2. ClassesRead(d.classes, class, Len(file.classes))
      <3>1. ClassesRead(ctx.classes, class, Len(file.classes))
        BY <1>1 DEF AtClass
      <3>2. ASSUME NEW i \in 1..Len(file.classes)
            PROVE  ClassParts(d.classes[i]) /\ (i < class => d.classes[i].name # NULL)
                   /\ (class < i => d.classes[i] = ZeroClass)
        <4>1. CASE i = class
          BY <1>2, <2>1, <4>1
        <4>2. CASE i # class
          BY <1>2, <2>1, <3>1, <4>2 DEF ClassesRead
        <4> QED
          BY <4>1, <4>2
      <3> QED
        BY <1>2, <2>1, <3>2 DEF ClassesRead
    <2>3. This' = new
      BY <2>1 DEF This, d
    <2>4. AtClass(exact)'
      BY <1>2, <1>3, <1>10, <2>2, <2>3 DEF AtClass, ReadFrame, d
    <2> QED
      BY <1>6, <1>7, <1>8, <1>10, <2>4, AtClassStep
  <1> QED
    BY <1>9, <1>10

(* A member of a list of the class, and the entry it was made of.          *)
FieldSet(c, d, j, part, k, fld, at) ==
  d = [c EXCEPT !.classes[j][part][k] = fld, !.fields[at].annotations = NULL]

(* The context d is c with a member: it has the annotations of its entry   *)
(* in the table, which no longer points to them.                           *)
FieldSplit(c, d, j, part, k, fld, at) ==
  /\ Context(d) /\ SameTables(c, d) /\ d.methods = c.methods
  /\ d.classes = [c.classes EXCEPT ![j] = [c.classes[j] EXCEPT ![part] =
                    [c.classes[j][part] EXCEPT ![k] = fld]]]
  /\ d.fields = [c.fields EXCEPT ![at] = [c.fields[at] EXCEPT !.annotations = NULL]]
(* The parts of the context after a field was read.                        *)
LEMMA FieldSetFacts ==
  ASSUME NEW c, Context(c), NEW j, NEW part, NEW k, NEW fld, NEW at, NEW d,
         FieldSet(c, d, j, part, k, fld, at)
  PROVE  FieldSplit(c, d, j, part, k, fld, at)
  <1> DEFINE cs == c.classes
             f1 == c.strs
             f2 == c.types
             f3 == c.protos
             f4 == c.fields
             f5 == c.methods
  <1>1. c = [strs |-> f1, types |-> f2, protos |-> f3, fields |-> f4, methods |-> f5, classes |-> cs]
    BY DEF Context
  <1>2. d = [c EXCEPT !.classes[j][part][k] = fld, !.fields[at].annotations = NULL]
    BY DEF FieldSet
  <1> HIDE DEF f1, f2, f3, f4, f5, cs
  <1> DEFINE ds == [cs EXCEPT ![j] = [cs[j] EXCEPT ![part] = [cs[j][part] EXCEPT ![k] = fld]]]
             fs == [f4 EXCEPT ![at] = [f4[at] EXCEPT !.annotations = NULL]]
  <1>3. d = [strs |-> f1, types |-> f2, protos |-> f3, fields |-> fs, methods |-> f5, classes |-> ds]
    BY <1>1, <1>2
  <1>30. c.classes = cs /\ c.fields = f4
    BY <1>1
  <1>31. /\ ds = [c.classes EXCEPT ![j] = [c.classes[j] EXCEPT ![part] =
                           [c.classes[j][part] EXCEPT ![k] = fld]]]
         /\ fs = [c.fields EXCEPT ![at] = [c.fields[at] EXCEPT !.annotations = NULL]]
    BY <1>30
  <1> HIDE DEF ds, fs
  <1>4. /\ d.strs = f1 /\ d.types = f2 /\ d.protos = f3 /\ d.fields = fs /\ d.methods = f5
        /\ d.classes = ds
    BY <1>3
  <1>5. d = [strs |-> d.strs, types |-> d.types, protos |-> d.protos, fields |-> d.fields,
             methods |-> d.methods, classes |-> d.classes]
    BY <1>3, <1>4
  <1>6. Context(d) /\ SameTables(c, d) /\ d.methods = c.methods
    BY <1>4, <1>5 DEF Context, SameTables, f1, f2, f3, f5
  <1> QED
    BY <1>4, <1>6, <1>31 DEF FieldSplit

(* A method of the class has been set and its entry cleared.               *)
MethodSet(c, d, j, part, k, mtd, at) ==
  d = [c EXCEPT !.classes[j][part][k] = mtd, !.methods[at].annotations = NULL,
                !.methods[at].parameter_annotations = NULL]

(* The same for a method.                                                  *)
MethodSplit(c, d, j, part, k, mtd, at) ==
  /\ Context(d) /\ SameTables(c, d) /\ d.fields = c.fields
  /\ d.classes = [c.classes EXCEPT ![j] = [c.classes[j] EXCEPT ![part] =
                    [c.classes[j][part] EXCEPT ![k] = mtd]]]
  /\ d.methods = [c.methods EXCEPT ![at] =
       [c.methods[at] EXCEPT !.annotations = NULL, !.parameter_annotations = NULL]]
(* The parts of the context after a method was read.                       *)
LEMMA MethodSetFacts ==
  ASSUME NEW c, Context(c), NEW j, NEW part, NEW k, NEW mtd, NEW at, at \in DOMAIN c.methods, NEW d,
         MethodSet(c, d, j, part, k, mtd, at)
  PROVE  MethodSplit(c, d, j, part, k, mtd, at)
  <1> DEFINE cs == c.classes
             f1 == c.strs
             f2 == c.types
             f3 == c.protos
             f4 == c.fields
             f5 == c.methods
  <1>1. c = [strs |-> f1, types |-> f2, protos |-> f3, fields |-> f4, methods |-> f5, classes |-> cs]
    BY DEF Context
  <1>2. d = [c EXCEPT !.classes[j][part][k] = mtd, !.methods[at].annotations = NULL,
                      !.methods[at].parameter_annotations = NULL]
    BY DEF MethodSet
  <1>20. at \in DOMAIN f5
    OBVIOUS
  <1> HIDE DEF f1, f2, f3, f4, f5, cs
  <1> DEFINE ds == [cs EXCEPT ![j] = [cs[j] EXCEPT ![part] = [cs[j][part] EXCEPT ![k] = mtd]]]
             m1 == [f5 EXCEPT ![at] = [f5[at] EXCEPT !.annotations = NULL]]
             m2 == [m1 EXCEPT ![at] = [m1[at] EXCEPT !.parameter_annotations = NULL]]
             ms == [f5 EXCEPT ![at] = [f5[at] EXCEPT !.annotations = NULL, !.parameter_annotations = NULL]]
  <1>3. d = [strs |-> f1, types |-> f2, protos |-> f3, fields |-> f4, methods |-> m2, classes |-> ds]
    BY <1>1, <1>2
  <1>21. m1[at] = [f5[at] EXCEPT !.annotations = NULL]
    BY <1>20
  <1>22. m2 = ms
    BY <1>21
  <1>30. c.classes = cs /\ c.methods = f5
    BY <1>1
  <1>31. /\ ds = [c.classes EXCEPT ![j] = [c.classes[j] EXCEPT ![part] =
                           [c.classes[j][part] EXCEPT ![k] = mtd]]]
         /\ ms = [c.methods EXCEPT ![at] =
              [c.methods[at] EXCEPT !.annotations = NULL, !.parameter_annotations = NULL]]
    BY <1>30
  <1> HIDE DEF ds, m1, m2, ms
  <1>4. /\ d.strs = f1 /\ d.types = f2 /\ d.protos = f3 /\ d.fields = f4 /\ d.methods = m2
        /\ d.classes = ds
    BY <1>3
  <1>5. d = [strs |-> d.strs, types |-> d.types, protos |-> d.protos, fields |-> d.fields,
             methods |-> d.methods, classes |-> d.classes]
    BY <1>3, <1>4
  <1>6. Context(d) /\ SameTables(c, d) /\ d.fields = c.fields
    BY <1>4, <1>5 DEF Context, SameTables, f1, f2, f3, f4
  <1> QED
    BY <1>4, <1>6, <1>22, <1>31 DEF MethodSplit

(* What an entry of the section of fields holds is a list of tokens.       *)
LEMMA RawFieldTokens ==
  ASSUME NullApart, NEW fld, RawFieldParts(fld)
  PROVE  FreeRawField(fld) \in Seq(Tokens)
  <1> DEFINE nr == [fld EXCEPT !.annotations = NULL]
             t == Taken(fld.annotations, "annotations")
             f == [type |-> fld.type, name |-> fld.name, annotations |-> t.value]
             took == <<fld.type, fld.name>> \o t.took
  <1>1. FieldMade(fld, f, nr, took)
    BY DEF FieldMade
  <1> HIDE DEF nr, f, took
  <1> QED
    BY <1>1, FieldTaken

(* What an entry of the section of methods holds is a list of tokens.      *)
LEMMA RawMethodTokens ==
  ASSUME NullApart, NEW mtd, RawMethodParts(mtd)
  PROVE  FreeRawMethod(mtd) \in Seq(Tokens)
  <1> DEFINE code == Done(NULL, << >>)
             nr == [mtd EXCEPT !.annotations = NULL, !.parameter_annotations = NULL]
             t == Taken(mtd.annotations, "annotations")
             u == Taken(mtd.parameter_annotations, "parameter_annotations")
             m == [name |-> mtd.name, prototype |-> mtd.prototype, annotations |-> t.value,
                   parameter_annotations |-> u.value, code_body |-> code.value]
             took == (<<mtd.name, mtd.prototype>> \o t.took \o u.took) \o code.took
  <1>1. MethodMade(mtd, code, m, nr, took)
    BY DEF MethodMade
  <1>2. Pays(code, FreeBody(code.value), TRUE)
    <2>1. code.value = NULL
      BY DonePays, NoTokens
    <2>2. FreeBody(code.value) = << >>
      BY <2>1 DEF FreeBody
    <2> QED
      BY <2>2, DonePays, NoTokens
  <1> HIDE DEF nr, m, took, code
  <1> QED
    BY <1>1, <1>2, MethodTaken

(* A field is read, and its entry gives up its annotations.                *)
LEMMA FieldStep ==
  ASSUME NullApart, NEW exact, IInv(exact), pc \in {"static_fields", "instance_fields"}, members < Len(This[pc]),
         NEW at \in 1..Len(ctx.fields), NEW fld, NEW nr, NEW took,
         FieldMade(ctx.fields[at], fld, nr, took), FieldSet(ctx, ctx', class, pc, members + 1, fld, at),
         HoldsMore(took), ReadFrame, class' = class, members' = members + 1, idx' \in Nat, pc' = pc
  PROVE  IInv(exact)'
  <1> DEFINE s == This[pc]
             t == [s EXCEPT ![members + 1] = fld]
             new == [This EXCEPT ![pc] = t]
             cs == ctx.classes
             ds == [cs EXCEPT ![class] = new]
             rs == ctx.fields
             us == [rs EXCEPT ![at] = nr]
             d == ctx'
  <1>1. /\ pc \in ClassSteps \ {"class"} /\ pc \in MemberLists /\ IsFields(pc) /\ pc \in PartNames
        /\ \A v : FreePart(pc, v) = FreeFields(v)
    BY DEF ClassSteps, MemberLists, IsFields, PartNames, FreePart
  <1>2. AtMember /\ AtClass(exact)
    BY <1>1, ClassFacts
  <1>3. /\ Context(ctx) /\ Loaded(ctx, file) /\ class \in 1..Len(file.classes)
        /\ class \in 1..Len(cs) /\ IsList(cs) /\ Len(cs) = Len(file.classes)
        /\ ClassParts(This) /\ This.name # NULL /\ \A part \in Unread(pc) : This[part] = NULL
    BY <1>1, AtList
  <1>4. FieldList(s, members) /\ IsList(s) /\ members + 1 \in 1..Len(s) /\ members \in Nat
    <2>1. FieldList(s, members)
      BY <1>1, <1>2 DEF AtMember
    <2>2. members \in Nat
      BY Counters
    <2>3. IsList(s) /\ Len(s) \in Nat
      BY <2>1 DEF FieldList, IsList
    <2> QED
      BY <2>1, <2>2, <2>3
  <1>5. IsList(rs) /\ Len(rs) = Len(file.fields) /\ \A i \in 1..Len(rs) : RawFieldParts(rs[i])
    BY <1>3 DEF Loaded
  <1>6. RawFieldParts(ctx.fields[at])
    BY <1>5
  <1>7. /\ fld.name # NULL /\ FreeField(fld) \in Seq(Tokens) /\ took \in Seq(Tokens)
        /\ RawFieldParts(nr) /\ nr.annotations = NULL
        /\ FreeRawField(rs[at]) \in Seq(Tokens) /\ FreeRawField(nr) \in Seq(Tokens)
    BY <1>6, FieldTaken
  <1>8. ASSUME NEW x
        PROVE  /\ Occurrences(FreeField(fld), x) + Occurrences(FreeRawField(nr), x)
                     <= Occurrences(FreeRawField(rs[at]), x) + Occurrences(took, x)
               /\ exact => Occurrences(FreeField(fld), x) + Occurrences(FreeRawField(nr), x)
                             = Occurrences(FreeRawField(rs[at]), x) + Occurrences(took, x)
    <2>1. Occurrences(FreeField(fld), x) + Occurrences(FreeRawField(nr), x)
            = Occurrences(FreeRawField(rs[at]), x) + Occurrences(took, x)
      BY <1>6, FieldTaken
    <2>2. Occurrences(FreeField(fld), x) \in Nat /\ Occurrences(FreeRawField(nr), x) \in Nat
      BY <1>7, OccNat
    <2> QED
      BY <2>1, <2>2
  <1>9. Updated(s, t, members + 1, fld)
    BY <1>4, UpdatedExcept
  <1>10. PartSet(This, new, pc, t)
    BY DEF PartSet
  <1>11. /\ d.classes = ds /\ d.fields = us /\ Context(d) /\ SameTables(ctx, d)
         /\ d.methods = ctx.methods
    <2>1. FieldSet(ctx, d, class, pc, members + 1, fld, at)
      OBVIOUS
    <2>2. nr = [ctx.fields[at] EXCEPT !.annotations = NULL]
      BY DEF FieldMade
    <2>3. at \in DOMAIN ctx.fields
      BY <1>5, ListFacts
    <2> HIDE DEF d
    <2>4. FieldSplit(ctx, d, class, pc, members + 1, fld, at)
      BY <1>3, <2>1, <2>3, FieldSetFacts
    <2>5. /\ d.classes = [ctx.classes EXCEPT ![class] = [ctx.classes[class] EXCEPT ![pc] =
                            [ctx.classes[class][pc] EXCEPT ![members + 1] = fld]]]
          /\ d.fields = [ctx.fields EXCEPT ![at] = [ctx.fields[at] EXCEPT !.annotations = NULL]]
          /\ Context(d) /\ SameTables(ctx, d)
          /\ d.methods = ctx.methods
      BY <2>4 DEF FieldSplit
    <2> QED
      BY <2>2, <2>5 DEF This
  <1> HIDE DEF t
  <1>12. /\ FieldList(t, members + 1) /\ Len(t) = Len(s) /\ FreeFields(t) \in Seq(Tokens)
         /\ \A x : Occurrences(FreeFields(t), x) = Occurrences(FreeFields(s), x) + Occurrences(FreeField(fld), x)
    BY <1>4, <1>7, <1>9, FieldsGrow
  <1>13. /\ FreeFields(s) \in Seq(Tokens)
    BY <1>4, FieldsFree
  <1> HIDE DEF new
  <1>14. /\ ClassParts(new) /\ new[pc] = t /\ new.name = This.name
         /\ \A p \in PartNames \ {pc} : new[p] = This[p]
         /\ \A x : Occurrences(FreeClass(new), x) + Occurrences(FreeFields(s), x)
                     = Occurrences(FreeClass(This), x) + Occurrences(FreeFields(t), x)
    <2>1. FreePart(pc, t) \in Seq(Tokens)
      BY <1>1, <1>12
    <2>2. /\ ClassParts(new) /\ new[pc] = t /\ new.name = This.name
          /\ \A p \in PartNames \ {pc} : new[p] = This[p]
          /\ \A x : Occurrences(FreeClass(new), x) + Occurrences(FreePart(pc, This[pc]), x)
                     = Occurrences(FreeClass(This), x) + Occurrences(FreePart(pc, t), x)
      BY <1>1, <1>3, <1>10, <2>1, PartChange
    <2> QED
      BY <1>1, <2>2
  <1>15. Updated(cs, ds, class, new)
    BY <1>3, UpdatedExcept
  <1>16. Updated(rs, us, at, nr)
    BY <1>5, UpdatedExcept
  <1>17. \A i \in 1..Len(cs) : ClassParts(cs[i]) /\ FreeClass(cs[i]) \in Seq(Tokens)
    <2>1. ClassesRead(cs, class, Len(file.classes))
      BY <1>2 DEF AtClass
    <2> QED
      BY <2>1, ClassSum DEF ClassesRead
  <1>18. \A i \in 1..Len(rs) : FreeRawField(rs[i]) \in Seq(Tokens)
    BY <1>5, RawFieldTokens
  <1> HIDE DEF s, cs, rs, ds, us
  <1>19. FreeClass(new) \in Seq(Tokens) /\ FreeClass(This) \in Seq(Tokens) /\ cs[class] = This
    BY <1>3, <1>14, ClassSum DEF cs, This
  <1>20. /\ FreeClassArray(ds) \in Seq(Tokens)
         /\ \A x : Occurrences(FreeClassArray(ds), x) + Occurrences(FreeClass(cs[class]), x)
                     = Occurrences(FreeClassArray(cs), x) + Occurrences(FreeClass(new), x)
    <2>1. IsList(cs) /\ class \in 1..Len(cs)
      BY <1>3 DEF cs
    <2>2. \A i \in 1..Len(cs) : FreeClass(cs[i]) \in Seq(Tokens)
      BY <1>17
    <2> QED
      BY <1>15, <1>19, <2>1, <2>2, ClassesChange
  <1>21. /\ FreeRawFieldArray(us) \in Seq(Tokens)
         /\ \A x : Occurrences(FreeRawFieldArray(us), x) + Occurrences(FreeRawField(rs[at]), x)
                     = Occurrences(FreeRawFieldArray(rs), x) + Occurrences(FreeRawField(nr), x)
    <2>1. IsList(rs) /\ at \in 1..Len(rs)
      BY <1>5 DEF rs
    <2>2. FreeRawField(nr) \in Seq(Tokens)
      BY <1>7
    <2> QED
      BY <1>16, <1>18, <2>1, <2>2, RawFieldsChange
  <1>22. /\ FreeClasses(d) = FreeClassArray(ds) /\ FreeClasses(ctx) = FreeClassArray(cs)
         /\ FreeRawFields(d) = FreeRawFieldArray(us) /\ FreeRawFields(ctx) = FreeRawFieldArray(rs)
         /\ FreeRawMethods(d) = FreeRawMethods(ctx)
    BY <1>11 DEF FreeClasses, FreeClassArray, FreeRawFields, FreeRawFieldArray, FreeRawMethods, cs, rs
  <1>23. /\ FreeRawFields(ctx) \in Seq(Tokens) /\ FreeRawMethods(ctx) \in Seq(Tokens)
         /\ FreeClasses(ctx) \in Seq(Tokens)
    BY <1>1, ClassFacts DEF AtReading, Parts
  <1> HIDE DEF d
  <1>24. ASSUME NEW x
         PROVE  /\ Changing(d, x) <= Changing(ctx, x) + Occurrences(took, x)
                /\ exact => Changing(d, x) = Changing(ctx, x) + Occurrences(took, x)
    <2> DEFINE f == Occurrences(FreeRawMethods(ctx), x)
               q == Occurrences(FreeRawFields(ctx), x)
               q2 == Occurrences(FreeRawFields(d), x)
               k == Occurrences(FreeClasses(ctx), x)
               k2 == Occurrences(FreeClasses(d), x)
               a == Occurrences(took, x)
               u == Occurrences(FreeClass(This), x)
               v == Occurrences(FreeClass(new), x)
               w == Occurrences(FreeField(fld), x)
               fs == Occurrences(FreeFields(s), x)
               ft == Occurrences(FreeFields(t), x)
               y == Occurrences(FreeRawField(nr), x)
               r == Occurrences(FreeRawField(rs[at]), x)
    <2>1. /\ f \in Nat /\ q \in Nat /\ q2 \in Nat /\ k \in Nat /\ k2 \in Nat /\ a \in Nat
      BY <1>7, <1>20, <1>21, <1>22, <1>23, OccNat
    <2>2. u \in Nat /\ v \in Nat /\ w \in Nat /\ fs \in Nat /\ ft \in Nat /\ y \in Nat /\ r \in Nat
      BY <1>7, <1>12, <1>13, <1>19, OccNat
    <2>3. ft = fs + w /\ v + fs = u + ft
      BY <1>12, <1>14
    <2>4. k2 + u = k + v
      BY <1>19, <1>20, <1>22
    <2>5. q2 + r = q + y
      BY <1>21, <1>22
    <2>6. w + y <= r + a /\ (exact => w + y = r + a)
      BY <1>8
    <2>7. Changing(ctx, x) = q + f + k /\ Changing(d, x) = q2 + f + k2
      BY <1>22 DEF Changing
    <2> HIDE DEF f, q, q2, k, k2, a, u, v, w, fs, ft, y, r
    <2>8. v = u + w
      BY <2>2, <2>3
    <2>9. k2 = k + w
      BY <2>1, <2>2, <2>4, <2>8
    <2>10. q2 + k2 <= q + k + a
      BY <2>1, <2>2, <2>5, <2>6, <2>9
    <2>11. w + y = r + a => q2 + k2 = q + k + a
      BY <2>1, <2>2, <2>5, <2>9
    <2>12. exact => q2 + k2 = q + k + a
      BY <2>6, <2>11
    <2> QED
      BY <2>1, <2>7, <2>10, <2>12, SMTT(20) DEF a
  <1>25. ChangesBy(ctx, d, took, exact)
    BY <1>24 DEF ChangesBy
  <1>26. IsList(us) /\ Len(us) = Len(rs) /\ us[at] = nr /\ \A i \in 1..Len(rs) : i # at => us[i] = rs[i]
    BY <1>16 DEF Updated
  <1>27. Loaded(d, file)
    <2>1. \A i \in 1..Len(us) : RawFieldParts(us[i])
      <3>1. ASSUME NEW i \in 1..Len(us) PROVE RawFieldParts(us[i])
        <4>1. CASE i = at
          BY <1>7, <1>26, <4>1
        <4>2. CASE i # at
          BY <1>5, <1>26, <4>2
        <4> QED
          BY <4>1, <4>2
      <3> QED
        BY <3>1
    <2> QED
      BY <1>3, <1>5, <1>11, <1>26, <2>1 DEF Loaded, SameTables
  <1>28. exact => SlotsNamed(d, file, class)
    <2>1. exact => SlotsNamed(ctx, file, class)
      BY <1>1, <1>2 DEF AtClass
    <2>2. SlotsNamed(ctx, file, class) => SlotsNamed(d, file, class)
      <3> SUFFICES ASSUME SlotsNamed(ctx, file, class) PROVE SlotsNamed(d, file, class)
        OBVIOUS
      <3>1. ASSUME NEW i \in 1..Len(us)
            PROVE  us[i].annotations # NULL => Names(file, class, "fields", i)
        <4>1. CASE i = at
          BY <1>7, <1>26, <4>1
        <4>2. CASE i # at
          <5>1. us[i] = ctx.fields[i] /\ i \in 1..Len(ctx.fields)
            BY <1>26, <4>2 DEF rs
          <5> QED
            BY <5>1 DEF SlotsNamed
        <4> QED
          BY <4>1, <4>2
      <3> QED
        BY <1>11, <3>1 DEF SlotsNamed
    <2> QED
      BY <2>1, <2>2
  <1>29. NextContext(ctx, ctx', file, class, new, took, exact)
    <2>1. FreeRawFields(d) \in Seq(Tokens) /\ FreeRawMethods(d) \in Seq(Tokens) /\ FreeClasses(d) \in Seq(Tokens)
      BY <1>20, <1>21, <1>22, <1>23
    <2> QED
      BY <1>11, <1>15, <1>25, <1>27, <2>1 DEF NextContext, cs, d
  <1>30. new.name # NULL /\ \A part \in Unread(pc) : new[part] = NULL
    <2>1. Unread(pc) \subseteq PartNames \ {pc}
      BY DEF Unread, PartNames, MemberLists
    <2> QED
      BY <1>3, <1>14, <2>1
  <1>31. This' = new
    <2>1. d.classes[class] = new
      BY <1>3, <1>11, <1>15 DEF Updated
    <2> QED
      BY <2>1 DEF This, d
  <1>32. pc' = pc => AtMember'
    <2> SUFFICES ASSUME pc' = pc PROVE AtMember'
      OBVIOUS
    <2>1. cl' = cl /\ file' = file
      BY DEF cl, ReadFrame
    <2>2. HasClassData(file, class) /\ Len(This[pc]) = Len(cl.class_data[1][pc])
      BY <1>2 DEF AtMember
    <2>3. Len(This'[pc]) = Len(This[pc]) /\ FieldList(This'[pc], members + 1)
      BY <1>12, <1>14, <1>31 DEF s
    <2> QED
      BY <1>1, <2>1, <2>2, <2>3 DEF AtMember, IsFields
  <1>33. "failed" \notin MemberLists /\ "failed" \notin ClassSteps /\ pc \in ClassSteps \ {"class", "directory"}
    BY DEF MemberLists, ClassSteps
  <1>34. members' \in Nat
    BY <1>4
  <1>35. pc' = "failed" \/ pc' \in ClassSteps \ {"class", "directory"}
    BY <1>33
  <1>36. pc' \in ClassSteps => \A part \in Unread(pc') : new[part] = NULL
    BY <1>30, <1>33
  <1>37. pc' \in MemberLists => AtMember'
    BY <1>32, <1>33
  <1>38. exact => SlotsNamed(ctx', file, class)
    BY <1>28 DEF d
  <1> QED
    BY <1>1, <1>7, <1>14, <1>29, <1>30, <1>34, <1>35, <1>36, <1>37, <1>38, ContextStep

(* A method is read, and its entry gives up its annotations.               *)
LEMMA MethodStep ==
  ASSUME NullApart, NEW exact, IInv(exact), pc \in {"direct_methods", "virtual_methods"}, members < Len(This[pc]),
         NEW at \in 1..Len(ctx.methods), NEW mtd, NEW nr, NEW took,
         NEW code, Pays(code, FreeBody(code.value), exact),
         MethodMade(ctx.methods[at], code, mtd, nr, took), MethodSet(ctx, ctx', class, pc, members + 1, mtd, at),
         HoldsMore(took), ReadFrame, class' = class, members' = members + 1, idx' \in Nat, pc' = pc \/ pc' = "failed"
  PROVE  IInv(exact)'
  <1> DEFINE s == This[pc]
             t == [s EXCEPT ![members + 1] = mtd]
             new == [This EXCEPT ![pc] = t]
             cs == ctx.classes
             ds == [cs EXCEPT ![class] = new]
             rs == ctx.methods
             us == [rs EXCEPT ![at] = nr]
             d == ctx'
  <1>1. /\ pc \in ClassSteps \ {"class"} /\ pc \in MemberLists /\ ~IsFields(pc) /\ pc \in PartNames
        /\ \A v : FreePart(pc, v) = FreeMethods(v)
    BY DEF ClassSteps, MemberLists, IsFields, PartNames, FreePart
  <1>2. AtMember /\ AtClass(exact)
    BY <1>1, ClassFacts
  <1>3. /\ Context(ctx) /\ Loaded(ctx, file) /\ class \in 1..Len(file.classes)
        /\ class \in 1..Len(cs) /\ IsList(cs) /\ Len(cs) = Len(file.classes)
        /\ ClassParts(This) /\ This.name # NULL /\ \A part \in Unread(pc) : This[part] = NULL
    BY <1>1, AtList
  <1>4. MethodList(s, members) /\ IsList(s) /\ members + 1 \in 1..Len(s) /\ members \in Nat
    <2>1. MethodList(s, members)
      BY <1>1, <1>2 DEF AtMember
    <2>2. members \in Nat
      BY Counters
    <2>3. IsList(s) /\ Len(s) \in Nat
      BY <2>1 DEF MethodList, IsList
    <2> QED
      BY <2>1, <2>2, <2>3
  <1>5. IsList(rs) /\ Len(rs) = Len(file.methods) /\ \A i \in 1..Len(rs) : RawMethodParts(rs[i])
    BY <1>3 DEF Loaded
  <1>6. RawMethodParts(ctx.methods[at])
    BY <1>5
  <1>7. /\ mtd.prototype # NULL /\ FreeMethod(mtd) \in Seq(Tokens) /\ took \in Seq(Tokens)
        /\ RawMethodParts(nr) /\ nr.annotations = NULL /\ nr.parameter_annotations = NULL
        /\ FreeRawMethod(rs[at]) \in Seq(Tokens) /\ FreeRawMethod(nr) \in Seq(Tokens)
    BY <1>6, MethodTaken, ZenonT(30)
  <1>8. ASSUME NEW x
        PROVE  /\ Occurrences(FreeMethod(mtd), x) + Occurrences(FreeRawMethod(nr), x)
                     <= Occurrences(FreeRawMethod(rs[at]), x) + Occurrences(took, x)
               /\ exact => Occurrences(FreeMethod(mtd), x) + Occurrences(FreeRawMethod(nr), x)
                             = Occurrences(FreeRawMethod(rs[at]), x) + Occurrences(took, x)
    BY <1>6, MethodTaken
  <1>9. Updated(s, t, members + 1, mtd)
    BY <1>4, UpdatedExcept
  <1>10. PartSet(This, new, pc, t)
    BY DEF PartSet
  <1>11. /\ d.classes = ds /\ d.methods = us /\ Context(d) /\ SameTables(ctx, d)
         /\ d.fields = ctx.fields
    <2>1. MethodSet(ctx, d, class, pc, members + 1, mtd, at)
      OBVIOUS
    <2>2. nr = [ctx.methods[at] EXCEPT !.annotations = NULL, !.parameter_annotations = NULL]
      BY DEF MethodMade
    <2>3. at \in DOMAIN ctx.methods
      BY <1>5, ListFacts
    <2> HIDE DEF d
    <2>4. MethodSplit(ctx, d, class, pc, members + 1, mtd, at)
      BY <1>3, <2>1, <2>3, MethodSetFacts
    <2>5. /\ d.classes = [ctx.classes EXCEPT ![class] = [ctx.classes[class] EXCEPT ![pc] =
                            [ctx.classes[class][pc] EXCEPT ![members + 1] = mtd]]]
          /\ d.methods = [ctx.methods EXCEPT ![at] = [ctx.methods[at] EXCEPT !.annotations = NULL, !.parameter_annotations = NULL]]
          /\ Context(d) /\ SameTables(ctx, d)
          /\ d.fields = ctx.fields
      BY <2>4 DEF MethodSplit
    <2> QED
      BY <2>2, <2>5 DEF This
  <1> HIDE DEF t
  <1>12. /\ MethodList(t, members + 1) /\ Len(t) = Len(s) /\ FreeMethods(t) \in Seq(Tokens)
         /\ \A x : Occurrences(FreeMethods(t), x) = Occurrences(FreeMethods(s), x) + Occurrences(FreeMethod(mtd), x)
    BY <1>4, <1>7, <1>9, MethodsGrow
  <1>13. /\ FreeMethods(s) \in Seq(Tokens)
    BY <1>4, MethodsFree
  <1> HIDE DEF new
  <1>14. /\ ClassParts(new) /\ new[pc] = t /\ new.name = This.name
         /\ \A p \in PartNames \ {pc} : new[p] = This[p]
         /\ \A x : Occurrences(FreeClass(new), x) + Occurrences(FreeMethods(s), x)
                     = Occurrences(FreeClass(This), x) + Occurrences(FreeMethods(t), x)
    <2>1. FreePart(pc, t) \in Seq(Tokens)
      BY <1>1, <1>12
    <2>2. /\ ClassParts(new) /\ new[pc] = t /\ new.name = This.name
          /\ \A p \in PartNames \ {pc} : new[p] = This[p]
          /\ \A x : Occurrences(FreeClass(new), x) + Occurrences(FreePart(pc, This[pc]), x)
                     = Occurrences(FreeClass(This), x) + Occurrences(FreePart(pc, t), x)
      BY <1>1, <1>3, <1>10, <2>1, PartChange
    <2> QED
      BY <1>1, <2>2
  <1>15. Updated(cs, ds, class, new)
    BY <1>3, UpdatedExcept
  <1>16. Updated(rs, us, at, nr)
    BY <1>5, UpdatedExcept
  <1>17. \A i \in 1..Len(cs) : ClassParts(cs[i]) /\ FreeClass(cs[i]) \in Seq(Tokens)
    <2>1. ClassesRead(cs, class, Len(file.classes))
      BY <1>2 DEF AtClass
    <2> QED
      BY <2>1, ClassSum DEF ClassesRead
  <1>18. \A i \in 1..Len(rs) : FreeRawMethod(rs[i]) \in Seq(Tokens)
    BY <1>5, RawMethodTokens
  <1> HIDE DEF s, cs, rs, ds, us
  <1>19. FreeClass(new) \in Seq(Tokens) /\ FreeClass(This) \in Seq(Tokens) /\ cs[class] = This
    BY <1>3, <1>14, ClassSum DEF cs, This
  <1>20. /\ FreeClassArray(ds) \in Seq(Tokens)
         /\ \A x : Occurrences(FreeClassArray(ds), x) + Occurrences(FreeClass(cs[class]), x)
                     = Occurrences(FreeClassArray(cs), x) + Occurrences(FreeClass(new), x)
    <2>1. IsList(cs) /\ class \in 1..Len(cs)
      BY <1>3 DEF cs
    <2>2. \A i \in 1..Len(cs) : FreeClass(cs[i]) \in Seq(Tokens)
      BY <1>17
    <2> QED
      BY <1>15, <1>19, <2>1, <2>2, ClassesChange
  <1>21. /\ FreeRawMethodArray(us) \in Seq(Tokens)
         /\ \A x : Occurrences(FreeRawMethodArray(us), x) + Occurrences(FreeRawMethod(rs[at]), x)
                     = Occurrences(FreeRawMethodArray(rs), x) + Occurrences(FreeRawMethod(nr), x)
    <2>1. IsList(rs) /\ at \in 1..Len(rs)
      BY <1>5 DEF rs
    <2>2. FreeRawMethod(nr) \in Seq(Tokens)
      BY <1>7
    <2> QED
      BY <1>16, <1>18, <2>1, <2>2, RawMethodsChange
  <1>22. /\ FreeClasses(d) = FreeClassArray(ds) /\ FreeClasses(ctx) = FreeClassArray(cs)
         /\ FreeRawMethods(d) = FreeRawMethodArray(us) /\ FreeRawMethods(ctx) = FreeRawMethodArray(rs)
         /\ FreeRawFields(d) = FreeRawFields(ctx)
    BY <1>11 DEF FreeClasses, FreeClassArray, FreeRawMethods, FreeRawMethodArray, FreeRawFields, cs, rs
  <1>23. /\ FreeRawFields(ctx) \in Seq(Tokens) /\ FreeRawMethods(ctx) \in Seq(Tokens)
         /\ FreeClasses(ctx) \in Seq(Tokens)
    BY <1>1, ClassFacts DEF AtReading, Parts
  <1> HIDE DEF d
  <1>24. ASSUME NEW x
         PROVE  /\ Changing(d, x) <= Changing(ctx, x) + Occurrences(took, x)
                /\ exact => Changing(d, x) = Changing(ctx, x) + Occurrences(took, x)
    <2> DEFINE f == Occurrences(FreeRawFields(ctx), x)
               q == Occurrences(FreeRawMethods(ctx), x)
               q2 == Occurrences(FreeRawMethods(d), x)
               k == Occurrences(FreeClasses(ctx), x)
               k2 == Occurrences(FreeClasses(d), x)
               a == Occurrences(took, x)
               u == Occurrences(FreeClass(This), x)
               v == Occurrences(FreeClass(new), x)
               w == Occurrences(FreeMethod(mtd), x)
               fs == Occurrences(FreeMethods(s), x)
               ft == Occurrences(FreeMethods(t), x)
               y == Occurrences(FreeRawMethod(nr), x)
               r == Occurrences(FreeRawMethod(rs[at]), x)
    <2>1. /\ f \in Nat /\ q \in Nat /\ q2 \in Nat /\ k \in Nat /\ k2 \in Nat /\ a \in Nat
      BY <1>7, <1>20, <1>21, <1>22, <1>23, OccNat
    <2>2. u \in Nat /\ v \in Nat /\ w \in Nat /\ fs \in Nat /\ ft \in Nat /\ y \in Nat /\ r \in Nat
      BY <1>7, <1>12, <1>13, <1>19, OccNat
    <2>3. ft = fs + w /\ v + fs = u + ft
      BY <1>12, <1>14
    <2>4. k2 + u = k + v
      BY <1>19, <1>20, <1>22
    <2>5. q2 + r = q + y
      BY <1>21, <1>22
    <2>6. w + y <= r + a /\ (exact => w + y = r + a)
      BY <1>8
    <2>7. Changing(ctx, x) = f + q + k /\ Changing(d, x) = f + q2 + k2
      BY <1>22 DEF Changing
    <2> HIDE DEF f, q, q2, k, k2, a, u, v, w, fs, ft, y, r
    <2>8. v = u + w
      BY <2>2, <2>3
    <2>9. k2 = k + w
      BY <2>1, <2>2, <2>4, <2>8
    <2>10. q2 + k2 <= q + k + a
      BY <2>1, <2>2, <2>5, <2>6, <2>9
    <2>11. w + y = r + a => q2 + k2 = q + k + a
      BY <2>1, <2>2, <2>5, <2>9
    <2>12. exact => q2 + k2 = q + k + a
      BY <2>6, <2>11
    <2> QED
      BY <2>1, <2>7, <2>10, <2>12 DEF a
  <1>25. ChangesBy(ctx, d, took, exact)
    BY <1>24 DEF ChangesBy
  <1>26. IsList(us) /\ Len(us) = Len(rs) /\ us[at] = nr /\ \A i \in 1..Len(rs) : i # at => us[i] = rs[i]
    BY <1>16 DEF Updated
  <1>27. Loaded(d, file)
    <2>1. \A i \in 1..Len(us) : RawMethodParts(us[i])
      <3>1. ASSUME NEW i \in 1..Len(us) PROVE RawMethodParts(us[i])
        <4>1. CASE i = at
          BY <1>7, <1>26, <4>1
        <4>2. CASE i # at
          BY <1>5, <1>26, <4>2
        <4> QED
          BY <4>1, <4>2
      <3> QED
        BY <3>1
    <2> QED
      BY <1>3, <1>5, <1>11, <1>26, <2>1 DEF Loaded, SameTables
  <1>28. exact => SlotsNamed(d, file, class)
    <2>1. exact => SlotsNamed(ctx, file, class)
      BY <1>1, <1>2 DEF AtClass
    <2>2. SlotsNamed(ctx, file, class) => SlotsNamed(d, file, class)
      <3> SUFFICES ASSUME SlotsNamed(ctx, file, class) PROVE SlotsNamed(d, file, class)
        OBVIOUS
      <3>1. ASSUME NEW i \in 1..Len(us)
            PROVE  /\ us[i].annotations # NULL => Names(file, class, "methods", i)
                   /\ us[i].parameter_annotations # NULL => Names(file, class, "parameters", i)
        <4>1. CASE i = at
          BY <1>7, <1>26, <4>1
        <4>2. CASE i # at
          <5>1. us[i] = ctx.methods[i] /\ i \in 1..Len(ctx.methods)
            BY <1>26, <4>2 DEF rs
          <5> QED
            BY <5>1 DEF SlotsNamed
        <4> QED
          BY <4>1, <4>2
      <3> QED
        BY <1>11, <3>1 DEF SlotsNamed
    <2> QED
      BY <2>1, <2>2
  <1>29. NextContext(ctx, ctx', file, class, new, took, exact)
    <2>1. FreeRawFields(d) \in Seq(Tokens) /\ FreeRawMethods(d) \in Seq(Tokens) /\ FreeClasses(d) \in Seq(Tokens)
      BY <1>20, <1>21, <1>22, <1>23
    <2> QED
      BY <1>11, <1>15, <1>25, <1>27, <2>1 DEF NextContext, cs, d
  <1>30. new.name # NULL /\ \A part \in Unread(pc) : new[part] = NULL
    <2>1. Unread(pc) \subseteq PartNames \ {pc}
      BY DEF Unread, PartNames, MemberLists
    <2> QED
      BY <1>3, <1>14, <2>1
  <1>31. This' = new
    <2>1. d.classes[class] = new
      BY <1>3, <1>11, <1>15 DEF Updated
    <2> QED
      BY <2>1 DEF This, d
  <1>32. pc' = pc => AtMember'
    <2> SUFFICES ASSUME pc' = pc PROVE AtMember'
      OBVIOUS
    <2>1. cl' = cl /\ file' = file
      BY DEF cl, ReadFrame
    <2>2. HasClassData(file, class) /\ Len(This[pc]) = Len(cl.class_data[1][pc])
      BY <1>2 DEF AtMember
    <2>3. Len(This'[pc]) = Len(This[pc]) /\ MethodList(This'[pc], members + 1)
      BY <1>12, <1>14, <1>31 DEF s
    <2> QED
      BY <1>1, <2>1, <2>2, <2>3 DEF AtMember, IsFields
  <1>33. "failed" \notin MemberLists /\ "failed" \notin ClassSteps /\ pc \in ClassSteps \ {"class", "directory"}
    BY DEF MemberLists, ClassSteps
  <1>34. members' \in Nat
    BY <1>4
  <1>35. pc' = "failed" \/ pc' \in ClassSteps \ {"class", "directory"}
    BY <1>33
  <1>36. pc' \in ClassSteps => \A part \in Unread(pc') : new[part] = NULL
    BY <1>30, <1>33
  <1>37. pc' \in MemberLists => AtMember'
    BY <1>32, <1>33
  <1>38. exact => SlotsNamed(ctx', file, class)
    BY <1>28 DEF d
  <1> QED
    BY <1>1, <1>7, <1>14, <1>29, <1>30, <1>34, <1>35, <1>36, <1>37, <1>38, ContextStep

(* Nothing is read and the reader fails.                                   *)
LEMMA FailStep ==
  ASSUME NullApart, NEW exact, IInv(exact), pc \notin {"release"} \cup Endings, ctx' = ctx, ReadFrame,
         held' = held \/ HoldsMore(<< >>), pc' = "failed", class' = class, members' \in Nat, idx' \in Nat
  PROVE  IInv(exact)'
  <1>1. Common /\ AtReading(exact) /\ ProtosNamed
    BY DEF IInv, Phase
  <1>2. AtReading(exact)' /\ ProtosNamed' /\ IsABag(held')
    BY <1>1, NothingRead
  <1>3. Common'
    <2>1. pc' \in Steps \cup MemberLists /\ Context(ctx') /\ class' \in 0..Len(file.classes) + 1
      BY <1>1 DEF Common, Steps
    <2> QED
      BY <1>1, <1>2, <2>1, CommonStep
  <1> QED
    BY <1>2, <1>3, AtFailed

(* What the file says of the member that is read next.                     *)
LEMMA MemberShape ==
  ASSUME NullApart, NEW exact, IInv(exact), Valued(file), FileSurvives(file), exact => Clean(file),
         pc \in MemberLists, members < Len(This[pc]), NEW item, item = cl.class_data[1][pc][members + 1]
  PROVE  /\ item.diff \in Nat
         /\ item.code # << >> =>
              /\ CodeShape(item.code[1])
              /\ CodeSurvives(Len(ctx.strs), Len(ctx.types), item.code[1])
              /\ exact => CodeClean(item.code[1])
  <1>1. pc \in ClassSteps
    BY DEF MemberLists, ClassSteps
  <1>2. AtMember /\ Loaded(ctx, file) /\ class \in 1..Len(file.classes)
    BY <1>1, ClassFacts, AtList
  <1>3. PICK V : FileHolds(V, exact)
    BY <1>2, FileValues
  <1>4. ClassShape(cl, V)
    BY <1>2, <1>3 DEF FileHolds, FileShape, cl
  <1>5. HasClassData(file, class) /\ Len(This[pc]) = Len(cl.class_data[1][pc]) /\ members \in Nat
    BY <1>2, Counters DEF AtMember
  <1>6. ClassDataShape(cl.class_data[1]) /\ cl.class_data[1] # NULL
    BY <1>4, <1>5 DEF ClassShape, HasClassData, cl
  <1> DEFINE items == cl.class_data[1][pc]
             k == members + 1
  <1>7. /\ IsList(items)
        /\ \A i \in 1..Len(items) :
             /\ items[i].diff \in Nat
             /\ items[i].code # << >> => CodeShape(items[i].code[1])
    BY <1>6 DEF ClassDataShape
  <1>8. k \in 1..Len(items)
    BY <1>5, <1>7 DEF IsList
  <1>9. \A i \in 1..Len(items) : items[i].code # << >> =>
          CodeSurvives(Len(file.strings), Len(file.types), items[i].code[1])
    BY <1>2, <1>5 DEF FileSurvives, EachCode, cl
  <1>10. exact => \A i \in 1..Len(items) : items[i].code # << >> => CodeClean(items[i].code[1])
    BY <1>2, <1>3, <1>5 DEF FileHolds, EachCode, cl
  <1>11. Len(ctx.strs) = Len(file.strings) /\ Len(ctx.types) = Len(file.types)
    BY <1>2 DEF Loaded
  <1>12. item = items[k]
    OBVIOUS
  <1> HIDE DEF items, k
  <1> QED
    BY <1>7, <1>8, <1>9, <1>10, <1>11, <1>12

(* The code of a method, which may be missing, pays.                       *)
LEMMA CodeBodyPays ==
  ASSUME NullApart, NEW exact, Ctx(ctx), NEW code,
         code # << >> => /\ CodeShape(code[1]) /\ CodeSurvives(Len(ctx.strs), Len(ctx.types), code[1])
                         /\ exact => CodeClean(code[1]),
         NEW r, r = CodeBody(code)
  PROVE  Pays(r, FreeBody(r.value), exact)
  <1>1. CASE code = << >>
    <2>1. r = Done(NULL, << >>)
      BY <1>1 DEF CodeBody
    <2>2. FreeBody(r.value) = << >>
      BY <2>1, DonePays, NoTokens, ZenonT(30) DEF FreeBody
    <2>3. Pays(Done(NULL, << >>), << >>, exact)
      BY DonePays, NoTokens
    <2> QED
      BY <2>1, <2>2, <2>3
  <1>2. CASE code # << >>
    <2> DEFINE q == ReadCode(ctx, code[1])
               b == <<Block("code")>>
    <2>1. Pays(q, FreeCode(q.value), exact) /\ q.value # NULL
      BY <1>2, CodePays
    <2>2. b \in Seq(Tokens)
      BY BlockToken DEF Kinds
    <2>3. r = After(b, q)
      BY <1>2 DEF CodeBody
    <2> HIDE DEF q, b
    <2>4. Pays(r, FreeCode(q.value) \o b, exact) /\ r.value = q.value
      BY <2>1, <2>2, <2>3, AfterPays
    <2> QED
      BY <2>1, <2>4 DEF FreeBody, b
  <1> QED
    BY <1>1, <1>2

(* A member: its index may be none of the section, or an entry of another  *)
(* class, and the reader fails then.                                       *)
LEMMA ReadMemberStep ==
  ASSUME NullApart, NEW exact, IInv(exact), Valued(file), FileSurvives(file), exact => Clean(file),
         ReadMember
  PROVE  IInv(exact)'
  <1> DEFINE item == cl.class_data[1][pc][members + 1]
             at == idx + item.diff
  <1>1. /\ pc \in MemberLists /\ pc \in ClassSteps /\ members < Len(This[pc])
        /\ ToSet(Lists) = MemberLists
    <2>1. ToSet(Lists) = MemberLists
      BY DEF ToSet, Lists, MemberLists
    <2> QED
      BY <2>1 DEF ReadMember, ClassSteps, MemberLists
  <1>2. /\ item.diff \in Nat
        /\ item.code # << >> =>
              /\ CodeShape(item.code[1])
              /\ CodeSurvives(Len(ctx.strs), Len(ctx.types), item.code[1])
              /\ exact => CodeClean(item.code[1])
    BY <1>1, MemberShape
  <1>3. /\ ReadFrame /\ class' = class /\ members' = members + 1 /\ members' \in Nat
        /\ IF IsFields(pc) THEN ReadField(item) ELSE ReadMethod(item)
    BY Counters DEF ReadMember, ReadFrame
  <1>4. idx' = at /\ idx' \in Nat
    <2> HIDE DEF item
    <2>1. CASE IsFields(pc)
      <3>1. ReadField(item)
        BY <1>3, <2>1
      <3> QED
        BY <1>2, <3>1, Counters DEF ReadField
    <2>2. CASE ~IsFields(pc)
      <3>1. ReadMethod(item)
        BY <1>3, <2>2
      <3> QED
        BY <1>2, <3>1, Counters DEF ReadMethod
    <2> QED
      BY <2>1, <2>2
  <1>5. Loaded(ctx, file) /\ Ctx(ctx) /\ IsList(ctx.fields) /\ IsList(ctx.methods)
    BY <1>1, AtList, LoadedCtx DEF Loaded
  <1>6. DOMAIN ctx.fields = 1..Len(ctx.fields) /\ DOMAIN ctx.methods = 1..Len(ctx.methods)
    BY <1>5, ListFacts
  <1>7. pc \notin {"release"} \cup Endings
    BY <1>1 DEF MemberLists, Endings
  <1>8. ASSUME ctx' = ctx, Acquire(Failed(NULL), pc) PROVE IInv(exact)'
    <2>1. pc' = "failed" /\ HoldsMore(<< >>)
      BY <1>8 DEF Acquire, Failed, Result, HoldsMore
    <2> QED
      BY <1>3, <1>4, <1>7, <1>8, <2>1, FailStep
  <1>9. CASE IsFields(pc)
    <2> DEFINE raw == ctx.fields[at]
               anns == Taken(raw.annotations, "annotations")
               fld == [type |-> raw.type, name |-> raw.name, annotations |-> anns.value]
               nr == [raw EXCEPT !.annotations = NULL]
               took == <<raw.type, raw.name>> \o anns.took
    <2>1. pc \in {"static_fields", "instance_fields"}
      BY <1>9 DEF IsFields
    <2>2. CASE at \in DOMAIN ctx.fields /\ raw.defining_class = This.name
      <3>1. FieldSet(ctx, ctx', class, pc, members + 1, fld, at) /\ Acquire(Done(fld, took), pc)
        BY <1>3, <1>9, <2>2 DEF ReadField, FieldSet
      <3>2. FieldMade(raw, fld, nr, took)
        BY DEF FieldMade
      <3>3. pc' = pc /\ HoldsMore(took)
        <4> HIDE DEF took, fld
        <4> QED
          BY <3>1 DEF Acquire, Done, Result, HoldsMore
      <3>4. at \in 1..Len(ctx.fields)
        BY <1>6, <2>2
      <3> HIDE DEF at, fld, nr, took
      <3> QED
        BY <1>1, <1>3, <1>4, <2>1, <3>1, <3>2, <3>3, <3>4, FieldStep
    <2>3. CASE ~(at \in DOMAIN ctx.fields /\ raw.defining_class = This.name)
      <3>1. ctx' = ctx /\ Acquire(Failed(NULL), pc)
        BY <1>3, <1>9, <2>3 DEF ReadField
      <3> QED
        BY <1>8, <3>1
    <2> QED
      BY <2>2, <2>3
  <1>10. CASE ~IsFields(pc)
    <2> DEFINE raw == ctx.methods[at]
               anns == Taken(raw.annotations, "annotations")
               panns == Taken(raw.parameter_annotations, "parameter_annotations")
               code == CodeBody(item.code)
               mtd == [name |-> raw.name, prototype |-> raw.prototype, annotations |-> anns.value,
                       parameter_annotations |-> panns.value, code_body |-> code.value]
               nr == [raw EXCEPT !.annotations = NULL, !.parameter_annotations = NULL]
               before == <<raw.name, raw.prototype>> \o anns.took \o panns.took
               took == before \o code.took
    <2>1. pc \in {"direct_methods", "virtual_methods"}
      BY <1>1, <1>10 DEF IsFields, MemberLists
    <2>2. CASE at \in DOMAIN ctx.methods /\ raw.defining_class = This.name
      <3>1. MethodSet(ctx, ctx', class, pc, members + 1, mtd, at) /\ Acquire(After(before, code), pc)
        BY <1>3, <1>10, <2>2 DEF ReadMethod, MethodSet
      <3>2. MethodMade(raw, code, mtd, nr, took)
        BY DEF MethodMade
      <3>3. Pays(code, FreeBody(code.value), exact)
        <4> DEFINE ic == item.code
        <4>1. code = CodeBody(ic)
          OBVIOUS
        <4>2. ic # << >> => /\ CodeShape(ic[1]) /\ CodeSurvives(Len(ctx.strs), Len(ctx.types), ic[1])
                            /\ exact => CodeClean(ic[1])
          BY <1>2
        <4> HIDE DEF ic, code
        <4> QED
          BY <1>5, <4>1, <4>2, CodeBodyPays
      <3>4. (pc' = pc \/ pc' = "failed") /\ HoldsMore(took)
        <4>1. After(before, code).took = took
          <5>1. IsResult(code)
            BY <3>3 DEF Pays
          <5> HIDE DEF before, code
          <5>2. code = Result(code.value, code.ok, code.took)
            BY <5>1 DEF IsResult
          <5> QED
            BY <5>2 DEF After, Result
        <4> HIDE DEF before, took, code, mtd
        <4> QED
          BY <3>1, <4>1 DEF Acquire, HoldsMore
      <3>5. at \in 1..Len(ctx.methods)
        BY <1>6, <2>2
      <3> HIDE DEF at, mtd, nr, took, code
      <3> QED
        BY <1>1, <1>3, <1>4, <2>1, <3>1, <3>2, <3>3, <3>4, <3>5, MethodStep
    <2>3. CASE ~(at \in DOMAIN ctx.methods /\ raw.defining_class = This.name)
      <3>1. ctx' = ctx /\ Acquire(Failed(NULL), pc)
        BY <1>3, <1>10, <2>3 DEF ReadMethod
      <3> QED
        BY <1>8, <3>1
    <2> QED
      BY <2>2, <2>3
  <1> QED
    BY <1>9, <1>10

(* The first k stores.                                                     *)
Prefix(stores, k) == [i \in 1..k |-> stores[i]]

(* A list of annotations to be stored in a slot of the tables.             *)
IsStore(s, slot) == s[1] = slot /\ s[2] # NULL
(* A slot keeps its list, or has the last one stored there.                *)
LEMMA StoredCases ==
  ASSUME NEW n \in Nat, NEW stores, DOMAIN stores = 1..n, NEW slot, NEW old
  PROVE  \/ Stored(stores, slot, old) = old /\ \A i \in 1..n : ~IsStore(stores[i], slot)
         \/ \E i \in 1..n : /\ IsStore(stores[i], slot) /\ Stored(stores, slot, old) = stores[i][2]
                            /\ \A k \in 1..n : IsStore(stores[k], slot) => k <= i
  <1> DEFINE here == {i \in DOMAIN stores : stores[i][1] = slot /\ stores[i][2] # NULL}
             last == CHOOSE i \in here : \A k \in here : k <= i
  <1>1. Stored(stores, slot, old) = IF here = {} THEN old ELSE stores[last][2]
    BY DEF Stored
  <1>2. \A i \in 1..n : i \in here <=> IsStore(stores[i], slot)
    BY DEF IsStore
  <1>3. here \subseteq 1..n
    OBVIOUS
  <1>4. CASE here = {}
    BY <1>1, <1>2, <1>4
  <1>5. CASE here # {}
    <2> HIDE DEF here
    <2> DEFINE T == {n - i : i \in here}
    <2>1. T \in SUBSET Nat /\ T # {}
      <3>1. \A i \in here : n - i \in Nat
        BY <1>3
      <3>2. PICK i : i \in here
        BY <1>5
      <3> QED
        BY <3>1, <3>2
    <2>2. PICK t \in T : \A u \in T : t <= u
      BY <2>1, LeastElement
    <2>3. PICK i \in here : t = n - i
      BY <2>2
    <2>4. \A k \in here : k <= i
      <3>1. ASSUME NEW k \in here PROVE k <= i
        <4>1. n - k \in T
          OBVIOUS
        <4>2. n - i <= n - k
          BY <2>2, <2>3, <4>1
        <4> QED
          BY <1>3, <4>2
      <3> QED
        BY <3>1
    <2>5. last \in here /\ \A k \in here : k <= last
      BY <2>4
    <2> HIDE DEF last
    <2>6. last \in 1..n /\ IsStore(stores[last], slot) /\ Stored(stores, slot, old) = stores[last][2]
      BY <1>1, <1>2, <1>3, <1>5, <2>5
    <2>7. \A k \in 1..n : IsStore(stores[k], slot) => k <= last
      BY <1>2, <2>5
    <2> QED
      BY <2>6, <2>7
  <1> QED
    BY <1>4, <1>5

(* Before the first store a slot keeps its list.                           *)
LEMMA StoredFirst ==
  ASSUME NEW stores, NEW slot, NEW old
  PROVE  Stored(Prefix(stores, 0), slot, old) = old
  <1> DEFINE p == Prefix(stores, 0)
  <1>1. DOMAIN p = 1..0
    BY DEF Prefix
  <1> HIDE DEF p
  <1> QED
    BY <1>1, StoredCases DEF p

(* A store changes its slot only.                                          *)
LEMMA StoredNext ==
  ASSUME NEW stores, NEW k \in Nat, NEW slot, NEW old
  PROVE  Stored(Prefix(stores, k + 1), slot, old)
           = IF IsStore(stores[k + 1], slot) THEN stores[k + 1][2]
             ELSE Stored(Prefix(stores, k), slot, old)
  <1> DEFINE p == Prefix(stores, k)
             q == Prefix(stores, k + 1)
  <1>1. DOMAIN p = 1..k /\ \A i \in 1..k : p[i] = stores[i]
    BY DEF Prefix
  <1>2. DOMAIN q = 1..(k + 1) /\ \A i \in 1..(k + 1) : q[i] = stores[i]
    BY DEF Prefix
  <1> HIDE DEF p, q
  <1>3. \/ Stored(p, slot, old) = old /\ \A i \in 1..k : ~IsStore(p[i], slot)
        \/ \E i \in 1..k : /\ IsStore(p[i], slot) /\ Stored(p, slot, old) = p[i][2]
                           /\ \A m \in 1..k : IsStore(p[m], slot) => m <= i
    BY <1>1, StoredCases
  <1>4. \/ Stored(q, slot, old) = old /\ \A i \in 1..(k + 1) : ~IsStore(q[i], slot)
        \/ \E i \in 1..(k + 1) : /\ IsStore(q[i], slot) /\ Stored(q, slot, old) = q[i][2]
                                 /\ \A m \in 1..(k + 1) : IsStore(q[m], slot) => m <= i
    <2>1. k + 1 \in Nat
      OBVIOUS
    <2> QED
      BY <1>2, <2>1, StoredCases
  <1>5. CASE IsStore(stores[k + 1], slot)
    <2>1. PICK i \in 1..(k + 1) : /\ IsStore(q[i], slot) /\ Stored(q, slot, old) = q[i][2]
                                 /\ \A m \in 1..(k + 1) : IsStore(q[m], slot) => m <= i
      BY <1>2, <1>4, <1>5
    <2>2. i = k + 1
      BY <1>2, <1>5, <2>1
    <2> QED
      BY <1>2, <1>5, <2>1, <2>2 DEF q
  <1>6. CASE ~IsStore(stores[k + 1], slot)
    <2>1. CASE \A i \in 1..k : ~IsStore(stores[i], slot)
      <3>1. Stored(p, slot, old) = old
        BY <1>1, <1>3, <2>1
      <3>2. \A i \in 1..(k + 1) : ~IsStore(q[i], slot)
        BY <1>2, <1>6, <2>1
      <3>3. Stored(q, slot, old) = old
        BY <1>4, <3>2
      <3> QED
        BY <1>6, <3>1, <3>3 DEF p, q
    <2>2. CASE \E i \in 1..k : IsStore(stores[i], slot)
      <3>1. PICK i \in 1..k : /\ IsStore(p[i], slot) /\ Stored(p, slot, old) = p[i][2]
                              /\ \A m \in 1..k : IsStore(p[m], slot) => m <= i
        BY <1>1, <1>3, <2>2
      <3>2. PICK j \in 1..(k + 1) : /\ IsStore(q[j], slot) /\ Stored(q, slot, old) = q[j][2]
                                    /\ \A m \in 1..(k + 1) : IsStore(q[m], slot) => m <= j
        BY <1>2, <1>4, <2>2
      <3>3. j \in 1..k
        BY <1>2, <1>6, <3>2
      <3>4. j = i
        <4>1. IsStore(p[j], slot) /\ IsStore(q[i], slot)
          BY <1>1, <1>2, <3>1, <3>2, <3>3
        <4>2. j <= i /\ i <= j
          BY <3>1, <3>2, <3>3, <4>1
        <4> QED
          BY <3>1, <3>3, <4>2
      <3>5. Stored(q, slot, old) = Stored(p, slot, old)
        BY <1>1, <1>2, <3>1, <3>2, <3>4
      <3> QED
        BY <1>6, <3>5 DEF p, q
    <2> QED
      BY <2>1, <2>2
  <1> QED
    BY <1>5, <1>6

(* A slot to which nothing is stored keeps its list.                       *)
LEMMA StoredFresh ==
  ASSUME NEW stores, NEW k \in Nat, NEW slot, NEW old, \A i \in 1..k : ~IsStore(stores[i], slot)
  PROVE  Stored(Prefix(stores, k), slot, old) = old
  <1> DEFINE p == Prefix(stores, k)
  <1>1. DOMAIN p = 1..k /\ \A i \in 1..k : p[i] = stores[i]
    BY DEF Prefix
  <1> HIDE DEF p
  <1>2. \A i \in 1..k : ~IsStore(p[i], slot)
    BY <1>1
  <1> QED
    BY <1>1, <1>2, StoredCases DEF p

(* All stores are those up to the last.                                    *)
LEMMA PrefixAll ==
  ASSUME NEW stores, IsList(stores)
  PROVE  Prefix(stores, Len(stores)) = stores
  BY DEF Prefix, IsList
-----------------------------------------------------------------------------
(* The arrays with the stores of a directory.                              *)
ClassAt(c, stores) == [c EXCEPT !.annotations = Stored(stores, <<"class", 0>>, @)]

(* An entry of the tables with annotations.                                *)
FieldSlot(fld, e, v) == e = [fld EXCEPT !.annotations = v]
MethodSlot(mtd, e, v, w) == e = [mtd EXCEPT !.annotations = v, !.parameter_annotations = w]

(* The references of an entry of the tables.                               *)
FieldRefs(fld) == FreeRefs(<<fld.defining_class, fld.name, fld.type>>)
MethodRefs(mtd) == FreeRefs(<<mtd.defining_class, mtd.name, mtd.prototype>>)

(* A field with its slot set holds the list of the slot.                   *)
LEMMA FieldSlotFacts ==
  ASSUME NullApart, NEW fld, RawFieldParts(fld), NEW v, FreeAnnotations(v) \in Seq(Tokens),
         NEW e, FieldSlot(fld, e, v)
  PROVE  /\ RawFieldParts(e) /\ e.annotations = v /\ FreeRawField(e) \in Seq(Tokens)
         /\ FieldRefs(fld) \in Seq(Tokens)
         /\ \A x : Occurrences(FreeRawField(e), x)
                     = Occurrences(FieldRefs(fld), x) + Occurrences(FreeAnnotations(v), x)
  <1> DEFINE f1 == fld.defining_class
             f2 == fld.type
             f3 == fld.name
             f4 == fld.annotations
  <1>1. fld = [defining_class |-> f1, type |-> f2, name |-> f3, annotations |-> f4]
        /\ f1 \in Strs /\ f2 \in Strs /\ f3 \in Strs
    BY DEF RawFieldParts
  <1>2. e = [fld EXCEPT !.annotations = v]
    BY DEF FieldSlot
  <1> HIDE DEF f1, f2, f3, f4
  <1>3. e = [defining_class |-> f1, type |-> f2, name |-> f3, annotations |-> v]
    BY <1>1, <1>2
  <1>4. e.defining_class = f1 /\ e.type = f2 /\ e.name = f3 /\ e.annotations = v
    BY <1>3
  <1>5. RawFieldParts(e)
    BY <1>1, <1>3, <1>4 DEF RawFieldParts
  <1>6. f1 \in Tokens \cup {NULL} /\ f2 \in Tokens \cup {NULL} /\ f3 \in Tokens \cup {NULL}
    BY <1>1, RefTokens
  <1>7. FieldRefs(fld) = (FreeRef(f1) \o FreeRef(f3)) \o FreeRef(f2)
        /\ FreeRef(f1) \in Seq(Tokens) /\ FreeRef(f2) \in Seq(Tokens) /\ FreeRef(f3) \in Seq(Tokens)
    BY <1>6, FreeRefsThree DEF FieldRefs, f1, f2, f3
  <1>8. FieldRefs(fld) \in Seq(Tokens)
    BY <1>7, OccSum
  <1>9. FreeRawField(e) = FieldRefs(fld) \o FreeAnnotations(v)
    BY <1>4 DEF FreeRawField, FieldRefs, f1, f2, f3
  <1> QED
    BY <1>4, <1>5, <1>8, <1>9, OccSum

(* A method with its slots set holds the lists of the slots.               *)
LEMMA MethodSlotFacts ==
  ASSUME NullApart, NEW mtd, RawMethodParts(mtd), NEW v, FreeAnnotations(v) \in Seq(Tokens),
         NEW w, FreeParameterAnnotations(w) \in Seq(Tokens), NEW e, MethodSlot(mtd, e, v, w)
  PROVE  /\ RawMethodParts(e) /\ e.annotations = v /\ e.parameter_annotations = w
         /\ FreeRawMethod(e) \in Seq(Tokens) /\ MethodRefs(mtd) \in Seq(Tokens)
         /\ \A x : Occurrences(FreeRawMethod(e), x)
                     = Occurrences(MethodRefs(mtd), x) + Occurrences(FreeAnnotations(v), x)
                         + Occurrences(FreeParameterAnnotations(w), x)
  <1> DEFINE f1 == mtd.defining_class
             f2 == mtd.name
             f3 == mtd.prototype
             f4 == mtd.annotations
             f5 == mtd.parameter_annotations
  <1>1. mtd = [defining_class |-> f1, name |-> f2, prototype |-> f3, annotations |-> f4,
               parameter_annotations |-> f5]
        /\ f1 \in Strs /\ f2 \in Strs /\ f3 \in Protos
    BY DEF RawMethodParts
  <1>2. e = [mtd EXCEPT !.annotations = v, !.parameter_annotations = w]
    BY DEF MethodSlot
  <1> HIDE DEF f1, f2, f3, f4, f5
  <1>3. e = [defining_class |-> f1, name |-> f2, prototype |-> f3, annotations |-> v,
             parameter_annotations |-> w]
    BY <1>1, <1>2
  <1>4. e.defining_class = f1 /\ e.name = f2 /\ e.prototype = f3 /\ e.annotations = v
        /\ e.parameter_annotations = w
    BY <1>3
  <1>5. RawMethodParts(e)
    BY <1>1, <1>3, <1>4 DEF RawMethodParts
  <1>6. f1 \in Tokens \cup {NULL} /\ f2 \in Tokens \cup {NULL} /\ f3 \in Tokens \cup {NULL}
    BY <1>1, RefTokens
  <1>7. MethodRefs(mtd) = (FreeRef(f1) \o FreeRef(f2)) \o FreeRef(f3)
        /\ FreeRef(f1) \in Seq(Tokens) /\ FreeRef(f2) \in Seq(Tokens) /\ FreeRef(f3) \in Seq(Tokens)
    BY <1>6, FreeRefsThree DEF MethodRefs, f1, f2, f3
  <1>8. MethodRefs(mtd) \in Seq(Tokens)
    BY <1>7, OccSum
  <1>9. FreeRawMethod(e) = MethodRefs(mtd) \o FreeAnnotations(v) \o FreeParameterAnnotations(w)
    BY <1>4 DEF FreeRawMethod, MethodRefs, f1, f2, f3
  <1> QED
    BY <1>4, <1>5, <1>8, <1>9, Chain3

(* What is freed for the annotations in a slot.                            *)
FreeSlot(slot, v) ==
  IF slot[1] = "parameter" THEN FreeParameterAnnotations(v) ELSE FreeAnnotations(v)

(* The slots for annotations, and what each holds.                         *)
Slots(fs, ms) ==
  {<<"class", 0>>} \cup ({"field"} \X (1..Len(fs))) \cup ({"method", "parameter"} \X (1..Len(ms)))
SlotOf(fs, ms, c, slot) ==
  CASE slot[1] = "class" -> c.annotations
    [] slot[1] = "field" -> fs[slot[2]].annotations
    [] slot[1] = "method" -> ms[slot[2]].annotations
    [] slot[1] = "parameter" -> ms[slot[2]].parameter_annotations

(* The tables of members and the class have the form of structures that    *)
(* can be freed.                                                           *)
Arrays(fs, ms, c) ==
  /\ IsList(fs) /\ \A i \in 1..Len(fs) : RawFieldParts(fs[i])
  /\ IsList(ms) /\ \A i \in 1..Len(ms) : RawMethodParts(ms[i])
  /\ ClassParts(c)

(* The same for what the entries store.                                    *)
StoreGood(fs, ms, c, s, took, exact) ==
  /\ Paid(took, FreeSlot(s[1], s[2]), exact)
  /\ s[2] # NULL => s[1] \in Slots(fs, ms) /\ (exact => SlotOf(fs, ms, c, s[1]) = NULL)
StoresGood(fs, ms, c, stores, tooks, exact) ==
  /\ IsList(stores)
  /\ \A k \in 1..Len(stores) : StoreGood(fs, ms, c, stores[k], PartOf(tooks, k), exact)
  /\ exact => \A k, l \in 1..Len(stores) : k < l /\ stores[l][2] # NULL => ~IsStore(stores[k], stores[l][1])

(* An empty slot holds nothing.                                            *)
LEMMA NullSlot ==
  ASSUME NEW slot
  PROVE  FreeSlot(slot, NULL) = << >>
  BY DEF FreeSlot, FreeParameterAnnotations, FreeAnnotations, FreeArray

(* What a slot holds after some stores is a list of tokens.                *)
LEMMA StoredFree ==
  ASSUME NEW exact, NEW fs, NEW ms, NEW c, NEW stores, NEW tooks, StoresGood(fs, ms, c, stores, tooks, exact),
         NEW k \in 0..Len(stores), NEW slot, NEW old, FreeSlot(slot, old) \in Seq(Tokens)
  PROVE  FreeSlot(slot, Stored(Prefix(stores, k), slot, old)) \in Seq(Tokens)
  <1> DEFINE p == Prefix(stores, k)
  <1>1. DOMAIN p = 1..k /\ \A i \in 1..k : p[i] = stores[i]
    BY DEF Prefix
  <1> HIDE DEF p
  <1>2. k \in Nat /\ 1..k \subseteq 1..Len(stores)
    BY DEF StoresGood, IsList
  <1>3. \/ Stored(p, slot, old) = old
        \/ \E i \in 1..k : IsStore(p[i], slot) /\ Stored(p, slot, old) = p[i][2]
    BY <1>1, <1>2, StoredCases
  <1>4. CASE Stored(p, slot, old) = old
    BY <1>4 DEF p
  <1>5. CASE \E i \in 1..k : IsStore(p[i], slot) /\ Stored(p, slot, old) = p[i][2]
    <2>1. PICK i \in 1..k : IsStore(stores[i], slot) /\ Stored(p, slot, old) = stores[i][2]
      BY <1>1, <1>5
    <2>2. StoreGood(fs, ms, c, stores[i], PartOf(tooks, i), exact)
      BY <1>2 DEF StoresGood
    <2>3. FreeSlot(stores[i][1], stores[i][2]) \in Seq(Tokens)
      BY <2>2 DEF StoreGood, Paid
    <2> QED
      BY <2>1, <2>3 DEF IsStore, p
  <1> QED
    BY <1>3, <1>4, <1>5

(* The slots hold what the functions that free annotations release.        *)
LEMMA SlotsFree ==
  ASSUME NEW exact, NEW fs, NEW ms, NEW c, Arrays(fs, ms, c), NEW stores, NEW tooks,
         StoresGood(fs, ms, c, stores, tooks, exact), NEW k \in 0..Len(stores)
  PROVE  LET p == Prefix(stores, k)
         IN  /\ \A i \in 1..Len(fs) :
                  FreeAnnotations(Stored(p, <<"field", i>>, fs[i].annotations)) \in Seq(Tokens)
             /\ \A i \in 1..Len(ms) :
                  /\ FreeAnnotations(Stored(p, <<"method", i>>, ms[i].annotations)) \in Seq(Tokens)
                  /\ FreeParameterAnnotations(Stored(p, <<"parameter", i>>, ms[i].parameter_annotations))
                       \in Seq(Tokens)
             /\ FreeAnnotations(Stored(p, <<"class", 0>>, c.annotations)) \in Seq(Tokens)
  <1> DEFINE p == Prefix(stores, k)
  <1>1. ASSUME NEW i \in 1..Len(fs)
        PROVE  FreeAnnotations(Stored(p, <<"field", i>>, fs[i].annotations)) \in Seq(Tokens)
    <2> DEFINE slot == <<"field", i>>
    <2>1. slot[1] # "parameter"
      OBVIOUS
    <2>2. FreeAnnotations(fs[i].annotations) \in Seq(Tokens)
      BY DEF Arrays, RawFieldParts
    <2> HIDE DEF slot
    <2>3. FreeSlot(slot, fs[i].annotations) \in Seq(Tokens)
      BY <2>1, <2>2 DEF FreeSlot
    <2>4. FreeSlot(slot, Stored(p, slot, fs[i].annotations)) \in Seq(Tokens)
      BY <2>3, StoredFree
    <2> QED
      BY <2>1, <2>4 DEF FreeSlot, slot
  <1>2. ASSUME NEW i \in 1..Len(ms)
        PROVE  FreeAnnotations(Stored(p, <<"method", i>>, ms[i].annotations)) \in Seq(Tokens)
    <2> DEFINE slot == <<"method", i>>
    <2>1. slot[1] # "parameter"
      OBVIOUS
    <2>2. FreeAnnotations(ms[i].annotations) \in Seq(Tokens)
      BY DEF Arrays, RawMethodParts
    <2> HIDE DEF slot
    <2>3. FreeSlot(slot, ms[i].annotations) \in Seq(Tokens)
      BY <2>1, <2>2 DEF FreeSlot
    <2>4. FreeSlot(slot, Stored(p, slot, ms[i].annotations)) \in Seq(Tokens)
      BY <2>3, StoredFree
    <2> QED
      BY <2>1, <2>4 DEF FreeSlot, slot
  <1>3. ASSUME NEW i \in 1..Len(ms)
        PROVE  FreeParameterAnnotations(Stored(p, <<"parameter", i>>, ms[i].parameter_annotations)) \in Seq(Tokens)
    <2> DEFINE slot == <<"parameter", i>>
    <2>1. slot[1] = "parameter"
      OBVIOUS
    <2>2. FreeParameterAnnotations(ms[i].parameter_annotations) \in Seq(Tokens)
      BY DEF Arrays, RawMethodParts
    <2> HIDE DEF slot
    <2>3. FreeSlot(slot, ms[i].parameter_annotations) \in Seq(Tokens)
      BY <2>1, <2>2 DEF FreeSlot
    <2>4. FreeSlot(slot, Stored(p, slot, ms[i].parameter_annotations)) \in Seq(Tokens)
      BY <2>3, StoredFree
    <2> QED
      BY <2>1, <2>4 DEF FreeSlot, slot
  <1>4. FreeAnnotations(Stored(p, <<"class", 0>>, c.annotations)) \in Seq(Tokens)
    <2> DEFINE slot == <<"class", 0>>
    <2>1. slot[1] # "parameter"
      OBVIOUS
    <2>2. FreeAnnotations(c.annotations) \in Seq(Tokens)
      BY DEF Arrays, ClassParts
    <2> HIDE DEF slot
    <2>3. FreeSlot(slot, c.annotations) \in Seq(Tokens)
      BY <2>1, <2>2 DEF FreeSlot
    <2>4. FreeSlot(slot, Stored(p, slot, c.annotations)) \in Seq(Tokens)
      BY <2>3, StoredFree
    <2> QED
      BY <2>1, <2>4 DEF FreeSlot, slot
  <1> QED
    BY <1>1, <1>2, <1>3, <1>4

(* The arrays after the first k stores.                                    *)
FieldsGood(fs, us, p) ==
  /\ IsList(us) /\ Len(us) = Len(fs)
  /\ \A i \in 1..Len(fs) :
       /\ FieldSlot(fs[i], us[i], Stored(p, <<"field", i>>, fs[i].annotations))
       /\ RawFieldParts(us[i]) /\ us[i].annotations = Stored(p, <<"field", i>>, fs[i].annotations)
       /\ FreeRawField(us[i]) \in Seq(Tokens)
       /\ FreeAnnotations(us[i].annotations) \in Seq(Tokens) /\ FieldRefs(fs[i]) \in Seq(Tokens)
       /\ \A x : Occurrences(FreeRawField(us[i]), x)
                   = Occurrences(FieldRefs(fs[i]), x) + Occurrences(FreeAnnotations(us[i].annotations), x)

(* The entries us of the table of methods are those of ms with the         *)
(* annotations of p stored in them.                                        *)
MethodsGood(ms, us, p) ==
  /\ IsList(us) /\ Len(us) = Len(ms)
  /\ \A i \in 1..Len(ms) :
       /\ MethodSlot(ms[i], us[i], Stored(p, <<"method", i>>, ms[i].annotations),
                     Stored(p, <<"parameter", i>>, ms[i].parameter_annotations))
       /\ RawMethodParts(us[i]) /\ us[i].annotations = Stored(p, <<"method", i>>, ms[i].annotations)
       /\ us[i].parameter_annotations = Stored(p, <<"parameter", i>>, ms[i].parameter_annotations)
       /\ FreeRawMethod(us[i]) \in Seq(Tokens)
       /\ FreeAnnotations(us[i].annotations) \in Seq(Tokens)
       /\ FreeParameterAnnotations(us[i].parameter_annotations) \in Seq(Tokens)
       /\ MethodRefs(ms[i]) \in Seq(Tokens)
       /\ \A x : Occurrences(FreeRawMethod(us[i]), x)
                   = Occurrences(MethodRefs(ms[i]), x) + Occurrences(FreeAnnotations(us[i].annotations), x)
                       + Occurrences(FreeParameterAnnotations(us[i].parameter_annotations), x)

(* The class d is c with its own annotations stored in it.                 *)
ClassGood(c, d, p) ==
  /\ ClassParts(d) /\ d.annotations = Stored(p, <<"class", 0>>, c.annotations)
  /\ PartSet(c, d, "annotations", d.annotations) /\ d.name = c.name
  /\ \A part \in PartNames \ {"annotations"} : d[part] = c[part]
  /\ FreeClass(d) \in Seq(Tokens) /\ FreeAnnotations(d.annotations) \in Seq(Tokens)
  /\ FreeClass(c) \in Seq(Tokens) /\ FreeAnnotations(c.annotations) \in Seq(Tokens)
  /\ \A x : Occurrences(FreeClass(d), x) + Occurrences(FreeAnnotations(c.annotations), x)
              = Occurrences(FreeClass(c), x) + Occurrences(FreeAnnotations(d.annotations), x)

(* A field has a slot.                                                     *)
LEMMA RawFieldHas ==
  ASSUME NEW fld, RawFieldParts(fld)
  PROVE  "annotations" \in DOMAIN fld
  <1> DEFINE f1 == fld.defining_class
             f2 == fld.type
             f3 == fld.name
             f4 == fld.annotations
  <1>1. fld = [defining_class |-> f1, type |-> f2, name |-> f3, annotations |-> f4]
    BY DEF RawFieldParts
  <1> HIDE DEF f1, f2, f3, f4
  <1> QED
    BY <1>1
(* A method has two slots.                                                 *)
LEMMA RawMethodHas ==
  ASSUME NEW mtd, RawMethodParts(mtd)
  PROVE  "annotations" \in DOMAIN mtd /\ "parameter_annotations" \in DOMAIN mtd
  <1> DEFINE f1 == mtd.defining_class
             f2 == mtd.name
             f3 == mtd.prototype
             f4 == mtd.annotations
             f5 == mtd.parameter_annotations
  <1>1. mtd = [defining_class |-> f1, name |-> f2, prototype |-> f3, annotations |-> f4,
               parameter_annotations |-> f5]
    BY DEF RawMethodParts
  <1> HIDE DEF f1, f2, f3, f4, f5
  <1> QED
    BY <1>1

(* The sections and the class after some of the stores.                    *)
LEMMA ArraysAt ==
  ASSUME NullApart, NEW exact, NEW fs, NEW ms, NEW c, Arrays(fs, ms, c), NEW stores, NEW tooks,
         StoresGood(fs, ms, c, stores, tooks, exact), NEW k \in 0..Len(stores),
         NEW p, p = Prefix(stores, k)
  PROVE  FieldsGood(fs, FieldsAt(fs, p), p) /\ MethodsGood(ms, MethodsAt(ms, p), p)
         /\ ClassGood(c, ClassAt(c, p), p)
  <1>0. /\ \A i \in 1..Len(fs) :
             FreeAnnotations(Stored(p, <<"field", i>>, fs[i].annotations)) \in Seq(Tokens)
        /\ \A i \in 1..Len(ms) :
             /\ FreeAnnotations(Stored(p, <<"method", i>>, ms[i].annotations)) \in Seq(Tokens)
             /\ FreeParameterAnnotations(Stored(p, <<"parameter", i>>, ms[i].parameter_annotations))
                  \in Seq(Tokens)
        /\ FreeAnnotations(Stored(p, <<"class", 0>>, c.annotations)) \in Seq(Tokens)
    BY SlotsFree
  <1>1. FieldsGood(fs, FieldsAt(fs, p), p)
    <2> DEFINE us == FieldsAt(fs, p)
    <2>1. DOMAIN fs = 1..Len(fs) /\ Len(fs) \in Nat /\ \A i \in 1..Len(fs) : RawFieldParts(fs[i])
      BY ListFacts DEF Arrays
    <2>2. us = [i \in 1..Len(fs) |-> [fs[i] EXCEPT !.annotations = Stored(p, <<"field", i>>, fs[i].annotations)]]
      BY <2>1, RawFieldHas DEF FieldsAt
    <2>3. IsList(us) /\ Len(us) = Len(fs)
      <3>1. us = [i \in 1..Len(fs) |-> us[i]]
        BY <2>2
      <3> HIDE DEF us
      <3> QED
        BY <2>1, <3>1, ListOf
    <2>4. ASSUME NEW i \in 1..Len(fs)
          PROVE  /\ FieldSlot(fs[i], us[i], Stored(p, <<"field", i>>, fs[i].annotations))
                 /\ RawFieldParts(us[i]) /\ us[i].annotations = Stored(p, <<"field", i>>, fs[i].annotations)
                 /\ FreeRawField(us[i]) \in Seq(Tokens)
                 /\ FreeAnnotations(us[i].annotations) \in Seq(Tokens) /\ FieldRefs(fs[i]) \in Seq(Tokens)
                 /\ \A x : Occurrences(FreeRawField(us[i]), x)
                             = Occurrences(FieldRefs(fs[i]), x) + Occurrences(FreeAnnotations(us[i].annotations), x)
      <3> DEFINE v == Stored(p, <<"field", i>>, fs[i].annotations)
                 fld == fs[i]
                 e == us[i]
      <3>1. FieldSlot(fld, e, v)
        BY <2>2 DEF FieldSlot
      <3>2. FreeAnnotations(v) \in Seq(Tokens) /\ RawFieldParts(fld)
        BY <1>0, <2>1
      <3> HIDE DEF v, fld, e
      <3>3. /\ RawFieldParts(e) /\ e.annotations = v /\ FreeRawField(e) \in Seq(Tokens)
            /\ FieldRefs(fld) \in Seq(Tokens)
            /\ \A x : Occurrences(FreeRawField(e), x)
                     = Occurrences(FieldRefs(fld), x) + Occurrences(FreeAnnotations(v), x)
        BY <3>1, <3>2, FieldSlotFacts
      <3> QED
        BY <3>1, <3>2, <3>3 DEF v, fld, e
    <2> HIDE DEF us
    <2> QED
      BY <2>3, <2>4 DEF FieldsGood, us
  <1>2. MethodsGood(ms, MethodsAt(ms, p), p)
    <2> DEFINE us == MethodsAt(ms, p)
    <2>1. DOMAIN ms = 1..Len(ms) /\ Len(ms) \in Nat /\ \A i \in 1..Len(ms) : RawMethodParts(ms[i])
      BY ListFacts DEF Arrays
    <2>2. us = [i \in 1..Len(ms) |->
                  [ms[i] EXCEPT !.annotations = Stored(p, <<"method", i>>, ms[i].annotations),
                                !.parameter_annotations = Stored(p, <<"parameter", i>>, ms[i].parameter_annotations)]]
      BY <2>1, RawMethodHas DEF MethodsAt
    <2>3. IsList(us) /\ Len(us) = Len(ms)
      <3>1. us = [i \in 1..Len(ms) |-> us[i]]
        BY <2>2
      <3> HIDE DEF us
      <3> QED
        BY <2>1, <3>1, ListOf
    <2>4. ASSUME NEW i \in 1..Len(ms)
          PROVE  /\ MethodSlot(ms[i], us[i], Stored(p, <<"method", i>>, ms[i].annotations),
                               Stored(p, <<"parameter", i>>, ms[i].parameter_annotations))
                 /\ RawMethodParts(us[i]) /\ us[i].annotations = Stored(p, <<"method", i>>, ms[i].annotations)
                 /\ us[i].parameter_annotations = Stored(p, <<"parameter", i>>, ms[i].parameter_annotations)
                 /\ FreeRawMethod(us[i]) \in Seq(Tokens)
                 /\ FreeAnnotations(us[i].annotations) \in Seq(Tokens)
                 /\ FreeParameterAnnotations(us[i].parameter_annotations) \in Seq(Tokens)
                 /\ MethodRefs(ms[i]) \in Seq(Tokens)
                 /\ \A x : Occurrences(FreeRawMethod(us[i]), x)
                             = Occurrences(MethodRefs(ms[i]), x) + Occurrences(FreeAnnotations(us[i].annotations), x)
                                 + Occurrences(FreeParameterAnnotations(us[i].parameter_annotations), x)
      <3> DEFINE v == Stored(p, <<"method", i>>, ms[i].annotations)
                 w == Stored(p, <<"parameter", i>>, ms[i].parameter_annotations)
                 mtd == ms[i]
                 e == us[i]
      <3>1. MethodSlot(mtd, e, v, w)
        BY <2>2 DEF MethodSlot
      <3>2. FreeAnnotations(v) \in Seq(Tokens) /\ FreeParameterAnnotations(w) \in Seq(Tokens) /\ RawMethodParts(mtd)
        BY <1>0, <2>1
      <3> HIDE DEF v, w, mtd, e
      <3>3. /\ RawMethodParts(e) /\ e.annotations = v /\ e.parameter_annotations = w
            /\ FreeRawMethod(e) \in Seq(Tokens) /\ MethodRefs(mtd) \in Seq(Tokens)
            /\ \A x : Occurrences(FreeRawMethod(e), x)
                     = Occurrences(MethodRefs(mtd), x) + Occurrences(FreeAnnotations(v), x)
                         + Occurrences(FreeParameterAnnotations(w), x)
        BY <3>1, <3>2, MethodSlotFacts
      <3> QED
        BY <3>1, <3>2, <3>3 DEF v, w, mtd, e
    <2> HIDE DEF us
    <2> QED
      BY <2>3, <2>4 DEF MethodsGood, us
  <1>3. ClassGood(c, ClassAt(c, p), p)
    <2> DEFINE v == Stored(p, <<"class", 0>>, c.annotations)
               d == ClassAt(c, p)
    <2>1. ClassParts(c) /\ FreeAnnotations(v) \in Seq(Tokens)
      BY <1>0 DEF Arrays
    <2>2. d = [c EXCEPT !["annotations"] = v]
      BY DEF ClassAt
    <2>3. PartSet(c, d, "annotations", v)
      BY <2>2 DEF PartSet
    <2>4. /\ "annotations" \in PartNames /\ \A w : FreePart("annotations", w) = FreeAnnotations(w)
      BY DEF PartNames, FreePart
    <2> HIDE DEF v, d
    <2>5. /\ ClassParts(d) /\ d["annotations"] = v /\ d.name = c.name
          /\ \A part \in PartNames \ {"annotations"} : d[part] = c[part]
          /\ \A x : Occurrences(FreeClass(d), x) + Occurrences(FreePart("annotations", c["annotations"]), x)
                    = Occurrences(FreeClass(c), x) + Occurrences(FreePart("annotations", v), x)
      BY <2>1, <2>3, <2>4, PartChange
    <2>6. FreeClass(d) \in Seq(Tokens) /\ FreeClass(c) \in Seq(Tokens) /\ FreeAnnotations(c.annotations) \in Seq(Tokens)
      BY <2>1, <2>5, ClassSum DEF ClassParts
    <2>7. \A x : Occurrences(FreeClass(d), x) + Occurrences(FreeAnnotations(c.annotations), x)
                   = Occurrences(FreeClass(c), x) + Occurrences(FreeAnnotations(d.annotations), x)
      BY <2>4, <2>5
    <2> QED
      BY <2>1, <2>3, <2>5, <2>6, <2>7 DEF ClassGood, v, d
  <1> QED
    BY <1>1, <1>2, <1>3

(* Arrays in which a store changed at most the slots of entry j.           *)
SameSlots(ms, p, q, i) ==
  /\ Stored(q, <<"method", i>>, ms[i].annotations) = Stored(p, <<"method", i>>, ms[i].annotations)
  /\ Stored(q, <<"parameter", i>>, ms[i].parameter_annotations)
       = Stored(p, <<"parameter", i>>, ms[i].parameter_annotations)

(* Two lists of stores that agree on the slot of field i.                  *)
SameSlot(fs, p, q, i) ==
  Stored(q, <<"field", i>>, fs[i].annotations) = Stored(p, <<"field", i>>, fs[i].annotations)

(* A field is determined by its slot.                                      *)
LEMMA FieldSlotOne ==
  ASSUME NEW fld, NEW d, NEW e, NEW v, NEW w, FieldSlot(fld, d, v), FieldSlot(fld, e, w), v = w
  PROVE  d = e
  BY DEF FieldSlot
(* A method is determined by its slots.                                    *)
LEMMA MethodSlotOne ==
  ASSUME NEW mtd, NEW d, NEW e, NEW v, NEW w, NEW a, NEW b, MethodSlot(mtd, d, v, a),
         MethodSlot(mtd, e, w, b), v = w, a = b
  PROVE  d = e
  BY DEF MethodSlot
(* A field whose slot does not change stays the same.                      *)
LEMMA FieldKept ==
  ASSUME NEW fs, NEW us, NEW vs, NEW p, NEW q, FieldsGood(fs, us, p), FieldsGood(fs, vs, q),
         NEW i \in 1..Len(fs), SameSlot(fs, p, q, i)
  PROVE  vs[i] = us[i]
  <1>1. FieldSlot(fs[i], us[i], Stored(p, <<"field", i>>, fs[i].annotations))
    BY DEF FieldsGood
  <1>2. FieldSlot(fs[i], vs[i], Stored(q, <<"field", i>>, fs[i].annotations))
    BY DEF FieldsGood
  <1> DEFINE v == Stored(p, <<"field", i>>, fs[i].annotations)
             w == Stored(q, <<"field", i>>, fs[i].annotations)
             fld == fs[i]
             d == us[i]
             e == vs[i]
  <1>3. v = w /\ FieldSlot(fld, d, v) /\ FieldSlot(fld, e, w)
    BY <1>1, <1>2 DEF SameSlot
  <1> HIDE DEF v, w, fld, d, e
  <1>4. d = e
    BY <1>3, FieldSlotOne
  <1> QED
    BY <1>4 DEF d, e
(* A method whose slots do not change stays the same.                      *)
LEMMA MethodKept ==
  ASSUME NEW ms, NEW us, NEW vs, NEW p, NEW q, MethodsGood(ms, us, p), MethodsGood(ms, vs, q),
         NEW i \in 1..Len(ms), SameSlots(ms, p, q, i)
  PROVE  vs[i] = us[i]
  <1>1. MethodSlot(ms[i], us[i], Stored(p, <<"method", i>>, ms[i].annotations),
                   Stored(p, <<"parameter", i>>, ms[i].parameter_annotations))
    BY DEF MethodsGood
  <1>2. MethodSlot(ms[i], vs[i], Stored(q, <<"method", i>>, ms[i].annotations),
                   Stored(q, <<"parameter", i>>, ms[i].parameter_annotations))
    BY DEF MethodsGood
  <1> DEFINE v == Stored(p, <<"method", i>>, ms[i].annotations)
             w == Stored(q, <<"method", i>>, ms[i].annotations)
             a == Stored(p, <<"parameter", i>>, ms[i].parameter_annotations)
             b == Stored(q, <<"parameter", i>>, ms[i].parameter_annotations)
             mtd == ms[i]
             d == us[i]
             e == vs[i]
  <1>3. v = w /\ a = b /\ MethodSlot(mtd, d, v, a) /\ MethodSlot(mtd, e, w, b)
    BY <1>1, <1>2 DEF SameSlots
  <1> HIDE DEF v, w, a, b, mtd, d, e
  <1>4. d = e
    BY <1>3, MethodSlotOne
  <1> QED
    BY <1>4 DEF d, e

(* Fields whose slots do not change stay the same.                         *)
LEMMA FieldsSame ==
  ASSUME NEW fs, NEW us, NEW vs, NEW p, NEW q, FieldsGood(fs, us, p), FieldsGood(fs, vs, q),
         \A i \in 1..Len(fs) : SameSlot(fs, p, q, i)
  PROVE  vs = us
  <1>1. IsList(us) /\ IsList(vs) /\ Len(us) = Len(vs) /\ Len(us) = Len(fs)
    BY DEF FieldsGood
  <1>2. \A i \in 1..Len(fs) : us[i] = vs[i]
    BY FieldKept
  <1> QED
    BY <1>1, <1>2 DEF IsList

(* Methods whose slots do not change stay the same.                        *)
LEMMA MethodsSame ==
  ASSUME NEW ms, NEW us, NEW vs, NEW p, NEW q, MethodsGood(ms, us, p), MethodsGood(ms, vs, q),
         \A i \in 1..Len(ms) : SameSlots(ms, p, q, i)
  PROVE  vs = us
  <1>1. IsList(us) /\ IsList(vs) /\ Len(us) = Len(vs) /\ Len(us) = Len(ms)
    BY DEF MethodsGood
  <1>2. \A i \in 1..Len(ms) : us[i] = vs[i]
    BY MethodKept
  <1> QED
    BY <1>1, <1>2 DEF IsList

(* When one field changes, the section releases its new list instead of    *)
(* the old one.                                                            *)
LEMMA FieldsOne ==
  ASSUME NullApart, NEW fs, NEW us, NEW vs, NEW p, NEW q, FieldsGood(fs, us, p), FieldsGood(fs, vs, q),
         NEW j \in 1..Len(fs), \A i \in 1..Len(fs) : i # j => SameSlot(fs, p, q, i), NEW x
  PROVE  Occurrences(FreeRawFieldArray(vs), x) + Occurrences(FreeAnnotations(us[j].annotations), x)
           = Occurrences(FreeRawFieldArray(us), x) + Occurrences(FreeAnnotations(vs[j].annotations), x)
  <1>1. IsList(us) /\ IsList(vs) /\ Len(us) = Len(vs) /\ Len(us) = Len(fs)
    BY DEF FieldsGood
  <1>2. \A i \in 1..Len(fs) : i # j => vs[i] = us[i]
    BY FieldKept
  <1>3. Updated(us, vs, j, vs[j])
    BY <1>1, <1>2 DEF Updated
  <1>4. \A i \in 1..Len(us) : FreeRawField(us[i]) \in Seq(Tokens)
    BY <1>1 DEF FieldsGood
  <1>5. FreeRawField(vs[j]) \in Seq(Tokens) /\ FreeRawField(us[j]) \in Seq(Tokens) /\ j \in 1..Len(us)
    BY <1>1 DEF FieldsGood
  <1> DEFINE new == vs[j]
             old == us[j]
  <1>6. Updated(us, vs, j, new) /\ FreeRawField(new) \in Seq(Tokens) /\ old = us[j]
    BY <1>3, <1>5
  <1>7. /\ FieldRefs(fs[j]) \in Seq(Tokens) /\ FreeAnnotations(old.annotations) \in Seq(Tokens)
        /\ FreeAnnotations(new.annotations) \in Seq(Tokens)
        /\ Occurrences(FreeRawField(old), x)
             = Occurrences(FieldRefs(fs[j]), x) + Occurrences(FreeAnnotations(old.annotations), x)
        /\ Occurrences(FreeRawField(new), x)
             = Occurrences(FieldRefs(fs[j]), x) + Occurrences(FreeAnnotations(new.annotations), x)
    BY DEF FieldsGood
  <1> HIDE DEF new, old
  <1>8. /\ FreeRawFieldArray(vs) \in Seq(Tokens)
        /\ Occurrences(FreeRawFieldArray(vs), x) + Occurrences(FreeRawField(old), x)
                        = Occurrences(FreeRawFieldArray(us), x) + Occurrences(FreeRawField(new), x)
    BY <1>1, <1>4, <1>5, <1>6, RawFieldsChange, SMTT(20)
  <1>9. FreeRawFieldArray(us) \in Seq(Tokens)
    BY <1>1, <1>4, RawFieldsFree
  <1> DEFINE a == Occurrences(FreeRawFieldArray(vs), x)
             b == Occurrences(FreeRawFieldArray(us), x)
             o == Occurrences(FreeAnnotations(old.annotations), x)
             n == Occurrences(FreeAnnotations(new.annotations), x)
             r == Occurrences(FieldRefs(fs[j]), x)
             fo == Occurrences(FreeRawField(old), x)
             fn == Occurrences(FreeRawField(new), x)
  <1>10. a \in Nat /\ b \in Nat /\ o \in Nat /\ n \in Nat /\ r \in Nat
    BY <1>7, <1>8, <1>9, OccNat
  <1>11. fo = r + o /\ fn = r + n /\ a + fo = b + fn
    BY <1>7, <1>8
  <1>12. a + o = b + n
    <2> HIDE DEF a, b, o, n, r, fo, fn
    <2> QED
      BY <1>10, <1>11
  <1> QED
    BY <1>12 DEF new, old

(* When one method changes, the section releases its new lists instead of  *)
(* the old ones.                                                           *)
LEMMA MethodsOne ==
  ASSUME NullApart, NEW ms, NEW us, NEW vs, NEW p, NEW q, MethodsGood(ms, us, p), MethodsGood(ms, vs, q),
         NEW j \in 1..Len(ms), \A i \in 1..Len(ms) : i # j => SameSlots(ms, p, q, i), NEW x
  PROVE  (Occurrences(FreeRawMethodArray(vs), x) + Occurrences(FreeAnnotations(us[j].annotations), x))
             + Occurrences(FreeParameterAnnotations(us[j].parameter_annotations), x)
           = (Occurrences(FreeRawMethodArray(us), x) + Occurrences(FreeAnnotations(vs[j].annotations), x))
               + Occurrences(FreeParameterAnnotations(vs[j].parameter_annotations), x)
  <1>1. IsList(us) /\ IsList(vs) /\ Len(us) = Len(vs) /\ Len(us) = Len(ms)
    BY DEF MethodsGood
  <1>2. \A i \in 1..Len(ms) : i # j => vs[i] = us[i]
    BY MethodKept
  <1>3. Updated(us, vs, j, vs[j])
    BY <1>1, <1>2 DEF Updated
  <1>4. \A i \in 1..Len(us) : FreeRawMethod(us[i]) \in Seq(Tokens)
    BY <1>1 DEF MethodsGood
  <1>5. FreeRawMethod(vs[j]) \in Seq(Tokens) /\ FreeRawMethod(us[j]) \in Seq(Tokens) /\ j \in 1..Len(us)
    BY <1>1 DEF MethodsGood
  <1> DEFINE new == vs[j]
             old == us[j]
  <1>6. Updated(us, vs, j, new) /\ FreeRawMethod(new) \in Seq(Tokens) /\ old = us[j]
    BY <1>3, <1>5
  <1>7. /\ MethodRefs(ms[j]) \in Seq(Tokens) /\ FreeAnnotations(old.annotations) \in Seq(Tokens)
        /\ FreeAnnotations(new.annotations) \in Seq(Tokens)
        /\ FreeParameterAnnotations(old.parameter_annotations) \in Seq(Tokens)
        /\ FreeParameterAnnotations(new.parameter_annotations) \in Seq(Tokens)
        /\ Occurrences(FreeRawMethod(old), x)
             = Occurrences(MethodRefs(ms[j]), x) + Occurrences(FreeAnnotations(old.annotations), x)
                 + Occurrences(FreeParameterAnnotations(old.parameter_annotations), x)
        /\ Occurrences(FreeRawMethod(new), x)
             = Occurrences(MethodRefs(ms[j]), x) + Occurrences(FreeAnnotations(new.annotations), x)
                 + Occurrences(FreeParameterAnnotations(new.parameter_annotations), x)
    BY DEF MethodsGood
  <1> HIDE DEF new, old
  <1>8. /\ FreeRawMethodArray(vs) \in Seq(Tokens)
        /\ Occurrences(FreeRawMethodArray(vs), x) + Occurrences(FreeRawMethod(old), x)
                        = Occurrences(FreeRawMethodArray(us), x) + Occurrences(FreeRawMethod(new), x)
    BY <1>1, <1>4, <1>5, <1>6, RawMethodsChange, SMTT(20)
  <1>9. FreeRawMethodArray(us) \in Seq(Tokens)
    BY <1>1, <1>4, RawMethodsFree
  <1> DEFINE a == Occurrences(FreeRawMethodArray(vs), x)
             b == Occurrences(FreeRawMethodArray(us), x)
             o == Occurrences(FreeAnnotations(old.annotations), x)
             n == Occurrences(FreeAnnotations(new.annotations), x)
             g == Occurrences(FreeParameterAnnotations(old.parameter_annotations), x)
             h == Occurrences(FreeParameterAnnotations(new.parameter_annotations), x)
             r == Occurrences(MethodRefs(ms[j]), x)
             fo == Occurrences(FreeRawMethod(old), x)
             fn == Occurrences(FreeRawMethod(new), x)
  <1>10. a \in Nat /\ b \in Nat /\ o \in Nat /\ n \in Nat /\ r \in Nat /\ g \in Nat /\ h \in Nat
    BY <1>7, <1>8, <1>9, OccNat
  <1>11. fo = (r + o) + g /\ fn = (r + n) + h /\ a + fo = b + fn
    BY <1>7, <1>8
  <1>12. (a + o) + g = (b + n) + h
    <2> HIDE DEF a, b, o, n, r, fo, fn, g, h
    <2> QED
      BY <1>10, <1>11
  <1> QED
    BY <1>12 DEF new, old

(* When the annotations of the class change, it releases the new list      *)
(* instead of the old one.                                                 *)
LEMMA ClassOne ==
  ASSUME NEW c, NEW d, NEW e, NEW p, NEW q, ClassGood(c, d, p), ClassGood(c, e, q), NEW x
  PROVE  Occurrences(FreeClass(e), x) + Occurrences(FreeAnnotations(d.annotations), x)
           = Occurrences(FreeClass(d), x) + Occurrences(FreeAnnotations(e.annotations), x)
  <1> DEFINE a == Occurrences(FreeClass(e), x)
             b == Occurrences(FreeClass(d), x)
             r == Occurrences(FreeClass(c), x)
             o == Occurrences(FreeAnnotations(d.annotations), x)
             n == Occurrences(FreeAnnotations(e.annotations), x)
             g == Occurrences(FreeAnnotations(c.annotations), x)
  <1>1. a \in Nat /\ b \in Nat /\ o \in Nat /\ n \in Nat /\ r \in Nat /\ g \in Nat
    BY OccNat DEF ClassGood
  <1>2. a + g = r + n /\ b + g = r + o
    BY DEF ClassGood
  <1> HIDE DEF a, b, r, o, n, g
  <1>3. a + o = b + n
    BY <1>1, <1>2
  <1> QED
    BY <1>3 DEF a, b, o, n

(* A class whose slot does not change stays the same.                      *)
LEMMA ClassSame ==
  ASSUME NEW c, NEW d, NEW e, NEW p, NEW q, ClassGood(c, d, p), ClassGood(c, e, q),
         Stored(q, <<"class", 0>>, c.annotations) = Stored(p, <<"class", 0>>, c.annotations)
  PROVE  e = d
  BY DEF ClassGood, PartSet

(* What the arrays and the class release after the stores p.               *)
SW(fs, ms, c, p, x) ==
  (Occurrences(FreeRawFieldArray(FieldsAt(fs, p)), x) + Occurrences(FreeRawMethodArray(MethodsAt(ms, p)), x))
    + Occurrences(FreeClass(ClassAt(c, p)), x)

(* The sum of what the sections and the class hold is a number.            *)
LEMMA SWNat ==
  ASSUME NullApart, NEW exact, NEW fs, NEW ms, NEW c, Arrays(fs, ms, c), NEW stores, NEW tooks,
         StoresGood(fs, ms, c, stores, tooks, exact), NEW k \in 0..Len(stores),
         NEW p, p = Prefix(stores, k), NEW x
  PROVE  /\ FreeRawFieldArray(FieldsAt(fs, p)) \in Seq(Tokens)
         /\ FreeRawMethodArray(MethodsAt(ms, p)) \in Seq(Tokens)
         /\ FreeClass(ClassAt(c, p)) \in Seq(Tokens)
         /\ Occurrences(FreeRawFieldArray(FieldsAt(fs, p)), x) \in Nat
         /\ Occurrences(FreeRawMethodArray(MethodsAt(ms, p)), x) \in Nat
         /\ Occurrences(FreeClass(ClassAt(c, p)), x) \in Nat
         /\ SW(fs, ms, c, p, x) \in Nat
  <1> DEFINE us == FieldsAt(fs, p)
             ns == MethodsAt(ms, p)
             d == ClassAt(c, p)
  <1>1. FieldsGood(fs, us, p) /\ MethodsGood(ms, ns, p) /\ ClassGood(c, d, p)
    BY ArraysAt
  <1> HIDE DEF us, ns, d
  <1>2. IsList(us) /\ \A i \in 1..Len(us) : FreeRawField(us[i]) \in Seq(Tokens)
    BY <1>1 DEF FieldsGood
  <1>3. IsList(ns) /\ \A i \in 1..Len(ns) : FreeRawMethod(ns[i]) \in Seq(Tokens)
    BY <1>1 DEF MethodsGood
  <1>4. FreeRawFieldArray(us) \in Seq(Tokens)
    BY <1>2, RawFieldsFree
  <1>5. FreeRawMethodArray(ns) \in Seq(Tokens)
    BY <1>3, RawMethodsFree
  <1>6. FreeClass(d) \in Seq(Tokens)
    BY <1>1 DEF ClassGood
  <1>7. /\ Occurrences(FreeRawFieldArray(us), x) \in Nat /\ Occurrences(FreeRawMethodArray(ns), x) \in Nat
        /\ Occurrences(FreeClass(d), x) \in Nat
    BY <1>4, <1>5, <1>6, OccNat
  <1> QED
    BY <1>4, <1>5, <1>6, <1>7 DEF us, ns, d, SW

(* The slot keeps what a store puts there, every other slot stays.         *)
OneStored(p, q, slot, v) ==
  /\ \A old : Stored(q, slot, old) = v
  /\ \A other, old : other # slot => Stored(q, other, old) = Stored(p, other, old)

(* A store to the slot of a field.                                         *)
LEMMA FieldStored ==
  ASSUME NullApart, NEW fs, NEW us, NEW vs, NEW p, NEW q, FieldsGood(fs, us, p), FieldsGood(fs, vs, q),
         NEW v, NEW j \in 1..Len(fs), NEW slot, slot = <<"field", j>>, OneStored(p, q, slot, v), NEW x
  PROVE  /\ us[j].annotations = Stored(p, slot, fs[j].annotations)
         /\ FreeAnnotations(us[j].annotations) \in Seq(Tokens)
         /\ Occurrences(FreeRawFieldArray(vs), x) + Occurrences(FreeAnnotations(us[j].annotations), x)
              = Occurrences(FreeRawFieldArray(us), x) + Occurrences(FreeAnnotations(v), x)
  <1>1. ASSUME NEW i \in 1..Len(fs), i # j PROVE SameSlot(fs, p, q, i)
    <2>1. <<"field", i>> # slot
      BY <1>1
    <2> QED
      BY <2>1 DEF OneStored, SameSlot
  <1>2. us[j].annotations = Stored(p, slot, fs[j].annotations) /\ FreeAnnotations(us[j].annotations) \in Seq(Tokens)
    BY DEF FieldsGood
  <1>3. vs[j].annotations = v
    BY DEF FieldsGood, OneStored
  <1>4. Occurrences(FreeRawFieldArray(vs), x) + Occurrences(FreeAnnotations(us[j].annotations), x)
          = Occurrences(FreeRawFieldArray(us), x) + Occurrences(FreeAnnotations(vs[j].annotations), x)
    BY <1>1, FieldsOne
  <1> QED
    BY <1>2, <1>3, <1>4

(* A store to the slot of a method.                                        *)
LEMMA MethodStored ==
  ASSUME NullApart, NEW ms, NEW us, NEW vs, NEW p, NEW q, MethodsGood(ms, us, p), MethodsGood(ms, vs, q),
         NEW v, NEW j \in 1..Len(ms), NEW slot, slot = <<"method", j>>, OneStored(p, q, slot, v), NEW x
  PROVE  /\ us[j].annotations = Stored(p, slot, ms[j].annotations)
         /\ FreeAnnotations(us[j].annotations) \in Seq(Tokens)
         /\ FreeAnnotations(v) \in Seq(Tokens)
         /\ FreeRawMethodArray(us) \in Seq(Tokens) /\ FreeRawMethodArray(vs) \in Seq(Tokens)
         /\ Occurrences(FreeRawMethodArray(vs), x) + Occurrences(FreeAnnotations(us[j].annotations), x)
              = Occurrences(FreeRawMethodArray(us), x) + Occurrences(FreeAnnotations(v), x)
  <1>1. ASSUME NEW i \in 1..Len(ms), i # j PROVE SameSlots(ms, p, q, i)
    <2>1. <<"method", i>> # slot /\ <<"parameter", i>> # slot
      BY <1>1
    <2> QED
      BY <2>1 DEF OneStored, SameSlots
  <1>2. us[j].annotations = Stored(p, slot, ms[j].annotations) /\ FreeAnnotations(us[j].annotations) \in Seq(Tokens)
        /\ FreeAnnotations(vs[j].annotations) \in Seq(Tokens)
        /\ FreeParameterAnnotations(us[j].parameter_annotations) \in Seq(Tokens)
        /\ us[j].parameter_annotations = Stored(p, <<"parameter", j>>, ms[j].parameter_annotations)
        /\ vs[j].parameter_annotations = Stored(q, <<"parameter", j>>, ms[j].parameter_annotations)
    BY DEF MethodsGood
  <1>3. vs[j].annotations = v
    BY DEF MethodsGood, OneStored
  <1>4. vs[j].parameter_annotations = us[j].parameter_annotations
    <2>1. <<"parameter", j>> # slot
      OBVIOUS
    <2> QED
      BY <1>2, <2>1 DEF OneStored
  <1>5. (Occurrences(FreeRawMethodArray(vs), x) + Occurrences(FreeAnnotations(us[j].annotations), x))
             + Occurrences(FreeParameterAnnotations(us[j].parameter_annotations), x)
           = (Occurrences(FreeRawMethodArray(us), x) + Occurrences(FreeAnnotations(vs[j].annotations), x))
               + Occurrences(FreeParameterAnnotations(vs[j].parameter_annotations), x)
    BY <1>1, MethodsOne
  <1>6. FreeRawMethodArray(us) \in Seq(Tokens) /\ FreeRawMethodArray(vs) \in Seq(Tokens)
    <2>1. IsList(us) /\ \A i \in 1..Len(us) : FreeRawMethod(us[i]) \in Seq(Tokens)
      BY DEF MethodsGood
    <2>2. IsList(vs) /\ \A i \in 1..Len(vs) : FreeRawMethod(vs[i]) \in Seq(Tokens)
      BY DEF MethodsGood
    <2>3. FreeRawMethodArray(us) \in Seq(Tokens)
      BY <2>1, RawMethodsFree
    <2>4. FreeRawMethodArray(vs) \in Seq(Tokens)
      BY <2>2, RawMethodsFree
    <2> QED
      BY <2>3, <2>4
  <1> DEFINE a == Occurrences(FreeRawMethodArray(vs), x)
             b == Occurrences(FreeRawMethodArray(us), x)
             o == Occurrences(FreeAnnotations(us[j].annotations), x)
             n == Occurrences(FreeAnnotations(v), x)
             g == Occurrences(FreeParameterAnnotations(us[j].parameter_annotations), x)
  <1>7. a \in Nat /\ b \in Nat /\ o \in Nat /\ n \in Nat /\ g \in Nat
    BY <1>2, <1>3, <1>6, OccNat
  <1>8. (a + o) + g = (b + n) + g
    BY <1>3, <1>4, <1>5
  <1>9. a + o = b + n
    <2> HIDE DEF a, b, o, n, g
    <2> QED
      BY <1>7, <1>8
  <1> QED
    BY <1>2, <1>3, <1>6, <1>9

(* A store to the slot for the parameters of a method.                     *)
LEMMA ParameterStored ==
  ASSUME NullApart, NEW ms, NEW us, NEW vs, NEW p, NEW q, MethodsGood(ms, us, p), MethodsGood(ms, vs, q),
         NEW v, NEW j \in 1..Len(ms), NEW slot, slot = <<"parameter", j>>, OneStored(p, q, slot, v), NEW x
  PROVE  /\ us[j].parameter_annotations = Stored(p, slot, ms[j].parameter_annotations)
         /\ FreeParameterAnnotations(us[j].parameter_annotations) \in Seq(Tokens)
         /\ FreeParameterAnnotations(v) \in Seq(Tokens)
         /\ FreeRawMethodArray(us) \in Seq(Tokens) /\ FreeRawMethodArray(vs) \in Seq(Tokens)
         /\ Occurrences(FreeRawMethodArray(vs), x) + Occurrences(FreeParameterAnnotations(us[j].parameter_annotations), x)
              = Occurrences(FreeRawMethodArray(us), x) + Occurrences(FreeParameterAnnotations(v), x)
  <1>1. ASSUME NEW i \in 1..Len(ms), i # j PROVE SameSlots(ms, p, q, i)
    <2>1. <<"method", i>> # slot /\ <<"parameter", i>> # slot
      BY <1>1
    <2> QED
      BY <2>1 DEF OneStored, SameSlots
  <1>2. /\ us[j].parameter_annotations = Stored(p, slot, ms[j].parameter_annotations)
        /\ FreeParameterAnnotations(us[j].parameter_annotations) \in Seq(Tokens)
        /\ FreeParameterAnnotations(vs[j].parameter_annotations) \in Seq(Tokens)
        /\ FreeAnnotations(us[j].annotations) \in Seq(Tokens)
        /\ us[j].annotations = Stored(p, <<"method", j>>, ms[j].annotations)
        /\ vs[j].annotations = Stored(q, <<"method", j>>, ms[j].annotations)
    BY DEF MethodsGood
  <1>3. vs[j].parameter_annotations = v
    BY DEF MethodsGood, OneStored
  <1>4. vs[j].annotations = us[j].annotations
    <2>1. <<"method", j>> # slot
      OBVIOUS
    <2> QED
      BY <1>2, <2>1 DEF OneStored
  <1>5. (Occurrences(FreeRawMethodArray(vs), x) + Occurrences(FreeAnnotations(us[j].annotations), x))
             + Occurrences(FreeParameterAnnotations(us[j].parameter_annotations), x)
           = (Occurrences(FreeRawMethodArray(us), x) + Occurrences(FreeAnnotations(vs[j].annotations), x))
               + Occurrences(FreeParameterAnnotations(vs[j].parameter_annotations), x)
    BY <1>1, MethodsOne
  <1>6. FreeRawMethodArray(us) \in Seq(Tokens) /\ FreeRawMethodArray(vs) \in Seq(Tokens)
    <2>1. IsList(us) /\ \A i \in 1..Len(us) : FreeRawMethod(us[i]) \in Seq(Tokens)
      BY DEF MethodsGood
    <2>2. IsList(vs) /\ \A i \in 1..Len(vs) : FreeRawMethod(vs[i]) \in Seq(Tokens)
      BY DEF MethodsGood
    <2>3. FreeRawMethodArray(us) \in Seq(Tokens)
      BY <2>1, RawMethodsFree
    <2>4. FreeRawMethodArray(vs) \in Seq(Tokens)
      BY <2>2, RawMethodsFree
    <2> QED
      BY <2>3, <2>4
  <1> DEFINE a == Occurrences(FreeRawMethodArray(vs), x)
             b == Occurrences(FreeRawMethodArray(us), x)
             o == Occurrences(FreeAnnotations(us[j].annotations), x)
             n == Occurrences(FreeParameterAnnotations(v), x)
             g == Occurrences(FreeParameterAnnotations(us[j].parameter_annotations), x)
  <1>7. a \in Nat /\ b \in Nat /\ o \in Nat /\ n \in Nat /\ g \in Nat
    BY <1>2, <1>3, <1>6, OccNat
  <1>8. (a + o) + g = (b + o) + n
    BY <1>3, <1>4, <1>5
  <1>9. a + g = b + n
    <2> HIDE DEF a, b, o, n, g
    <2> QED
      BY <1>7, <1>8
  <1> QED
    BY <1>2, <1>3, <1>6, <1>9

(* The next store changes one slot, or none.                               *)
LEMMA NextStored ==
  ASSUME NEW stores, NEW k \in Nat, NEW p, p = Prefix(stores, k), NEW q, q = Prefix(stores, k + 1),
         NEW slot, slot = stores[k + 1][1], NEW v, v = stores[k + 1][2]
  PROVE  /\ v # NULL => OneStored(p, q, slot, v)
         /\ v = NULL => \A other, old : Stored(q, other, old) = Stored(p, other, old)
  BY StoredNext DEF OneStored, IsStore

(* A store adds its list to the sum and loses the one that was in the      *)
(* slot.                                                                   *)
LEMMA SlotCounts ==
  ASSUME NullApart, NEW exact, NEW fs, NEW ms, NEW c, Arrays(fs, ms, c), NEW stores, NEW tooks,
         StoresGood(fs, ms, c, stores, tooks, exact), NEW k \in 0..(Len(stores) - 1),
         NEW p, p = Prefix(stores, k), NEW q, q = Prefix(stores, k + 1),
         NEW slot, slot = stores[k + 1][1], NEW v, v = stores[k + 1][2], v # NULL,
         slot \in Slots(fs, ms), NEW old, old = Stored(p, slot, SlotOf(fs, ms, c, slot)), NEW x
  PROVE  /\ FreeSlot(slot, old) \in Seq(Tokens)
         /\ SW(fs, ms, c, q, x) + Occurrences(FreeSlot(slot, old), x)
              = SW(fs, ms, c, p, x) + Occurrences(FreeSlot(slot, v), x)
  <1> DEFINE us == FieldsAt(fs, p)
             ns == MethodsAt(ms, p)
             d == ClassAt(c, p)
             vs == FieldsAt(fs, q)
             os == MethodsAt(ms, q)
             e == ClassAt(c, q)
  <1>0. Len(stores) \in Nat /\ k \in Nat /\ k \in 0..Len(stores) /\ k + 1 \in 0..Len(stores) /\ k + 1 \in 1..Len(stores)
    BY DEF StoresGood, IsList
  <1>1. FieldsGood(fs, us, p) /\ MethodsGood(ms, ns, p) /\ ClassGood(c, d, p)
    BY <1>0, ArraysAt
  <1>2. FieldsGood(fs, vs, q) /\ MethodsGood(ms, os, q) /\ ClassGood(c, e, q)
    BY <1>0, ArraysAt
  <1>3. OneStored(p, q, slot, v)
    BY <1>0, NextStored
  <1>4. FreeSlot(slot, v) \in Seq(Tokens)
    BY <1>0 DEF StoresGood, StoreGood, Paid
  <1>5. /\ Occurrences(FreeRawFieldArray(us), x) \in Nat /\ Occurrences(FreeRawMethodArray(ns), x) \in Nat
        /\ Occurrences(FreeClass(d), x) \in Nat
        /\ SW(fs, ms, c, p, x) = (Occurrences(FreeRawFieldArray(us), x) + Occurrences(FreeRawMethodArray(ns), x))
                                    + Occurrences(FreeClass(d), x)
    BY <1>0, SWNat DEF SW
  <1>6. /\ Occurrences(FreeRawFieldArray(vs), x) \in Nat /\ Occurrences(FreeRawMethodArray(os), x) \in Nat
        /\ Occurrences(FreeClass(e), x) \in Nat
        /\ SW(fs, ms, c, q, x) = (Occurrences(FreeRawFieldArray(vs), x) + Occurrences(FreeRawMethodArray(os), x))
                                    + Occurrences(FreeClass(e), x)
    BY <1>0, SWNat DEF SW
  <1> HIDE DEF us, ns, d, vs, os, e
  <1>7. CASE slot = <<"class", 0>>
    <2>1. ASSUME NEW i \in 1..Len(fs) PROVE SameSlot(fs, p, q, i)
      <3>1. <<"field", i>> # slot
        BY <1>7
      <3> QED
        BY <1>3, <3>1 DEF OneStored, SameSlot
    <2>2. ASSUME NEW i \in 1..Len(ms) PROVE SameSlots(ms, p, q, i)
      <3>1. <<"method", i>> # slot /\ <<"parameter", i>> # slot
        BY <1>7
      <3> QED
        BY <1>3, <3>1 DEF OneStored, SameSlots
    <2>3. vs = us
      BY <1>1, <1>2, <2>1, FieldsSame
    <2>4. os = ns
      BY <1>1, <1>2, <2>2, MethodsSame
    <2>5. Occurrences(FreeClass(e), x) + Occurrences(FreeAnnotations(d.annotations), x)
           = Occurrences(FreeClass(d), x) + Occurrences(FreeAnnotations(e.annotations), x)
      BY <1>1, <1>2, ClassOne
    <2>6. SlotOf(fs, ms, c, slot) = c.annotations /\ slot[1] # "parameter"
      BY <1>7 DEF SlotOf
    <2>7. d.annotations = old /\ e.annotations = v /\ FreeAnnotations(d.annotations) \in Seq(Tokens)
      BY <1>1, <1>2, <1>3, <1>7, <2>6 DEF ClassGood, OneStored
    <2>8. FreeSlot(slot, old) = FreeAnnotations(old) /\ FreeSlot(slot, v) = FreeAnnotations(v)
      BY <2>6 DEF FreeSlot
    <2>9. Occurrences(FreeAnnotations(old), x) \in Nat /\ Occurrences(FreeAnnotations(v), x) \in Nat
      BY <1>4, <2>7, <2>8, OccNat
    <2>10. Occurrences(FreeClass(e), x) + Occurrences(FreeAnnotations(old), x)
            = Occurrences(FreeClass(d), x) + Occurrences(FreeAnnotations(v), x)
      BY <2>5, <2>7
    <2>11. SW(fs, ms, c, q, x) = (Occurrences(FreeRawFieldArray(us), x) + Occurrences(FreeRawMethodArray(ns), x))
                                    + Occurrences(FreeClass(e), x)
      BY <1>6, <2>3, <2>4
    <2>12. SW(fs, ms, c, q, x) + Occurrences(FreeSlot(slot, old), x)
             = SW(fs, ms, c, p, x) + Occurrences(FreeSlot(slot, v), x)
      <3> DEFINE u == Occurrences(FreeRawFieldArray(us), x)
                 n == Occurrences(FreeRawMethodArray(ns), x)
                 d1 == Occurrences(FreeClass(d), x)
                 e1 == Occurrences(FreeClass(e), x)
                 o1 == Occurrences(FreeAnnotations(old), x)
                 v1 == Occurrences(FreeAnnotations(v), x)
                 wp == SW(fs, ms, c, p, x)
                 wq == SW(fs, ms, c, q, x)
      <3>1. u \in Nat /\ n \in Nat /\ d1 \in Nat /\ e1 \in Nat /\ o1 \in Nat /\ v1 \in Nat
        BY <1>5, <1>6, <2>9
      <3>2. wp = (u + n) + d1 /\ wq = (u + n) + e1
        BY <1>5, <2>11
      <3>3. e1 + o1 = d1 + v1
        BY <2>10
      <3> HIDE DEF u, n, d1, e1, o1, v1, wp, wq
      <3>4. wq + o1 = wp + v1
        BY <3>1, <3>2, <3>3
      <3> QED
        BY <2>8, <3>4 DEF wp, wq, o1, v1
    <2> QED
      BY <2>7, <2>8, <2>12
  <1>8. ASSUME NEW j \in 1..Len(fs), slot = <<"field", j>>
        PROVE  /\ FreeSlot(slot, old) \in Seq(Tokens)
               /\ SW(fs, ms, c, q, x) + Occurrences(FreeSlot(slot, old), x)
                    = SW(fs, ms, c, p, x) + Occurrences(FreeSlot(slot, v), x)
    <2>2. ASSUME NEW i \in 1..Len(ms) PROVE SameSlots(ms, p, q, i)
      <3>1. <<"method", i>> # slot /\ <<"parameter", i>> # slot
        BY <1>8
      <3> QED
        BY <1>3, <3>1 DEF OneStored, SameSlots
    <2>3. e = d
      <3>1. <<"class", 0>> # slot
        BY <1>8
      <3>2. Stored(q, <<"class", 0>>, c.annotations) = Stored(p, <<"class", 0>>, c.annotations)
        BY <1>3, <3>1 DEF OneStored
      <3> QED
        BY <1>1, <1>2, <3>2, ClassSame
    <2>4. os = ns
      BY <1>1, <1>2, <2>2, MethodsSame
    <2>5. /\ us[j].annotations = Stored(p, slot, fs[j].annotations)
          /\ FreeAnnotations(us[j].annotations) \in Seq(Tokens)
          /\ Occurrences(FreeRawFieldArray(vs), x) + Occurrences(FreeAnnotations(us[j].annotations), x)
               = Occurrences(FreeRawFieldArray(us), x) + Occurrences(FreeAnnotations(v), x)
      BY <1>1, <1>2, <1>3, <1>8, FieldStored
    <2>6. SlotOf(fs, ms, c, slot) = fs[j].annotations /\ slot[1] # "parameter"
      BY <1>8 DEF SlotOf
    <2>7. us[j].annotations = old
      BY <2>5, <2>6
    <2>8. FreeSlot(slot, old) = FreeAnnotations(old) /\ FreeSlot(slot, v) = FreeAnnotations(v)
      BY <2>6 DEF FreeSlot
    <2>9. Occurrences(FreeAnnotations(old), x) \in Nat /\ Occurrences(FreeAnnotations(v), x) \in Nat
      BY <1>4, <2>5, <2>7, <2>8, OccNat
    <2>10. Occurrences(FreeRawFieldArray(vs), x) + Occurrences(FreeAnnotations(old), x)
             = Occurrences(FreeRawFieldArray(us), x) + Occurrences(FreeAnnotations(v), x)
      BY <2>5, <2>7
    <2>11. SW(fs, ms, c, q, x) = (Occurrences(FreeRawFieldArray(vs), x) + Occurrences(FreeRawMethodArray(ns), x))
                                    + Occurrences(FreeClass(d), x)
      BY <1>6, <2>3, <2>4
    <2>12. SW(fs, ms, c, q, x) + Occurrences(FreeSlot(slot, old), x)
             = SW(fs, ms, c, p, x) + Occurrences(FreeSlot(slot, v), x)
      <3> DEFINE u == Occurrences(FreeRawFieldArray(us), x)
                 n == Occurrences(FreeRawMethodArray(ns), x)
                 d1 == Occurrences(FreeClass(d), x)
                 e1 == Occurrences(FreeRawFieldArray(vs), x)
                 o1 == Occurrences(FreeAnnotations(old), x)
                 v1 == Occurrences(FreeAnnotations(v), x)
                 wp == SW(fs, ms, c, p, x)
                 wq == SW(fs, ms, c, q, x)
      <3>1. u \in Nat /\ n \in Nat /\ d1 \in Nat /\ e1 \in Nat /\ o1 \in Nat /\ v1 \in Nat
        BY <1>5, <1>6, <2>9
      <3>2. wp = (u + n) + d1 /\ wq = (e1 + n) + d1
        BY <1>5, <2>11
      <3>3. e1 + o1 = u + v1
        BY <2>10
      <3> HIDE DEF u, n, d1, e1, o1, v1, wp, wq
      <3>4. wq + o1 = wp + v1
        BY <3>1, <3>2, <3>3
      <3> QED
        BY <2>8, <3>4 DEF wp, wq, o1, v1
    <2> QED
      BY <2>5, <2>7, <2>8, <2>12
  <1>9. ASSUME NEW j \in 1..Len(ms), slot = <<"method", j>>
        PROVE  /\ FreeSlot(slot, old) \in Seq(Tokens)
               /\ SW(fs, ms, c, q, x) + Occurrences(FreeSlot(slot, old), x)
                    = SW(fs, ms, c, p, x) + Occurrences(FreeSlot(slot, v), x)
    <2>2. ASSUME NEW i \in 1..Len(fs) PROVE SameSlot(fs, p, q, i)
      <3>1. <<"field", i>> # slot
        BY <1>9
      <3> QED
        BY <1>3, <3>1 DEF OneStored, SameSlot
    <2>3. e = d
      <3>1. <<"class", 0>> # slot
        BY <1>9
      <3>2. Stored(q, <<"class", 0>>, c.annotations) = Stored(p, <<"class", 0>>, c.annotations)
        BY <1>3, <3>1 DEF OneStored
      <3> QED
        BY <1>1, <1>2, <3>2, ClassSame
    <2>4. vs = us
      BY <1>1, <1>2, <2>2, FieldsSame
    <2>5. /\ ns[j].annotations = Stored(p, slot, ms[j].annotations)
          /\ FreeAnnotations(ns[j].annotations) \in Seq(Tokens)
          /\ Occurrences(FreeRawMethodArray(os), x) + Occurrences(FreeAnnotations(ns[j].annotations), x)
               = Occurrences(FreeRawMethodArray(ns), x) + Occurrences(FreeAnnotations(v), x)
      BY <1>1, <1>2, <1>3, <1>9, MethodStored
    <2>6. SlotOf(fs, ms, c, slot) = ms[j].annotations /\ slot[1] # "parameter"
      BY <1>9 DEF SlotOf
    <2>7. ns[j].annotations = old
      BY <2>5, <2>6
    <2>8. FreeSlot(slot, old) = FreeAnnotations(old) /\ FreeSlot(slot, v) = FreeAnnotations(v)
      BY <2>6 DEF FreeSlot
    <2>9. Occurrences(FreeAnnotations(old), x) \in Nat /\ Occurrences(FreeAnnotations(v), x) \in Nat
      BY <1>4, <2>5, <2>7, <2>8, OccNat
    <2>10. Occurrences(FreeRawMethodArray(os), x) + Occurrences(FreeAnnotations(old), x)
             = Occurrences(FreeRawMethodArray(ns), x) + Occurrences(FreeAnnotations(v), x)
      BY <2>5, <2>7
    <2>11. SW(fs, ms, c, q, x) = (Occurrences(FreeRawFieldArray(us), x) + Occurrences(FreeRawMethodArray(os), x))
                                    + Occurrences(FreeClass(d), x)
      BY <1>6, <2>3, <2>4
    <2>12. SW(fs, ms, c, q, x) + Occurrences(FreeSlot(slot, old), x)
             = SW(fs, ms, c, p, x) + Occurrences(FreeSlot(slot, v), x)
      <3> DEFINE u == Occurrences(FreeRawFieldArray(us), x)
                 n == Occurrences(FreeRawMethodArray(ns), x)
                 d1 == Occurrences(FreeClass(d), x)
                 e1 == Occurrences(FreeRawMethodArray(os), x)
                 o1 == Occurrences(FreeAnnotations(old), x)
                 v1 == Occurrences(FreeAnnotations(v), x)
                 wp == SW(fs, ms, c, p, x)
                 wq == SW(fs, ms, c, q, x)
      <3>1. u \in Nat /\ n \in Nat /\ d1 \in Nat /\ e1 \in Nat /\ o1 \in Nat /\ v1 \in Nat
        BY <1>5, <1>6, <2>9
      <3>2. wp = (u + n) + d1 /\ wq = (u + e1) + d1
        BY <1>5, <2>11
      <3>3. e1 + o1 = n + v1
        BY <2>10
      <3> HIDE DEF u, n, d1, e1, o1, v1, wp, wq
      <3>4. wq + o1 = wp + v1
        BY <3>1, <3>2, <3>3
      <3> QED
        BY <2>8, <3>4 DEF wp, wq, o1, v1
    <2> QED
      BY <2>5, <2>7, <2>8, <2>12
  <1>10. ASSUME NEW j \in 1..Len(ms), slot = <<"parameter", j>>
        PROVE  /\ FreeSlot(slot, old) \in Seq(Tokens)
               /\ SW(fs, ms, c, q, x) + Occurrences(FreeSlot(slot, old), x)
                    = SW(fs, ms, c, p, x) + Occurrences(FreeSlot(slot, v), x)
    <2>2. ASSUME NEW i \in 1..Len(fs) PROVE SameSlot(fs, p, q, i)
      <3>1. <<"field", i>> # slot
        BY <1>10
      <3> QED
        BY <1>3, <3>1 DEF OneStored, SameSlot
    <2>3. e = d
      <3>1. <<"class", 0>> # slot
        BY <1>10
      <3>2. Stored(q, <<"class", 0>>, c.annotations) = Stored(p, <<"class", 0>>, c.annotations)
        BY <1>3, <3>1 DEF OneStored
      <3> QED
        BY <1>1, <1>2, <3>2, ClassSame
    <2>4. vs = us
      BY <1>1, <1>2, <2>2, FieldsSame
    <2>5. /\ ns[j].parameter_annotations = Stored(p, slot, ms[j].parameter_annotations)
          /\ FreeParameterAnnotations(ns[j].parameter_annotations) \in Seq(Tokens)
          /\ Occurrences(FreeRawMethodArray(os), x) + Occurrences(FreeParameterAnnotations(ns[j].parameter_annotations), x)
               = Occurrences(FreeRawMethodArray(ns), x) + Occurrences(FreeParameterAnnotations(v), x)
      BY <1>1, <1>2, <1>3, <1>10, ParameterStored
    <2>6. SlotOf(fs, ms, c, slot) = ms[j].parameter_annotations /\ slot[1] = "parameter"
      BY <1>10 DEF SlotOf
    <2>7. ns[j].parameter_annotations = old
      BY <2>5, <2>6
    <2>8. FreeSlot(slot, old) = FreeParameterAnnotations(old) /\ FreeSlot(slot, v) = FreeParameterAnnotations(v)
      BY <2>6 DEF FreeSlot
    <2>9. Occurrences(FreeParameterAnnotations(old), x) \in Nat /\ Occurrences(FreeParameterAnnotations(v), x) \in Nat
      BY <1>4, <2>5, <2>7, <2>8, OccNat
    <2>10. Occurrences(FreeRawMethodArray(os), x) + Occurrences(FreeParameterAnnotations(old), x)
             = Occurrences(FreeRawMethodArray(ns), x) + Occurrences(FreeParameterAnnotations(v), x)
      BY <2>5, <2>7
    <2>11. SW(fs, ms, c, q, x) = (Occurrences(FreeRawFieldArray(us), x) + Occurrences(FreeRawMethodArray(os), x))
                                    + Occurrences(FreeClass(d), x)
      BY <1>6, <2>3, <2>4
    <2>12. SW(fs, ms, c, q, x) + Occurrences(FreeSlot(slot, old), x)
             = SW(fs, ms, c, p, x) + Occurrences(FreeSlot(slot, v), x)
      <3> DEFINE u == Occurrences(FreeRawFieldArray(us), x)
                 n == Occurrences(FreeRawMethodArray(ns), x)
                 d1 == Occurrences(FreeClass(d), x)
                 e1 == Occurrences(FreeRawMethodArray(os), x)
                 o1 == Occurrences(FreeParameterAnnotations(old), x)
                 v1 == Occurrences(FreeParameterAnnotations(v), x)
                 wp == SW(fs, ms, c, p, x)
                 wq == SW(fs, ms, c, q, x)
      <3>1. u \in Nat /\ n \in Nat /\ d1 \in Nat /\ e1 \in Nat /\ o1 \in Nat /\ v1 \in Nat
        BY <1>5, <1>6, <2>9
      <3>2. wp = (u + n) + d1 /\ wq = (u + e1) + d1
        BY <1>5, <2>11
      <3>3. e1 + o1 = n + v1
        BY <2>10
      <3> HIDE DEF u, n, d1, e1, o1, v1, wp, wq
      <3>4. wq + o1 = wp + v1
        BY <3>1, <3>2, <3>3
      <3> QED
        BY <2>8, <3>4 DEF wp, wq, o1, v1
    <2> QED
      BY <2>5, <2>7, <2>8, <2>12
  <1>11. \/ slot = <<"class", 0>> \/ \E j \in 1..Len(fs) : slot = <<"field", j>>
         \/ \E j \in 1..Len(ms) : slot = <<"method", j>> \/ slot = <<"parameter", j>>
    BY DEF Slots
  <1> QED
    BY <1>7, <1>8, <1>9, <1>10, <1>11

(* One store adds what was taken for its list; exactly when the slot was   *)
(* empty.                                                                  *)
LEMMA SlotStep ==
  ASSUME NullApart, NEW exact, NEW fs, NEW ms, NEW c, Arrays(fs, ms, c), NEW stores, NEW tooks,
         StoresGood(fs, ms, c, stores, tooks, exact), NEW k \in 0..(Len(stores) - 1), NEW x
  PROVE  /\ SW(fs, ms, c, Prefix(stores, k + 1), x)
              <= SW(fs, ms, c, Prefix(stores, k), x) + Occurrences(PartOf(tooks, k + 1), x)
         /\ exact => SW(fs, ms, c, Prefix(stores, k + 1), x)
                       = SW(fs, ms, c, Prefix(stores, k), x) + Occurrences(PartOf(tooks, k + 1), x)
  <1> DEFINE p == Prefix(stores, k)
             q == Prefix(stores, k + 1)
             s == stores[k + 1]
             slot == s[1]
             v == s[2]
             took == PartOf(tooks, k + 1)
             t == Occurrences(took, x)
             free == Occurrences(FreeSlot(slot, v), x)
             a == SW(fs, ms, c, q, x)
             b == SW(fs, ms, c, p, x)
  <1>0. Len(stores) \in Nat /\ k \in Nat /\ k \in 0..Len(stores) /\ k + 1 \in 0..Len(stores) /\ k + 1 \in 1..Len(stores)
    BY DEF StoresGood, IsList
  <1>1. StoreGood(fs, ms, c, s, took, exact)
    BY <1>0 DEF StoresGood
  <1>2. a \in Nat /\ b \in Nat
    <2>1. a \in Nat
      BY <1>0, SWNat
    <2>2. b \in Nat
      BY <1>0, SWNat
    <2> QED
      BY <2>1, <2>2
  <1>3. free \in Nat /\ t \in Nat /\ free <= t
    BY <1>1, OccNat DEF StoreGood, Paid
  <1>4. exact => free = t
    BY <1>1 DEF StoreGood, Paid
  <1>5. CASE v = NULL
    <2>1. \A other, old : Stored(q, other, old) = Stored(p, other, old)
      BY <1>0, <1>5, NextStored
    <2> DEFINE us == FieldsAt(fs, p)
               ns == MethodsAt(ms, p)
               d == ClassAt(c, p)
               vs == FieldsAt(fs, q)
               os == MethodsAt(ms, q)
               e == ClassAt(c, q)
    <2>2. FieldsGood(fs, us, p) /\ MethodsGood(ms, ns, p) /\ ClassGood(c, d, p)
      BY <1>0, ArraysAt
    <2>3. FieldsGood(fs, vs, q) /\ MethodsGood(ms, os, q) /\ ClassGood(c, e, q)
      BY <1>0, ArraysAt
    <2>4. b = (Occurrences(FreeRawFieldArray(us), x) + Occurrences(FreeRawMethodArray(ns), x))
                                    + Occurrences(FreeClass(d), x)
          /\ a = (Occurrences(FreeRawFieldArray(vs), x) + Occurrences(FreeRawMethodArray(os), x))
                                    + Occurrences(FreeClass(e), x)
      BY DEF SW
    <2> HIDE DEF us, ns, d, vs, os, e, a, b
    <2>5. vs = us
      <3>1. \A i \in 1..Len(fs) : SameSlot(fs, p, q, i)
        BY <2>1 DEF SameSlot
      <3> HIDE DEF p, q
      <3> QED
        BY <2>2, <2>3, <3>1, FieldsSame
    <2>6. os = ns
      <3>1. \A i \in 1..Len(ms) : SameSlots(ms, p, q, i)
        BY <2>1 DEF SameSlots
      <3> HIDE DEF p, q
      <3> QED
        BY <2>2, <2>3, <3>1, MethodsSame
    <2>7. e = d
      <3>1. Stored(q, <<"class", 0>>, c.annotations) = Stored(p, <<"class", 0>>, c.annotations)
        BY <2>1
      <3> HIDE DEF p, q
      <3> QED
        BY <2>2, <2>3, <3>1, ClassSame
    <2>8. a = b
      BY <2>4, <2>5, <2>6, <2>7
    <2>9. free = 0
      BY <1>5, NullSlot, OccEmpty
    <2> HIDE DEF t, free, p, q
    <2>10. a <= b + t
      BY <1>2, <1>3, <2>8
    <2>11. exact => a = b + t
      BY <1>2, <1>4, <2>8, <2>9
    <2> QED
      BY <2>10, <2>11 DEF a, b, t, p, q
  <1>6. CASE v # NULL
    <2> DEFINE old == Stored(p, slot, SlotOf(fs, ms, c, slot))
               o == Occurrences(FreeSlot(slot, old), x)
    <2>1. slot \in Slots(fs, ms)
      BY <1>1, <1>6 DEF StoreGood
    <2>2. FreeSlot(slot, old) \in Seq(Tokens) /\ a + o = b + free
      BY <1>0, <1>6, <2>1, SlotCounts
    <2>3. o \in Nat
      BY <2>2, OccNat
    <2>4. exact => o = 0
      <3>1. ASSUME exact PROVE o = 0
        <4>1. SlotOf(fs, ms, c, slot) = NULL
          BY <1>1, <1>6, <3>1 DEF StoreGood
        <4>2. \A i \in 1..k : ~IsStore(stores[i], slot)
          <5>1. ASSUME NEW i \in 1..k PROVE ~IsStore(stores[i], slot)
            <6>1. i \in 1..Len(stores) /\ i < k + 1
              BY <1>0
            <6> QED
              BY <1>0, <1>6, <3>1, <6>1 DEF StoresGood
          <5> QED
            BY <5>1
        <4>3. old = NULL
          BY <1>0, <4>1, <4>2, StoredFresh
        <4> QED
          BY <4>3, NullSlot, OccEmpty
      <3> QED
        BY <3>1
    <2> HIDE DEF o, old, t, free, a, b
    <2>5. a <= b + t
      BY <1>2, <1>3, <2>2, <2>3
    <2>6. exact => a = b + t
      <3>1. ASSUME exact PROVE a = b + t
        <4>1. o = 0 /\ free = t
          BY <1>4, <2>4, <3>1
        <4> QED
          BY <1>2, <1>3, <2>2, <4>1
      <3> QED
        BY <3>1
    <2> QED
      BY <2>5, <2>6 DEF a, b, t
  <1> QED
    BY <1>5, <1>6

(* A field with its slot set to what is there stays the same.              *)
LEMMA FieldSlotSelf ==
  ASSUME NEW fld, RawFieldParts(fld), NEW e, NEW v, FieldSlot(fld, e, v), v = fld.annotations
  PROVE  e = fld
  <1> DEFINE f1 == fld.defining_class
             f2 == fld.type
             f3 == fld.name
             f4 == fld.annotations
  <1>1. fld = [defining_class |-> f1, type |-> f2, name |-> f3, annotations |-> f4]
    BY DEF RawFieldParts
  <1>2. e = [fld EXCEPT !.annotations = f4]
    BY DEF FieldSlot
  <1> HIDE DEF f1, f2, f3, f4
  <1> QED
    BY <1>1, <1>2
(* A method with its slots set to what is there stays the same.            *)
LEMMA MethodSlotSelf ==
  ASSUME NEW mtd, RawMethodParts(mtd), NEW e, NEW v, NEW w, MethodSlot(mtd, e, v, w),
         v = mtd.annotations, w = mtd.parameter_annotations
  PROVE  e = mtd
  <1> DEFINE f1 == mtd.defining_class
             f2 == mtd.name
             f3 == mtd.prototype
             f4 == mtd.annotations
             f5 == mtd.parameter_annotations
  <1>1. mtd = [defining_class |-> f1, name |-> f2, prototype |-> f3, annotations |-> f4,
               parameter_annotations |-> f5]
    BY DEF RawMethodParts
  <1>2. e = [mtd EXCEPT !.annotations = v, !.parameter_annotations = w] /\ v = f4 /\ w = f5
    BY DEF MethodSlot
  <1> HIDE DEF f1, f2, f3, f4, f5
  <1>3. e = [defining_class |-> f1, name |-> f2, prototype |-> f3, annotations |-> v,
             parameter_annotations |-> w]
    BY <1>1, <1>2
  <1> QED
    BY <1>1, <1>2, <1>3
(* A class with its annotations set to what is there stays the same.       *)
LEMMA ClassSelf ==
  ASSUME NEW c, ClassParts(c), NEW d, NEW v, PartSet(c, d, "annotations", v), v = c.annotations
  PROVE  d = c
  <1> DEFINE f1 == c.name
             f2 == c.super_class
             f3 == c.source_file
             f4 == c.interfaces
             f5 == c.annotations
             f6 == c.static_values
             f7 == c.static_fields
             f8 == c.instance_fields
             f9 == c.direct_methods
             f0 == c.virtual_methods
  <1>1. c = [name |-> f1, super_class |-> f2, source_file |-> f3, interfaces |-> f4,
             annotations |-> f5, static_values |-> f6, static_fields |-> f7,
             instance_fields |-> f8, direct_methods |-> f9, virtual_methods |-> f0]
    BY DEF ClassParts
  <1>2. d = [c EXCEPT !["annotations"] = v] /\ v = f5
    BY DEF PartSet
  <1> HIDE DEF f1, f2, f3, f4, f5, f6, f7, f8, f9, f0
  <1>3. d = [name |-> f1, super_class |-> f2, source_file |-> f3, interfaces |-> f4,
             annotations |-> v, static_values |-> f6, static_fields |-> f7,
             instance_fields |-> f8, direct_methods |-> f9, virtual_methods |-> f0]
    BY <1>1, <1>2
  <1> QED
    BY <1>1, <1>2, <1>3

(* Before the first store.                                                 *)
LEMMA NoStores ==
  ASSUME NullApart, NEW exact, NEW fs, NEW ms, NEW c, Arrays(fs, ms, c), NEW stores, NEW tooks,
         StoresGood(fs, ms, c, stores, tooks, exact), NEW x
  PROVE  SW(fs, ms, c, Prefix(stores, 0), x)
           = (Occurrences(FreeRawFieldArray(fs), x) + Occurrences(FreeRawMethodArray(ms), x))
               + Occurrences(FreeClass(c), x)
  <1> DEFINE p == Prefix(stores, 0)
             us == FieldsAt(fs, p)
             ns == MethodsAt(ms, p)
             d == ClassAt(c, p)
  <1>0. 0 \in 0..Len(stores)
    BY DEF StoresGood, IsList
  <1>1. FieldsGood(fs, us, p) /\ MethodsGood(ms, ns, p) /\ ClassGood(c, d, p)
    BY <1>0, ArraysAt
  <1>2. \A slot, old : Stored(p, slot, old) = old
    BY StoredFirst
  <1>3. SW(fs, ms, c, p, x) = (Occurrences(FreeRawFieldArray(us), x) + Occurrences(FreeRawMethodArray(ns), x))
                                    + Occurrences(FreeClass(d), x)
    BY DEF SW
  <1> HIDE DEF p, us, ns, d
  <1>4. us = fs
    <2>1. IsList(us) /\ IsList(fs) /\ Len(us) = Len(fs)
      BY <1>1 DEF FieldsGood, Arrays
    <2>2. ASSUME NEW i \in 1..Len(fs) PROVE us[i] = fs[i]
      <3> DEFINE fld == fs[i]
                 e == us[i]
                 v == Stored(p, <<"field", i>>, fs[i].annotations)
      <3>1. FieldSlot(fld, e, v)
        BY <1>1 DEF FieldsGood
      <3>2. v = fld.annotations /\ RawFieldParts(fld)
        BY <1>2 DEF Arrays
      <3> HIDE DEF fld, e, v
      <3>3. e = fld
        BY <3>1, <3>2, FieldSlotSelf
      <3> QED
        BY <3>3 DEF e, fld
    <2> QED
      BY <2>1, <2>2 DEF IsList
  <1>5. ns = ms
    <2>1. IsList(ns) /\ IsList(ms) /\ Len(ns) = Len(ms)
      BY <1>1 DEF MethodsGood, Arrays
    <2>2. ASSUME NEW i \in 1..Len(ms) PROVE ns[i] = ms[i]
      <3> DEFINE mtd == ms[i]
                 e == ns[i]
                 v == Stored(p, <<"method", i>>, ms[i].annotations)
                 w == Stored(p, <<"parameter", i>>, ms[i].parameter_annotations)
      <3>1. MethodSlot(mtd, e, v, w)
        BY <1>1 DEF MethodsGood
      <3>2. v = mtd.annotations /\ w = mtd.parameter_annotations /\ RawMethodParts(mtd)
        BY <1>2 DEF Arrays
      <3> HIDE DEF mtd, e, v, w
      <3>3. e = mtd
        BY <3>1, <3>2, MethodSlotSelf
      <3> QED
        BY <3>3 DEF e, mtd
    <2> QED
      BY <2>1, <2>2 DEF IsList
  <1>6. d = c
    <2>1. PartSet(c, d, "annotations", d.annotations) /\ ClassParts(c)
      BY <1>1 DEF ClassGood, Arrays
    <2>2. d.annotations = c.annotations
      BY <1>1, <1>2 DEF ClassGood
    <2> QED
      BY <2>1, <2>2, ClassSelf
  <1> QED
    BY <1>3, <1>4, <1>5, <1>6 DEF p

(* All stores together add what was taken for them; exactly when each      *)
(* finds its slot empty.                                                   *)
LEMMA StoresSum ==
  ASSUME NullApart, NEW exact, NEW fs, NEW ms, NEW c, Arrays(fs, ms, c), NEW stores,
         NEW tooks \in Seq(Seq(Tokens)), Len(tooks) <= Len(stores),
         StoresGood(fs, ms, c, stores, tooks, exact), NEW x
  PROVE  /\ SW(fs, ms, c, stores, x)
              <= SW(fs, ms, c, Prefix(stores, 0), x) + Occurrences(FlattenSeq(tooks), x)
         /\ exact => SW(fs, ms, c, stores, x)
                       = SW(fs, ms, c, Prefix(stores, 0), x) + Occurrences(FlattenSeq(tooks), x)
  <1> DEFINE n == Len(stores)
             W(k) == SW(fs, ms, c, Prefix(stores, k), x)
  <1>1. n \in Nat /\ Prefix(stores, n) = stores
    BY PrefixAll DEF StoresGood, IsList
  <1>2. PICK N : Sums(tooks, x, n, N)
    BY <1>1, OccParts
  <1>3. /\ N \in [0..n -> Nat] /\ N[0] = 0
        /\ \A k \in 1..n : N[k] = N[k - 1] + Occurrences(PartOf(tooks, k), x)
        /\ Occurrences(FlattenSeq(tooks), x) = N[n]
    BY <1>2 DEF Sums
  <1>4. \A k \in 0..n : W(k) \in Nat
    <2>1. ASSUME NEW k \in 0..n PROVE W(k) \in Nat
      BY SWNat
    <2> QED
      BY <2>1
  <1>5. \A k \in 0..(n - 1) : /\ W(k + 1) <= W(k) + Occurrences(PartOf(tooks, k + 1), x)
                              /\ exact => W(k + 1) = W(k) + Occurrences(PartOf(tooks, k + 1), x)
    BY SlotStep
  <1>6. \A k \in 0..(n - 1) : N[k + 1] = N[k] + Occurrences(PartOf(tooks, k + 1), x)
    <2>1. ASSUME NEW k \in 0..(n - 1) PROVE N[k + 1] = N[k] + Occurrences(PartOf(tooks, k + 1), x)
      <3>1. k + 1 \in 1..n /\ (k + 1) - 1 = k
        BY <1>1
      <3> QED
        BY <1>3, <3>1
    <2> QED
      BY <2>1
  <1> HIDE DEF W
  <1>65. \A k \in 0..(n - 1) : Occurrences(PartOf(tooks, k + 1), x) \in Nat
    <2>1. ASSUME NEW k \in 0..(n - 1) PROVE Occurrences(PartOf(tooks, k + 1), x) \in Nat
      <3>1. PartOf(tooks, k + 1) \in Seq(Tokens)
        BY NoTokens DEF PartOf
      <3> QED
        BY <3>1, OccNat
    <2> QED
      BY <2>1
  <1> DEFINE P(k) == k <= n => W(k) <= W(0) + N[k] /\ (exact => W(k) = W(0) + N[k])
             T == {k \in Nat : P(k)}
  <1>7. P(0)
    BY <1>1, <1>3, <1>4
  <1>8. ASSUME NEW k \in Nat, P(k) PROVE P(k + 1)
    <2>1. CASE k + 1 <= n
      <3> DEFINE t == Occurrences(PartOf(tooks, k + 1), x)
      <3>1. k \in 0..(n - 1) /\ k \in 0..n /\ k + 1 \in 0..n /\ 0 \in 0..n
        BY <1>1, <2>1
      <3>2. W(k) \in Nat /\ W(k + 1) \in Nat /\ W(0) \in Nat /\ N[k] \in Nat /\ N[k + 1] \in Nat /\ t \in Nat
        BY <1>3, <1>4, <1>65, <3>1
      <3>3. N[k + 1] = N[k] + t
        BY <1>6, <3>1
      <3>4. W(k + 1) <= W(k) + t /\ (exact => W(k + 1) = W(k) + t)
        BY <1>5, <3>1
      <3>5. W(k) <= W(0) + N[k] /\ (exact => W(k) = W(0) + N[k])
        BY <1>1, <1>8, <3>1
      <3> DEFINE a == W(k + 1)
                 b == W(k)
                 z == W(0)
                 m == N[k]
                 h == N[k + 1]
      <3> HIDE DEF t, a, b, z, m, h
      <3>6. a <= z + h
        BY <3>2, <3>3, <3>4, <3>5, SMTT(20) DEF a, b, z, m, h
      <3>7. exact => a = z + h
        <4>1. ASSUME exact PROVE a = z + h
          <5>1. a = b + t /\ b = z + m
            BY <3>4, <3>5, <4>1 DEF a, b, z, m
          <5> QED
            BY <3>2, <3>3, <5>1 DEF a, b, z, m, h
        <4> QED
          BY <4>1
      <3> QED
        BY <3>6, <3>7 DEF a, z, h
    <2>2. CASE ~(k + 1 <= n)
      BY <2>2
    <2> QED
      BY <2>1, <2>2
  <1>9. 0 \in T /\ \A k \in T : k + 1 \in T
    <2> HIDE DEF P
    <2> QED
      BY <1>7, <1>8
  <1>10. n \in T
    <2> HIDE DEF P
    <2>1. T \in SUBSET Nat
      OBVIOUS
    <2> HIDE DEF T
    <2> QED
      BY <1>1, <1>9, <2>1, SetInduction
  <1>11. W(n) <= W(0) + N[n] /\ (exact => W(n) = W(0) + N[n])
    BY <1>1, <1>10
  <1> QED
    BY <1>1, <1>3, <1>11 DEF W

(* Two lists put together.                                                 *)
LEMMA CatList ==
  ASSUME NEW a, IsList(a), NEW b, IsList(b)
  PROVE  /\ IsList(a \o b) /\ Len(a \o b) = Len(a) + Len(b)
         /\ \A i \in 1..Len(a) : (a \o b)[i] = a[i]
         /\ \A i \in 1..Len(b) : (a \o b)[Len(a) + i] = b[i]
  <1> DEFINE S == {a[i] : i \in 1..Len(a)}
             R == {b[i] : i \in 1..Len(b)}
             U == S \cup R
  <1>1. a \in Seq(S) /\ b \in Seq(R) /\ Len(a) \in Nat /\ Len(b) \in Nat
    BY ListFacts
  <1>2. a \in Seq(U) /\ b \in Seq(U)
    <2>1. \A i \in 1..Len(a) : a[i] \in U
      OBVIOUS
    <2>2. \A i \in 1..Len(b) : b[i] \in U
      OBVIOUS
    <2> HIDE DEF U
    <2> QED
      BY <2>1, <2>2, ListIn
  <1> HIDE DEF U, S, R
  <1>3. a \o b \in Seq(U) /\ Len(a \o b) = Len(a) + Len(b)
    BY <1>2
  <1>4. IsList(a \o b)
    BY <1>3, SeqList
  <1>5. \A i \in 1..Len(a) : (a \o b)[i] = a[i]
    BY <1>2
  <1>6. \A i \in 1..Len(b) : (a \o b)[Len(a) + i] = b[i]
    BY <1>1, <1>2
  <1> QED
    BY <1>3, <1>4, <1>5, <1>6

(* The slots that the directory of the class being read has entries for.   *)
SlotNamed(slot) ==
  /\ slot[1] = "field" => Names(file, class, "fields", slot[2])
  /\ slot[1] = "method" => Names(file, class, "methods", slot[2])
  /\ slot[1] = "parameter" => Names(file, class, "parameters", slot[2])

(* The entries of a directory: each names a slot, which is empty if exact, *)
(* and has a list that was paid for; if exact, no slot is named twice.     *)
EntryGood(e, exact) ==
  /\ IsResult(e) /\ Paid(e.took, FreeSlot(e.value[1], e.value[2]), exact)
  /\ e.value[2] # NULL =>
       /\ e.value[1] \in Slots(ctx.fields, ctx.methods)
       /\ exact => SlotOf(ctx.fields, ctx.methods, This, e.value[1]) = NULL
       /\ SlotNamed(e.value[1])
EntriesGood(es, kinds, exact) ==
  /\ IsList(es) /\ \A i \in 1..Len(es) : EntryGood(es[i], exact) /\ es[i].value[1][1] \in kinds
  /\ exact => \A k, l \in 1..Len(es) : k < l => es[k].value[1] # es[l].value[1]

(* The entries of two parts of the directory, which have slots of          *)
(* different kinds.                                                        *)
LEMMA EntriesCat ==
  ASSUME NEW exact, NEW a, NEW b, NEW K, NEW L, EntriesGood(a, K, exact), EntriesGood(b, L, exact),
         K \cap L = {}
  PROVE  EntriesGood(a \o b, K \cup L, exact)
  <1> DEFINE m == Len(a)
             n == Len(b)
             s == a \o b
  <1>1. IsList(a) /\ IsList(b) /\ m \in Nat /\ n \in Nat
    BY DEF EntriesGood, IsList
  <1>2. IsList(s) /\ Len(s) = m + n
    BY <1>1, CatList
  <1>3. \A i \in 1..m : s[i] = a[i]
    BY <1>1, CatList
  <1>4. \A i \in 1..n : s[m + i] = b[i]
    BY <1>1, CatList
  <1> HIDE DEF m, n, s
  <1>5. ASSUME NEW i \in 1..Len(s)
        PROVE  \/ i \in 1..m /\ s[i] = a[i]
               \/ i - m \in 1..n /\ s[i] = b[i - m]
    <2>1. CASE i <= m
      BY <1>1, <1>2, <1>3, <2>1
    <2>2. CASE ~(i <= m)
      <3>1. i - m \in 1..n /\ m + (i - m) = i
        BY <1>1, <1>2, <2>2
      <3> QED
        BY <1>4, <3>1
    <2> QED
      BY <2>1, <2>2
  <1>6. ASSUME NEW i \in 1..Len(s) PROVE EntryGood(s[i], exact) /\ s[i].value[1][1] \in K \cup L
    <2>1. CASE i \in 1..m /\ s[i] = a[i]
      BY <2>1 DEF EntriesGood, m
    <2>2. CASE i - m \in 1..n /\ s[i] = b[i - m]
      <3>1. EntryGood(b[i - m], exact) /\ b[i - m].value[1][1] \in L
        BY <2>2 DEF EntriesGood, n
      <3> QED
        BY <2>2, <3>1
    <2> QED
      BY <1>5, <2>1, <2>2
  <1>7. ASSUME exact, NEW k \in 1..Len(s), NEW l \in 1..Len(s), k < l
        PROVE  s[k].value[1] # s[l].value[1]
    <2>1. CASE k \in 1..m /\ s[k] = a[k] /\ l \in 1..m /\ s[l] = a[l]
      BY <1>7, <2>1 DEF EntriesGood, m
    <2>2. CASE k \in 1..m /\ s[k] = a[k] /\ l - m \in 1..n /\ s[l] = b[l - m]
      <3>1. a[k].value[1][1] \in K
        BY <2>2 DEF EntriesGood, m
      <3>2. b[l - m].value[1][1] \in L
        BY <2>2 DEF EntriesGood, n
      <3> QED
        BY <2>2, <3>1, <3>2
    <2>3. CASE k - m \in 1..n /\ s[k] = b[k - m] /\ l - m \in 1..n /\ s[l] = b[l - m]
      <3>1. k - m < l - m
        BY <1>1, <1>2, <1>7
      <3>2. \A i, j \in 1..n : i < j => b[i].value[1] # b[j].value[1]
        BY <1>7 DEF EntriesGood, n
      <3> QED
        BY <2>3, <3>1, <3>2
    <2>4. ~(l \in 1..m /\ k - m \in 1..n)
      BY <1>1, <1>2, <1>7
    <2> QED
      BY <1>5, <2>1, <2>2, <2>3, <2>4
  <1> QED
    BY <1>2, <1>6, <1>7 DEF EntriesGood, s

(* A slot that no directory before has an entry for is empty.              *)
LEMMA SlotHas ==
  ASSUME class \in 1..Len(file.classes), Len(file.classes) \in Nat, HasDirectory(file, class),
         NEW part \in DirectoryParts, NEW k \in 1..Len(file.classes[class].annotations[1][part]),
         NEW i, i = file.classes[class].annotations[1][part][k].idx
  PROVE  Names(file, class, part, i)
  <1>1. class <= class /\ class \in Nat
    OBVIOUS
  <1> QED
    BY <1>1 DEF Names
(* No class before has an entry for the slot of this one, in a file that   *)
(* names each member once.                                                 *)
LEMMA SlotNew ==
  ASSUME NamedOnce(file), class \in 1..Len(file.classes), Len(file.classes) \in Nat,
         HasDirectory(file, class),
         NEW part \in DirectoryParts, NEW k \in 1..Len(file.classes[class].annotations[1][part]),
         NEW i, i = file.classes[class].annotations[1][part][k].idx
  PROVE  ~Names(file, class - 1, part, i)
  <1>3. ASSUME Names(file, class - 1, part, i) PROVE FALSE
    <2>1. PICK c \in 1..Len(file.classes) :
            /\ c <= class - 1 /\ HasDirectory(file, c)
            /\ \E l \in 1..Len(file.classes[c].annotations[1][part]) :
                 file.classes[c].annotations[1][part][l].idx = i
      BY <1>3 DEF Names
    <2>2. c = class
      BY <2>1 DEF NamedOnce
    <2> QED
      BY <2>1, <2>2
  <1> QED
    BY <1>3
(* No other entry of the directory is for the same slot, in a file that    *)
(* names each member once.                                                 *)
LEMMA SlotOnce ==
  ASSUME NamedOnce(file), class \in 1..Len(file.classes), HasDirectory(file, class),
         NEW part \in DirectoryParts, NEW n, n = Len(file.classes[class].annotations[1][part]),
         NEW k \in 1..n, NEW l \in 1..n, k # l
  PROVE  file.classes[class].annotations[1][part][k].idx # file.classes[class].annotations[1][part][l].idx
  <1> DEFINE a == file.classes[class].annotations[1][part]
  <1>1. \A p \in DirectoryParts :
          LET b == file.classes[class].annotations[1][p]
          IN  \A i \in 1..Len(b), j \in 1..Len(b) : b[i].idx = b[j].idx => class = class /\ i = j
    BY DEF NamedOnce
  <1>2. \A i \in 1..Len(a), j \in 1..Len(a) : a[i].idx = a[j].idx => i = j
    BY <1>1
  <1> HIDE DEF a
  <1>3. k \in 1..Len(a) /\ l \in 1..Len(a)
    BY DEF a
  <1>4. a[k].idx # a[l].idx
    BY <1>2, <1>3
  <1> QED
    BY <1>4 DEF a

(* An entry of a directory with the slot it names.                         *)
Noted(e, slot, list) == e = [list EXCEPT !.value = <<slot, list.value>>]
(* An entry for a member of the section pays.                              *)
LEMMA EntryKnown ==
  ASSUME NullApart, NEW exact, NEW list, NEW slot,
         Pays(list, FreeSlot(slot, list.value), exact),
         slot \in Slots(ctx.fields, ctx.methods),
         exact => SlotOf(ctx.fields, ctx.methods, This, slot) = NULL,
         SlotNamed(slot), NEW e, Noted(e, slot, list)
  PROVE  EntryGood(e, exact) /\ e.value[1] = slot
  <1>1. e = [list EXCEPT !.value = <<slot, list.value>>] /\ IsResult(list)
    <2>1. IsResult(list)
      BY DEF Pays
    <2> QED
      BY <2>1 DEF Noted
  <1> DEFINE w == <<slot, list.value>>
  <1>2. w[1] = slot /\ w[2] = list.value
    OBVIOUS
  <1> HIDE DEF w
  <1>3. e = Result(w, list.ok, list.took)
    BY <1>1, FillResult DEF w
  <1>4. e.value = w /\ e.ok = list.ok /\ e.took = list.took
    BY <1>3, ResultFields
  <1>5. IsResult(e)
    BY <1>1, <1>3, <1>4 DEF IsResult
  <1>6. Paid(e.took, FreeSlot(slot, list.value), exact)
    BY <1>4 DEF Pays
  <1> QED
    BY <1>2, <1>4, <1>5, <1>6 DEF EntryGood

(* An entry for a member outside of the section fails and takes nothing.   *)
LEMMA EntryUnknown ==
  ASSUME NullApart, NEW exact, NEW slot, NEW e, e = Failed(<<slot, NULL>>)
  PROVE  EntryGood(e, exact) /\ e.value[1] = slot
  <1> DEFINE w == <<slot, NULL>>
  <1>1. e = Failed(w)
    OBVIOUS
  <1>2. w[1] = slot /\ w[2] = NULL
    OBVIOUS
  <1> HIDE DEF w
  <1>3. Pays(e, << >>, exact) /\ e.value = w
    BY <1>1, FailedPays
  <1>4. FreeSlot(e.value[1], e.value[2]) = << >>
    BY <1>2, <1>3, NullSlot
  <1> QED
    BY <1>2, <1>3, <1>4 DEF EntryGood, Pays

(* The directory of the class being read.                                  *)
DirectoryRead(V, dir, exact) ==
  /\ FileHolds(V, exact) /\ Ctx(ctx) /\ Loaded(ctx, file) /\ class \in 1..Len(file.classes)
  /\ Len(file.classes) \in Nat /\ HasDirectory(file, class)
  /\ dir = file.classes[class].annotations[1] /\ dir # NULL /\ DirectoryShape(dir, V)
  /\ (exact => SlotsNamed(ctx, file, class - 1)) /\ This.annotations = NULL

(* The three lists of a directory and its class annotations, as reads.     *)
FieldEntries(dir) ==
  [i \in DOMAIN dir.fields |->
     Entry(<<"field", dir.fields[i].idx>>, dir.fields[i].idx \in DOMAIN ctx.fields,
           ReadAnnotationList(ctx, dir.fields[i].list))]
MethodEntries(dir) ==
  [i \in DOMAIN dir.methods |->
     Entry(<<"method", dir.methods[i].idx>>, dir.methods[i].idx \in DOMAIN ctx.methods,
           ReadAnnotationList(ctx, dir.methods[i].list))]
ParameterEntries(dir) ==
  [i \in DOMAIN dir.parameters |->
     Entry(<<"parameter", dir.parameters[i].idx>>, dir.parameters[i].idx \in DOMAIN ctx.methods,
           ReadParameterAnnotations(ctx, dir.parameters[i].list))]
ClassEntry(dir) ==
  Entry(<<"class", 0>>, TRUE,
        IF dir.class = << >> THEN Done(<< >>, <<Block("annotations")>>)
        ELSE ReadAnnotationList(ctx, dir.class[1]))

(* The entries of the directory for fields.                                *)
LEMMA FieldEntriesPay ==
  ASSUME NullApart, NEW exact, NEW V, NEW dir, DirectoryRead(V, dir, exact)
  PROVE  EntriesGood(FieldEntries(dir), {"field"}, exact)
  <1> DEFINE es == FieldEntries(dir)
             as == dir.fields
             n == Len(as)
  <1>1. /\ FileHolds(V, exact) /\ Ctx(ctx) /\ Loaded(ctx, file) /\ class \in 1..Len(file.classes)
        /\ Len(file.classes) \in Nat /\ HasDirectory(file, class)
        /\ dir = file.classes[class].annotations[1] /\ (exact => SlotsNamed(ctx, file, class - 1))
    BY DEF DirectoryRead
  <1>2. IsList(as) /\ \A i \in 1..n : AnnotationsShape(as[i].list, V)
    BY DEF DirectoryRead, DirectoryShape
  <1>3. n \in Nat /\ DOMAIN as = 1..n
    BY <1>2, ListFacts
  <1>4. es = [i \in 1..n |-> Entry(<<"field", as[i].idx>>, as[i].idx \in DOMAIN ctx.fields,
                                   ReadAnnotationList(ctx, as[i].list))]
    BY <1>3 DEF FieldEntries
  <1>5. IsList(es) /\ Len(es) = n
    <2>1. es = [i \in 1..n |-> es[i]]
      BY <1>4
    <2> HIDE DEF es, n
    <2> QED
      BY <1>3, <2>1, ListOf
  <1>6. as = file.classes[class].annotations[1]["fields"] /\ "fields" \in DirectoryParts
    BY <1>1 DEF DirectoryParts
  <1>7. ASSUME NEW i \in 1..n
        PROVE  EntryGood(es[i], exact) /\ es[i].value[1] = <<"field", as[i].idx>>
    <2> DEFINE at == as[i].idx
               slot == <<"field", at>>
               known == at \in DOMAIN ctx.fields
               list == ReadAnnotationList(ctx, as[i].list)
               e == es[i]
    <2>1. (known => Noted(e, slot, list)) /\ (~known => e = Failed(<<slot, NULL>>))
      BY <1>4 DEF Entry, Noted
    <2>2. FreeValue(ZeroValue) = << >> /\ \A v \in V : ValuePays(ctx, v, exact)
      BY <1>1 DEF FileHolds
    <2>3. Pays(list, FreeAnnotations(list.value), exact)
      BY <1>1, <1>2, <2>2, AnnotationListPays
    <2>4. slot[1] = "field" /\ slot[2] = at
      OBVIOUS
    <2>5. Pays(list, FreeSlot(slot, list.value), exact)
      BY <2>3, <2>4 DEF FreeSlot
    <2>6. at = file.classes[class].annotations[1]["fields"][i].idx
          /\ i \in 1..Len(file.classes[class].annotations[1]["fields"])
      BY <1>6
    <2>7. Names(file, class, "fields", at)
      <3> HIDE DEF at
      <3> QED
        BY <1>1, <1>6, <2>6, SlotHas
    <2>8. SlotNamed(slot)
      BY <2>4, <2>7 DEF SlotNamed
    <2>9. exact => ~Names(file, class - 1, "fields", at)
      <3>1. ASSUME exact PROVE ~Names(file, class - 1, "fields", at)
        <4>1. NamedOnce(file)
          BY <1>1, <3>1 DEF FileHolds
        <4> HIDE DEF at
        <4> QED
          BY <1>1, <1>6, <2>6, <4>1, SlotNew
      <3> QED
        BY <3>1
    <2>10. known => slot \in Slots(ctx.fields, ctx.methods) /\ at \in 1..Len(ctx.fields)
      <3>1. DOMAIN ctx.fields = 1..Len(ctx.fields)
        BY <1>1, ListFacts DEF Loaded
      <3> QED
        BY <3>1 DEF Slots
    <2>11. known => (exact => SlotOf(ctx.fields, ctx.methods, This, slot) = NULL)
      <3>1. ASSUME known, exact PROVE SlotOf(ctx.fields, ctx.methods, This, slot) = NULL
        <4>1. SlotOf(ctx.fields, ctx.methods, This, slot) = ctx.fields[at].annotations
          BY <2>4 DEF SlotOf
        <4> QED
          BY <1>1, <2>9, <2>10, <3>1, <4>1 DEF SlotsNamed
      <3> QED
        BY <3>1
    <2> HIDE DEF at, slot, known, list, e
    <2>13. CASE known
      <3>1. Noted(e, slot, list) /\ slot \in Slots(ctx.fields, ctx.methods)
        BY <2>1, <2>10, <2>13
      <3>2. exact => SlotOf(ctx.fields, ctx.methods, This, slot) = NULL
        BY <2>11, <2>13
      <3> QED
        BY <2>5, <2>8, <3>1, <3>2, EntryKnown DEF e, slot, at
    <2>14. CASE ~known
      <3>1. e = Failed(<<slot, NULL>>)
        BY <2>1, <2>14
      <3> QED
        BY <3>1, EntryUnknown DEF e, slot, at
    <2> QED
      BY <2>13, <2>14
  <1>8. ASSUME exact, NEW k \in 1..n, NEW l \in 1..n, k < l
        PROVE  es[k].value[1] # es[l].value[1]
    <2>1. NamedOnce(file)
      BY <1>1, <1>8 DEF FileHolds
    <2>2. k # l /\ n = Len(file.classes[class].annotations[1]["fields"])
      BY <1>3, <1>6, <1>8
    <2>3. as[k].idx # as[l].idx
      <3> HIDE DEF n, as
      <3>1. file.classes[class].annotations[1]["fields"][k].idx # file.classes[class].annotations[1]["fields"][l].idx
        BY <1>1, <1>6, <1>8, <2>1, <2>2, SlotOnce
      <3> QED
        BY <1>6, <3>1
    <2> HIDE DEF es
    <2>4. es[k].value[1] = <<"field", as[k].idx>> /\ es[l].value[1] = <<"field", as[l].idx>>
      BY <1>7
    <2> QED
      BY <2>3, <2>4
  <1> HIDE DEF es, as
  <1>9. ASSUME NEW i \in 1..n PROVE EntryGood(es[i], exact) /\ es[i].value[1][1] \in {"field"}
    <2>1. es[i].value[1] = <<"field", as[i].idx>> /\ EntryGood(es[i], exact)
      BY <1>7
    <2>2. <<"field", as[i].idx>>[1] = "field"
      OBVIOUS
    <2> QED
      BY <2>1, <2>2
  <1>10. \A i \in 1..Len(es) : EntryGood(es[i], exact) /\ es[i].value[1][1] \in {"field"}
    BY <1>5, <1>9
  <1>11. exact => \A k, l \in 1..Len(es) : k < l => es[k].value[1] # es[l].value[1]
    BY <1>5, <1>8
  <1> QED
    BY <1>5, <1>10, <1>11 DEF EntriesGood, es

(* The entries of the directory for methods.                               *)
LEMMA MethodEntriesPay ==
  ASSUME NullApart, NEW exact, NEW V, NEW dir, DirectoryRead(V, dir, exact)
  PROVE  EntriesGood(MethodEntries(dir), {"method"}, exact)
  <1> DEFINE es == MethodEntries(dir)
             as == dir.methods
             n == Len(as)
  <1>1. /\ FileHolds(V, exact) /\ Ctx(ctx) /\ Loaded(ctx, file) /\ class \in 1..Len(file.classes)
        /\ Len(file.classes) \in Nat /\ HasDirectory(file, class)
        /\ dir = file.classes[class].annotations[1] /\ (exact => SlotsNamed(ctx, file, class - 1))
    BY DEF DirectoryRead
  <1>2. IsList(as) /\ \A i \in 1..n : AnnotationsShape(as[i].list, V)
    BY DEF DirectoryRead, DirectoryShape
  <1>3. n \in Nat /\ DOMAIN as = 1..n
    BY <1>2, ListFacts
  <1>4. es = [i \in 1..n |-> Entry(<<"method", as[i].idx>>, as[i].idx \in DOMAIN ctx.methods,
                                   ReadAnnotationList(ctx, as[i].list))]
    BY <1>3 DEF MethodEntries
  <1>5. IsList(es) /\ Len(es) = n
    <2>1. es = [i \in 1..n |-> es[i]]
      BY <1>4
    <2> HIDE DEF es, n
    <2> QED
      BY <1>3, <2>1, ListOf
  <1>6. as = file.classes[class].annotations[1]["methods"] /\ "methods" \in DirectoryParts
    BY <1>1 DEF DirectoryParts
  <1>7. ASSUME NEW i \in 1..n
        PROVE  EntryGood(es[i], exact) /\ es[i].value[1] = <<"method", as[i].idx>>
    <2> DEFINE at == as[i].idx
               slot == <<"method", at>>
               known == at \in DOMAIN ctx.methods
               list == ReadAnnotationList(ctx, as[i].list)
               e == es[i]
    <2>1. (known => Noted(e, slot, list)) /\ (~known => e = Failed(<<slot, NULL>>))
      BY <1>4 DEF Entry, Noted
    <2>2. FreeValue(ZeroValue) = << >> /\ \A v \in V : ValuePays(ctx, v, exact)
      BY <1>1 DEF FileHolds
    <2>3. Pays(list, FreeAnnotations(list.value), exact)
      BY <1>1, <1>2, <2>2, AnnotationListPays
    <2>4. slot[1] = "method" /\ slot[2] = at
      OBVIOUS
    <2>5. Pays(list, FreeSlot(slot, list.value), exact)
      BY <2>3, <2>4 DEF FreeSlot
    <2>6. at = file.classes[class].annotations[1]["methods"][i].idx
          /\ i \in 1..Len(file.classes[class].annotations[1]["methods"])
      BY <1>6
    <2>7. Names(file, class, "methods", at)
      <3> HIDE DEF at
      <3> QED
        BY <1>1, <1>6, <2>6, SlotHas
    <2>8. SlotNamed(slot)
      BY <2>4, <2>7 DEF SlotNamed
    <2>9. exact => ~Names(file, class - 1, "methods", at)
      <3>1. ASSUME exact PROVE ~Names(file, class - 1, "methods", at)
        <4>1. NamedOnce(file)
          BY <1>1, <3>1 DEF FileHolds
        <4> HIDE DEF at
        <4> QED
          BY <1>1, <1>6, <2>6, <4>1, SlotNew
      <3> QED
        BY <3>1
    <2>10. known => slot \in Slots(ctx.fields, ctx.methods) /\ at \in 1..Len(ctx.methods)
      <3>1. DOMAIN ctx.methods = 1..Len(ctx.methods)
        BY <1>1, ListFacts DEF Loaded
      <3> QED
        BY <3>1 DEF Slots
    <2>11. known => (exact => SlotOf(ctx.fields, ctx.methods, This, slot) = NULL)
      <3>1. ASSUME known, exact PROVE SlotOf(ctx.fields, ctx.methods, This, slot) = NULL
        <4>1. SlotOf(ctx.fields, ctx.methods, This, slot) = ctx.methods[at].annotations
          BY <2>4 DEF SlotOf
        <4> QED
          BY <1>1, <2>9, <2>10, <3>1, <4>1 DEF SlotsNamed
      <3> QED
        BY <3>1
    <2> HIDE DEF at, slot, known, list, e
    <2>13. CASE known
      <3>1. Noted(e, slot, list) /\ slot \in Slots(ctx.fields, ctx.methods)
        BY <2>1, <2>10, <2>13
      <3>2. exact => SlotOf(ctx.fields, ctx.methods, This, slot) = NULL
        BY <2>11, <2>13
      <3> QED
        BY <2>5, <2>8, <3>1, <3>2, EntryKnown DEF e, slot, at
    <2>14. CASE ~known
      <3>1. e = Failed(<<slot, NULL>>)
        BY <2>1, <2>14
      <3> QED
        BY <3>1, EntryUnknown DEF e, slot, at
    <2> QED
      BY <2>13, <2>14
  <1>8. ASSUME exact, NEW k \in 1..n, NEW l \in 1..n, k < l
        PROVE  es[k].value[1] # es[l].value[1]
    <2>1. NamedOnce(file)
      BY <1>1, <1>8 DEF FileHolds
    <2>2. k # l /\ n = Len(file.classes[class].annotations[1]["methods"])
      BY <1>3, <1>6, <1>8
    <2>3. as[k].idx # as[l].idx
      <3> HIDE DEF n, as
      <3>1. file.classes[class].annotations[1]["methods"][k].idx # file.classes[class].annotations[1]["methods"][l].idx
        BY <1>1, <1>6, <1>8, <2>1, <2>2, SlotOnce
      <3> QED
        BY <1>6, <3>1
    <2> HIDE DEF es
    <2>4. es[k].value[1] = <<"method", as[k].idx>> /\ es[l].value[1] = <<"method", as[l].idx>>
      BY <1>7
    <2> QED
      BY <2>3, <2>4
  <1> HIDE DEF es, as
  <1>9. ASSUME NEW i \in 1..n PROVE EntryGood(es[i], exact) /\ es[i].value[1][1] \in {"method"}
    <2>1. es[i].value[1] = <<"method", as[i].idx>> /\ EntryGood(es[i], exact)
      BY <1>7
    <2>2. <<"method", as[i].idx>>[1] = "method"
      OBVIOUS
    <2> QED
      BY <2>1, <2>2
  <1>10. \A i \in 1..Len(es) : EntryGood(es[i], exact) /\ es[i].value[1][1] \in {"method"}
    BY <1>5, <1>9
  <1>11. exact => \A k, l \in 1..Len(es) : k < l => es[k].value[1] # es[l].value[1]
    BY <1>5, <1>8
  <1> QED
    BY <1>5, <1>10, <1>11 DEF EntriesGood, es

(* The entries of the directory for the parameters of methods.             *)
LEMMA ParameterEntriesPay ==
  ASSUME NullApart, NEW exact, NEW V, NEW dir, DirectoryRead(V, dir, exact)
  PROVE  EntriesGood(ParameterEntries(dir), {"parameter"}, exact)
  <1> DEFINE es == ParameterEntries(dir)
             as == dir.parameters
             n == Len(as)
  <1>1. /\ FileHolds(V, exact) /\ Ctx(ctx) /\ Loaded(ctx, file) /\ class \in 1..Len(file.classes)
        /\ Len(file.classes) \in Nat /\ HasDirectory(file, class)
        /\ dir = file.classes[class].annotations[1] /\ (exact => SlotsNamed(ctx, file, class - 1))
    BY DEF DirectoryRead
  <1>2. IsList(as) /\ \A i \in 1..n : ParameterAnnotationsShape(as[i].list, V)
    BY DEF DirectoryRead, DirectoryShape
  <1>3. n \in Nat /\ DOMAIN as = 1..n
    BY <1>2, ListFacts
  <1>4. es = [i \in 1..n |-> Entry(<<"parameter", as[i].idx>>, as[i].idx \in DOMAIN ctx.methods,
                                   ReadParameterAnnotations(ctx, as[i].list))]
    BY <1>3 DEF ParameterEntries
  <1>5. IsList(es) /\ Len(es) = n
    <2>1. es = [i \in 1..n |-> es[i]]
      BY <1>4
    <2> HIDE DEF es, n
    <2> QED
      BY <1>3, <2>1, ListOf
  <1>6. as = file.classes[class].annotations[1]["parameters"] /\ "parameters" \in DirectoryParts
    BY <1>1 DEF DirectoryParts
  <1>7. ASSUME NEW i \in 1..n
        PROVE  EntryGood(es[i], exact) /\ es[i].value[1] = <<"parameter", as[i].idx>>
    <2> DEFINE at == as[i].idx
               slot == <<"parameter", at>>
               known == at \in DOMAIN ctx.methods
               list == ReadParameterAnnotations(ctx, as[i].list)
               e == es[i]
    <2>1. (known => Noted(e, slot, list)) /\ (~known => e = Failed(<<slot, NULL>>))
      BY <1>4 DEF Entry, Noted
    <2>2. FreeValue(ZeroValue) = << >> /\ \A v \in V : ValuePays(ctx, v, exact)
      BY <1>1 DEF FileHolds
    <2>3. Pays(list, FreeParameterAnnotations(list.value), exact)
      BY <1>1, <1>2, <2>2, ParameterAnnotationsPay
    <2>4. slot[1] = "parameter" /\ slot[2] = at
      OBVIOUS
    <2>5. Pays(list, FreeSlot(slot, list.value), exact)
      BY <2>3, <2>4 DEF FreeSlot
    <2>6. at = file.classes[class].annotations[1]["parameters"][i].idx
          /\ i \in 1..Len(file.classes[class].annotations[1]["parameters"])
      BY <1>6
    <2>7. Names(file, class, "parameters", at)
      <3> HIDE DEF at
      <3> QED
        BY <1>1, <1>6, <2>6, SlotHas
    <2>8. SlotNamed(slot)
      BY <2>4, <2>7 DEF SlotNamed
    <2>9. exact => ~Names(file, class - 1, "parameters", at)
      <3>1. ASSUME exact PROVE ~Names(file, class - 1, "parameters", at)
        <4>1. NamedOnce(file)
          BY <1>1, <3>1 DEF FileHolds
        <4> HIDE DEF at
        <4> QED
          BY <1>1, <1>6, <2>6, <4>1, SlotNew
      <3> QED
        BY <3>1
    <2>10. known => slot \in Slots(ctx.fields, ctx.methods) /\ at \in 1..Len(ctx.methods)
      <3>1. DOMAIN ctx.methods = 1..Len(ctx.methods)
        BY <1>1, ListFacts DEF Loaded
      <3> QED
        BY <3>1 DEF Slots
    <2>11. known => (exact => SlotOf(ctx.fields, ctx.methods, This, slot) = NULL)
      <3>1. ASSUME known, exact PROVE SlotOf(ctx.fields, ctx.methods, This, slot) = NULL
        <4>1. SlotOf(ctx.fields, ctx.methods, This, slot) = ctx.methods[at].parameter_annotations
          BY <2>4 DEF SlotOf
        <4> QED
          BY <1>1, <2>9, <2>10, <3>1, <4>1 DEF SlotsNamed
      <3> QED
        BY <3>1
    <2> HIDE DEF at, slot, known, list, e
    <2>13. CASE known
      <3>1. Noted(e, slot, list) /\ slot \in Slots(ctx.fields, ctx.methods)
        BY <2>1, <2>10, <2>13
      <3>2. exact => SlotOf(ctx.fields, ctx.methods, This, slot) = NULL
        BY <2>11, <2>13
      <3> QED
        BY <2>5, <2>8, <3>1, <3>2, EntryKnown DEF e, slot, at
    <2>14. CASE ~known
      <3>1. e = Failed(<<slot, NULL>>)
        BY <2>1, <2>14
      <3> QED
        BY <3>1, EntryUnknown DEF e, slot, at
    <2> QED
      BY <2>13, <2>14
  <1>8. ASSUME exact, NEW k \in 1..n, NEW l \in 1..n, k < l
        PROVE  es[k].value[1] # es[l].value[1]
    <2>1. NamedOnce(file)
      BY <1>1, <1>8 DEF FileHolds
    <2>2. k # l /\ n = Len(file.classes[class].annotations[1]["parameters"])
      BY <1>3, <1>6, <1>8
    <2>3. as[k].idx # as[l].idx
      <3> HIDE DEF n, as
      <3>1. file.classes[class].annotations[1]["parameters"][k].idx # file.classes[class].annotations[1]["parameters"][l].idx
        BY <1>1, <1>6, <1>8, <2>1, <2>2, SlotOnce
      <3> QED
        BY <1>6, <3>1
    <2> HIDE DEF es
    <2>4. es[k].value[1] = <<"parameter", as[k].idx>> /\ es[l].value[1] = <<"parameter", as[l].idx>>
      BY <1>7
    <2> QED
      BY <2>3, <2>4
  <1> HIDE DEF es, as
  <1>9. ASSUME NEW i \in 1..n PROVE EntryGood(es[i], exact) /\ es[i].value[1][1] \in {"parameter"}
    <2>1. es[i].value[1] = <<"parameter", as[i].idx>> /\ EntryGood(es[i], exact)
      BY <1>7
    <2>2. <<"parameter", as[i].idx>>[1] = "parameter"
      OBVIOUS
    <2> QED
      BY <2>1, <2>2
  <1>10. \A i \in 1..Len(es) : EntryGood(es[i], exact) /\ es[i].value[1][1] \in {"parameter"}
    BY <1>5, <1>9
  <1>11. exact => \A k, l \in 1..Len(es) : k < l => es[k].value[1] # es[l].value[1]
    BY <1>5, <1>8
  <1> QED
    BY <1>5, <1>10, <1>11 DEF EntriesGood, es

(* The entry of the directory for the class.                               *)
LEMMA ClassEntryPays ==
  ASSUME NullApart, NEW exact, NEW V, NEW dir, DirectoryRead(V, dir, exact)
  PROVE  EntriesGood(<<ClassEntry(dir)>>, {"class"}, exact)
  <1> DEFINE e == ClassEntry(dir)
             slot == <<"class", 0>>
             list == IF dir.class = << >> THEN Done(<< >>, <<Block("annotations")>>)
                     ELSE ReadAnnotationList(ctx, dir.class[1])
  <1>1. /\ FileHolds(V, exact) /\ Ctx(ctx) /\ DirectoryShape(dir, V) /\ dir # NULL /\ This.annotations = NULL
    BY DEF DirectoryRead
  <1>2. FreeValue(ZeroValue) = << >> /\ \A v \in V : ValuePays(ctx, v, exact)
    BY <1>1 DEF FileHolds
  <1>3. Pays(list, FreeAnnotations(list.value), exact)
    <2>1. CASE dir.class = << >>
      <3> DEFINE b == <<Block("annotations")>>
      <3>1. FreeAnnotations(<< >>) = b /\ b \in Seq(Tokens)
        BY EmptyParts
      <3>2. list = Done(<< >>, b)
        BY <2>1
      <3> HIDE DEF b, list
      <3> QED
        BY <3>1, <3>2, DonePays
    <2>2. CASE dir.class # << >>
      <3> DEFINE anns == dir.class[1]
      <3>1. AnnotationsShape(anns, V) /\ list = ReadAnnotationList(ctx, anns)
        BY <1>1, <2>2 DEF DirectoryShape
      <3> HIDE DEF anns, list
      <3> QED
        BY <1>1, <1>2, <3>1, AnnotationListPays
    <2> QED
      BY <2>1, <2>2
  <1>4. slot[1] = "class"
    OBVIOUS
  <1>5. Pays(list, FreeSlot(slot, list.value), exact)
    <2> HIDE DEF list
    <2> QED
      BY <1>3, <1>4 DEF FreeSlot
  <1>6. slot \in Slots(ctx.fields, ctx.methods) /\ SlotNamed(slot)
    BY DEF Slots, SlotNamed
  <1>7. SlotOf(ctx.fields, ctx.methods, This, slot) = NULL
    BY <1>1, <1>4 DEF SlotOf
  <1>8. Noted(e, slot, list)
    BY DEF ClassEntry, Entry, Noted
  <1> HIDE DEF e, list, slot
  <1>9. EntryGood(e, exact) /\ e.value[1] = slot
    BY <1>5, <1>6, <1>7, <1>8, EntryKnown
  <1> DEFINE es == <<e>>
  <1>10. es \in Seq({e}) /\ Len(es) = 1 /\ es[1] = e
    OBVIOUS
  <1>11. IsList(es)
    BY <1>10, SeqList
  <1> HIDE DEF es
  <1>12. \A i \in 1..Len(es) : EntryGood(es[i], exact) /\ es[i].value[1][1] \in {"class"}
    BY <1>4, <1>9, <1>10
  <1>13. \A k, l \in 1..Len(es) : k < l => es[k].value[1] # es[l].value[1]
    BY <1>10
  <1> QED
    BY <1>11, <1>12, <1>13 DEF EntriesGood, es, e

(* All entries of the directory.                                           *)
LEMMA DirectoryEntriesPay ==
  ASSUME NullApart, NEW exact, NEW V, NEW dir, DirectoryRead(V, dir, exact)
  PROVE  \E K : EntriesGood(Entries(dir), K, exact)
  <1> DEFINE a == <<ClassEntry(dir)>>
             b == FieldEntries(dir)
             c == MethodEntries(dir)
             d == ParameterEntries(dir)
  <1>1. EntriesGood(a, {"class"}, exact)
    BY ClassEntryPays
  <1>2. EntriesGood(b, {"field"}, exact)
    BY FieldEntriesPay
  <1>3. EntriesGood(c, {"method"}, exact)
    BY MethodEntriesPay
  <1>4. EntriesGood(d, {"parameter"}, exact)
    BY ParameterEntriesPay
  <1>5. Entries(dir) = ((a \o b) \o c) \o d
    BY DEF Entries, ClassEntry, FieldEntries, MethodEntries, ParameterEntries
  <1> HIDE DEF a, b, c, d
  <1>6. EntriesGood(a \o b, {"class"} \cup {"field"}, exact)
    <2>1. {"class"} \cap {"field"} = {}
      OBVIOUS
    <2> QED
      BY <1>1, <1>2, <2>1, EntriesCat
  <1> DEFINE K2 == {"class"} \cup {"field"}
             ab == a \o b
  <1>7. EntriesGood(ab \o c, K2 \cup {"method"}, exact)
    <2>1. K2 \cap {"method"} = {} /\ EntriesGood(ab, K2, exact)
      BY <1>6
    <2> HIDE DEF K2, ab
    <2> QED
      BY <1>3, <2>1, EntriesCat
  <1> DEFINE K3 == K2 \cup {"method"}
             abc == ab \o c
  <1>8. EntriesGood(abc \o d, K3 \cup {"parameter"}, exact)
    <2>1. K3 \cap {"parameter"} = {} /\ EntriesGood(abc, K3, exact)
      BY <1>7
    <2> HIDE DEF K3, abc
    <2> QED
      BY <1>4, <2>1, EntriesCat
  <1> QED
    BY <1>5, <1>8

(* A store of nothing.                                                     *)
NoStore == <<<<"none", 0>>, NULL>>
(* The stores of the entries that were read.                               *)
LEMMA StoresOf ==
  ASSUME NullApart, NEW exact, NEW es, NEW K, EntriesGood(es, K, exact),
         NEW stores, stores = InOrder(es, NoStore).value,
         NEW tooks, tooks = [i \in 1..LastRead(es) |-> es[i].took]
  PROVE  /\ tooks \in Seq(Seq(Tokens)) /\ Len(tooks) <= Len(stores)
         /\ FlattenSeq(tooks) = InOrder(es, NoStore).took
         /\ StoresGood(ctx.fields, ctx.methods, This, stores, tooks, exact)
         /\ \A k \in 1..Len(stores) : stores[k][2] # NULL => SlotNamed(stores[k][1])
  <1> DEFINE n == Len(es)
             m == LastRead(es)
  <1>1. /\ IsList(es)
        /\ \A i \in 1..n : EntryGood(es[i], exact)
        /\ exact => \A k, l \in 1..n : k < l => es[k].value[1] # es[l].value[1]
    BY DEF EntriesGood
  <1>2. m \in 0..n /\ n \in Nat
    BY <1>1, LastFacts DEF IsList
  <1>3. /\ IsList(stores) /\ Len(stores) = n
        /\ FlattenSeq(tooks) = InOrder(es, NoStore).took
    BY <1>1, InOrderFacts
  <1>4. \A i \in 1..n : i <= m => stores[i] = es[i].value
    BY <1>1, InOrderFacts
  <1>5. \A i \in 1..n : ~(i <= m) => stores[i] = NoStore
    BY <1>1, InOrderFacts
  <1>6. tooks \in Seq(Seq(Tokens)) /\ Len(tooks) = m /\ DOMAIN tooks = 1..m
    <2> HIDE DEF m, n
    <2>1. \A i \in 1..m : es[i].took \in Seq(Tokens)
      BY <1>1, <1>2 DEF EntryGood, IsResult
    <2>2. tooks = [i \in 1..m |-> es[i].took]
      BY DEF m
    <2>3. m \in Nat
      BY <1>2
    <2>4. tooks = [i \in 1..m |-> tooks[i]] /\ \A i \in 1..m : tooks[i] \in Seq(Tokens)
      BY <2>1, <2>2
    <2>5. IsList(tooks) /\ Len(tooks) = m /\ DOMAIN tooks = 1..m
      BY <2>3, <2>4, ListOf
    <2>6. tooks \in Seq(Seq(Tokens))
      <3> DEFINE S == Seq(Tokens)
      <3>1. \A i \in 1..Len(tooks) : tooks[i] \in S
        BY <2>4, <2>5
      <3> HIDE DEF S
      <3>2. tooks \in Seq(S)
        BY <2>5, <3>1, ListIn
      <3> QED
        BY <3>2 DEF S
    <2> QED
      BY <2>5, <2>6
  <1>7. \A k \in 1..n : PartOf(tooks, k) = IF k <= m THEN es[k].took ELSE << >>
    BY <1>2, <1>6 DEF PartOf
  <1>8. NoStore[1] = <<"none", 0>> /\ NoStore[2] = NULL
    BY DEF NoStore
  <1> HIDE DEF m, n
  <1>9. ASSUME NEW k \in 1..n
        PROVE  /\ StoreGood(ctx.fields, ctx.methods, This, stores[k], PartOf(tooks, k), exact)
               /\ stores[k][2] # NULL => SlotNamed(stores[k][1])
    <2>1. CASE k <= m
      <3>1. EntryGood(es[k], exact) /\ stores[k] = es[k].value /\ PartOf(tooks, k) = es[k].took
        BY <1>1, <1>4, <1>7, <2>1
      <3> QED
        BY <3>1 DEF EntryGood, StoreGood
    <2>2. CASE ~(k <= m)
      <3> DEFINE st == stores[k]
      <3>1. st[1] = <<"none", 0>> /\ st[2] = NULL /\ PartOf(tooks, k) = << >>
        BY <1>5, <1>7, <1>8, <2>2
      <3> HIDE DEF st
      <3>2. FreeSlot(st[1], st[2]) = << >>
        BY <3>1, NullSlot
      <3>3. StoreGood(ctx.fields, ctx.methods, This, st, PartOf(tooks, k), exact)
        BY <3>1, <3>2, NoTokens DEF StoreGood
      <3> QED
        BY <3>1, <3>3 DEF st
    <2> QED
      BY <2>1, <2>2
  <1>10. ASSUME exact, NEW k \in 1..n, NEW l \in 1..n, k < l, stores[l][2] # NULL
         PROVE  ~IsStore(stores[k], stores[l][1])
    <2>1. l <= m
      BY <1>5, <1>8, <1>10
    <2>2. k <= m
      BY <1>2, <1>10, <2>1
    <2>3. stores[k] = es[k].value /\ stores[l] = es[l].value
      BY <1>4, <2>1, <2>2
    <2> QED
      BY <1>1, <1>10, <2>3 DEF IsStore
  <1>11. StoresGood(ctx.fields, ctx.methods, This, stores, tooks, exact)
    BY <1>3, <1>9, <1>10 DEF StoresGood
  <1>12. tooks \in Seq(Seq(Tokens)) /\ FlattenSeq(tooks) = InOrder(es, NoStore).took
    BY <1>3, <1>6
  <1>13. Len(tooks) <= Len(stores)
    <2>1. Len(tooks) = m /\ Len(stores) = n
      BY <1>3, <1>6
    <2>2. m <= n
      BY <1>2
    <2> DEFINE a == Len(tooks)
               b == Len(stores)
    <2>3. a = m /\ b = n
      BY <2>1
    <2> HIDE DEF a, b
    <2>4. a <= b
      BY <2>2, <2>3
    <2> QED
      BY <2>4 DEF a, b
  <1>14. \A k \in 1..Len(stores) : stores[k][2] # NULL => SlotNamed(stores[k][1])
    BY <1>3, <1>9
  <1> QED
    BY <1>11, <1>12, <1>13, <1>14

(* The context after the entries of a directory.                           *)
DirectorySet(c, d, j, stores) ==
  d = [c EXCEPT !.classes[j].annotations = Stored(stores, <<"class", 0>>, @),
                !.fields = FieldsAt(@, stores), !.methods = MethodsAt(@, stores)]

(* The context d is c with the stores of a directory.                      *)
DirectorySplit(c, d, j, stores) ==
  /\ Context(d) /\ SameTables(c, d)
  /\ d.classes = [c.classes EXCEPT ![j] = ClassAt(c.classes[j], stores)]
  /\ d.fields = FieldsAt(c.fields, stores) /\ d.methods = MethodsAt(c.methods, stores)
(* The parts of the context after the directory was read.                  *)
LEMMA DirectorySetFacts ==
  ASSUME NEW c, Context(c), NEW j, NEW stores, NEW d, DirectorySet(c, d, j, stores)
  PROVE  DirectorySplit(c, d, j, stores)
  <1> DEFINE cs == c.classes
             f1 == c.strs
             f2 == c.types
             f3 == c.protos
             f4 == c.fields
             f5 == c.methods
  <1>1. c = [strs |-> f1, types |-> f2, protos |-> f3, fields |-> f4, methods |-> f5, classes |-> cs]
    BY DEF Context
  <1>2. d = [c EXCEPT
               !.classes[j].annotations = Stored(stores, <<"class", 0>>, @),
               !.fields = FieldsAt(@, stores),
               !.methods = MethodsAt(@, stores)]
    BY DEF DirectorySet
  <1> HIDE DEF f1, f2, f3, f4, f5, cs
  <1> DEFINE ds == [cs EXCEPT ![j] = [cs[j] EXCEPT !.annotations = Stored(stores, <<"class", 0>>, @)]]
             fs == FieldsAt(f4, stores)
             ms == MethodsAt(f5, stores)
  <1>3. d = [strs |-> f1, types |-> f2, protos |-> f3, fields |-> fs, methods |-> ms, classes |-> ds]
    BY <1>1, <1>2
  <1>4. c.classes = cs /\ c.fields = f4 /\ c.methods = f5 /\ c.strs = f1 /\ c.types = f2 /\ c.protos = f3
    BY <1>1
  <1>5. ds = [c.classes EXCEPT ![j] = ClassAt(c.classes[j], stores)]
        /\ fs = FieldsAt(c.fields, stores) /\ ms = MethodsAt(c.methods, stores)
    BY <1>4 DEF ClassAt
  <1> HIDE DEF ds, fs, ms
  <1>6. /\ d.strs = f1 /\ d.types = f2 /\ d.protos = f3 /\ d.fields = fs /\ d.methods = ms /\ d.classes = ds
    BY <1>3
  <1>7. Context(d)
    BY <1>3, <1>6 DEF Context
  <1> QED
    BY <1>4, <1>5, <1>6, <1>7 DEF DirectorySplit, SameTables

(* The sections and the class have slots.                                  *)
LEMMA ClassArrays ==
  ASSUME NEW exact, IInv(exact), pc \in ClassSteps
  PROVE  Arrays(ctx.fields, ctx.methods, This)
  <1>1. Loaded(ctx, file) /\ ClassParts(This)
    BY AtList
  <1> QED
    BY <1>1 DEF Loaded, Arrays

(* What the stores of a directory leave.                                   *)
StoresRead(stores, tooks, took, exact) ==
  /\ tooks \in Seq(Seq(Tokens)) /\ Len(tooks) <= Len(stores) /\ took = FlattenSeq(tooks)
  /\ StoresGood(ctx.fields, ctx.methods, This, stores, tooks, exact)
  /\ \A k \in 1..Len(stores) : stores[k][2] # NULL => SlotNamed(stores[k][1])

(* The context after the directory holds what was taken for it.            *)
LEMMA DirectoryNext ==
  ASSUME NullApart, NEW exact, IInv(exact), pc = "directory", NEW stores, NEW tooks, NEW took,
         StoresRead(stores, tooks, took, exact), NEW d, DirectorySplit(ctx, d, class, stores)
  PROVE  /\ took \in Seq(Tokens)
         /\ NextContext(ctx, d, file, class, ClassAt(This, stores), took, exact)
  <1> DEFINE fs == ctx.fields
             ms == ctx.methods
             new == ClassAt(This, stores)
             us == FieldsAt(fs, stores)
             vs == MethodsAt(ms, stores)
  <1>0. "directory" \in ClassSteps
    BY DEF ClassSteps
  <1>1. /\ Context(ctx) /\ Loaded(ctx, file) /\ class \in 1..Len(ctx.classes) /\ IsList(ctx.classes)
        /\ ClassParts(This)
    BY <1>0, AtList
  <1>2. Arrays(fs, ms, This)
    BY <1>0, ClassArrays
  <1>3. StoresGood(fs, ms, This, stores, tooks, exact)
    BY DEF StoresRead
  <1>4. IsList(stores) /\ Len(stores) \in 0..Len(stores) /\ Prefix(stores, Len(stores)) = stores
    <2>1. IsList(stores)
      BY <1>3 DEF StoresGood
    <2>2. Len(stores) \in Nat
      BY <2>1 DEF IsList
    <2> QED
      BY <2>1, <2>2, PrefixAll
  <1>5. FieldsGood(fs, us, stores) /\ MethodsGood(ms, vs, stores) /\ ClassGood(This, new, stores)
    BY <1>2, <1>3, <1>4, ArraysAt
  <1>6. d.fields = us /\ d.methods = vs /\ d.classes = [ctx.classes EXCEPT ![class] = new]
        /\ Context(d) /\ SameTables(ctx, d)
    BY DEF DirectorySplit, This
  <1> HIDE DEF new, us, vs
  <1>7. tooks \in Seq(Seq(Tokens)) /\ Len(tooks) <= Len(stores) /\ took = FlattenSeq(tooks)
    BY DEF StoresRead
  <1>8. took \in Seq(Tokens)
    BY <1>7, OccFlatten
  <1> DEFINE ds == [ctx.classes EXCEPT ![class] = new]
  <1>9. Updated(ctx.classes, ds, class, new)
    BY <1>1, UpdatedExcept
  <1> HIDE DEF ds
  <1>10. \A i \in 1..Len(ctx.classes) : FreeClass(ctx.classes[i]) \in Seq(Tokens)
    <2>1. ClassList(ctx.classes)
      BY <1>0, ClassFacts DEF AtClass, ClassesRead, ClassList
    <2> QED
      BY <2>1, ClassSum DEF ClassList
  <1>11. FreeClass(new) \in Seq(Tokens) /\ FreeClass(This) \in Seq(Tokens)
    BY <1>5 DEF ClassGood
  <1>12. /\ FreeClassArray(ds) \in Seq(Tokens)
         /\ \A x : Occurrences(FreeClassArray(ds), x) + Occurrences(FreeClass(This), x)
                    = Occurrences(FreeClassArray(ctx.classes), x) + Occurrences(FreeClass(new), x)
    BY <1>1, <1>9, <1>10, <1>11, ClassesChange DEF This
  <1>13. FreeRawFieldArray(us) \in Seq(Tokens) /\ FreeRawMethodArray(vs) \in Seq(Tokens)
    <2>1. IsList(us) /\ \A i \in 1..Len(us) : FreeRawField(us[i]) \in Seq(Tokens)
      BY <1>5 DEF FieldsGood
    <2>2. IsList(vs) /\ \A i \in 1..Len(vs) : FreeRawMethod(vs[i]) \in Seq(Tokens)
      BY <1>5 DEF MethodsGood
    <2> QED
      BY <2>1, <2>2, RawFieldsFree, RawMethodsFree
  <1>14. /\ FreeClasses(d) = FreeClassArray(ds) /\ FreeClasses(ctx) = FreeClassArray(ctx.classes)
         /\ FreeRawMethods(d) = FreeRawMethodArray(vs) /\ FreeRawMethods(ctx) = FreeRawMethodArray(ms)
         /\ FreeRawFields(d) = FreeRawFieldArray(us) /\ FreeRawFields(ctx) = FreeRawFieldArray(fs)
    BY <1>6 DEF FreeClasses, FreeClassArray, FreeRawMethods, FreeRawMethodArray, FreeRawFields,
                FreeRawFieldArray, ds
  <1>15. /\ FreeRawFields(ctx) \in Seq(Tokens) /\ FreeRawMethods(ctx) \in Seq(Tokens)
         /\ FreeClasses(ctx) \in Seq(Tokens)
    BY <1>0, ClassFacts DEF AtReading, Parts
  <1>16. ASSUME NEW x
         PROVE  /\ Changing(d, x) <= Changing(ctx, x) + Occurrences(took, x)
                /\ exact => Changing(d, x) = Changing(ctx, x) + Occurrences(took, x)
    <2> DEFINE f == Occurrences(FreeRawFields(ctx), x)
               q == Occurrences(FreeRawMethods(ctx), x)
               f2 == Occurrences(FreeRawFields(d), x)
               q2 == Occurrences(FreeRawMethods(d), x)
               k == Occurrences(FreeClasses(ctx), x)
               k2 == Occurrences(FreeClasses(d), x)
               a == Occurrences(took, x)
               u == Occurrences(FreeClass(This), x)
               v == Occurrences(FreeClass(new), x)
    <2>1. /\ f \in Nat /\ q \in Nat /\ f2 \in Nat /\ q2 \in Nat /\ k \in Nat /\ k2 \in Nat /\ a \in Nat
          /\ u \in Nat /\ v \in Nat
      BY <1>8, <1>11, <1>12, <1>13, <1>14, <1>15, OccNat
    <2>2. SW(fs, ms, This, stores, x) = (f2 + q2) + v
      BY <1>14 DEF SW, us, vs, new
    <2>3. SW(fs, ms, This, Prefix(stores, 0), x) = (f + q) + u
      BY <1>2, <1>3, <1>14, NoStores
    <2>4. /\ SW(fs, ms, This, stores, x) <= SW(fs, ms, This, Prefix(stores, 0), x) + a
          /\ exact => SW(fs, ms, This, stores, x) = SW(fs, ms, This, Prefix(stores, 0), x) + a
      <3>1. /\ SW(fs, ms, This, stores, x)
                 <= SW(fs, ms, This, Prefix(stores, 0), x) + Occurrences(FlattenSeq(tooks), x)
            /\ exact => SW(fs, ms, This, stores, x)
                         = SW(fs, ms, This, Prefix(stores, 0), x) + Occurrences(FlattenSeq(tooks), x)
        <4>1. tooks \in Seq(Seq(Tokens))
          BY <1>7
        <4>2. Len(tooks) <= Len(stores)
          BY <1>7
        <4> HIDE DEF fs, ms, a
        <4> QED
          BY <1>2, <1>3, <4>1, <4>2, StoresSum
      <3> QED
        BY <1>7, <3>1
    <2>5. k2 + u = k + v
      BY <1>12, <1>14
    <2>6. Changing(ctx, x) = f + q + k /\ Changing(d, x) = f2 + q2 + k2
      BY DEF Changing
    <2>7. (f2 + q2) + v <= ((f + q) + u) + a
      BY <2>2, <2>3, <2>4
    <2>8. exact => (f2 + q2) + v = ((f + q) + u) + a
      BY <2>2, <2>3, <2>4
    <2> HIDE DEF f, q, f2, q2, k, k2, a, u, v
    <2>9. (f2 + q2) + k2 <= ((f + q) + k) + a
      BY <2>1, <2>5, <2>7
    <2>10. (f2 + q2) + v = ((f + q) + u) + a => (f2 + q2) + k2 = ((f + q) + k) + a
      BY <2>1, <2>5
    <2>11. exact => (f2 + q2) + k2 = ((f + q) + k) + a
      BY <2>8, <2>10
    <2> QED
      BY <2>1, <2>6, <2>9, <2>11 DEF a
  <1>17. ChangesBy(ctx, d, took, exact)
    BY <1>16 DEF ChangesBy
  <1>18. Loaded(d, file)
    <2>1. IsList(us) /\ Len(us) = Len(fs) /\ \A i \in 1..Len(us) : RawFieldParts(us[i])
      BY <1>5 DEF FieldsGood
    <2>2. IsList(vs) /\ Len(vs) = Len(ms) /\ \A i \in 1..Len(vs) : RawMethodParts(vs[i])
      BY <1>5 DEF MethodsGood
    <2> QED
      BY <1>1, <1>6, <2>1, <2>2 DEF Loaded, SameTables
  <1>19. d.classes = ds
    BY <1>6 DEF ds
  <1> QED
    BY <1>6, <1>8, <1>9, <1>12, <1>13, <1>14, <1>17, <1>18, <1>19 DEF NextContext, new

(* The slots that hold a list are those that directories up to this one    *)
(* name.                                                                   *)
LEMMA DirectorySlots ==
  ASSUME NullApart, NEW exact, IInv(exact), pc = "directory", NEW stores, NEW tooks, NEW took,
         StoresRead(stores, tooks, took, exact), NEW d, DirectorySplit(ctx, d, class, stores), exact
  PROVE  SlotsNamed(d, file, class)
  <1> DEFINE fs == ctx.fields
             ms == ctx.methods
  <1>0. "directory" \in ClassSteps
    BY DEF ClassSteps
  <1>1. class \in 1..Len(file.classes) /\ Len(file.classes) \in Nat
    BY <1>0, AtList
  <1>2. SlotsNamed(ctx, file, class)
    <2>1. SlotsNamed(ctx, file, class - 1)
      BY <1>0, ClassFacts DEF AtClass
    <2>2. class - 1 \in Int /\ class \in Int /\ class - 1 <= class
      BY <1>1
    <2> QED
      BY <1>1, <2>1, <2>2, NamesMore
  <1>3. IsList(stores)
    BY DEF StoresRead, StoresGood
  <1>4. \A k \in 1..Len(stores) : stores[k][2] # NULL => SlotNamed(stores[k][1])
    BY DEF StoresRead
  <1>5. ASSUME NEW slot, NEW old, old = NULL \/ SlotNamed(slot), Stored(stores, slot, old) # NULL
        PROVE  SlotNamed(slot)
    <2> DEFINE n == Len(stores)
    <2>1. n \in Nat /\ DOMAIN stores = 1..n
      BY <1>3 DEF IsList
    <2> HIDE DEF n
    <2>2. CASE Stored(stores, slot, old) = old
      BY <1>5, <2>2
    <2>3. CASE \E i \in 1..n : IsStore(stores[i], slot)
      BY <1>4, <2>3 DEF IsStore, n
    <2> QED
      BY <2>1, <2>2, <2>3, StoredCases
  <1>6. Arrays(fs, ms, This)
    BY <1>0, ClassArrays
  <1>7. StoresGood(fs, ms, This, stores, tooks, exact)
    BY DEF StoresRead
  <1>8. Len(stores) \in 0..Len(stores) /\ stores = Prefix(stores, Len(stores))
    <2>1. Len(stores) \in Nat
      BY <1>3 DEF IsList
    <2> QED
      BY <2>1, <1>3, PrefixAll
  <1>9. FieldsGood(fs, FieldsAt(fs, stores), stores) /\ MethodsGood(ms, MethodsAt(ms, stores), stores)
    BY <1>6, <1>7, <1>8, ArraysAt
  <1>10. d.fields = FieldsAt(fs, stores) /\ d.methods = MethodsAt(ms, stores)
    BY DEF DirectorySplit
  <1>11. ASSUME NEW i \in 1..Len(d.fields), d.fields[i].annotations # NULL
         PROVE  Names(file, class, "fields", i)
    <2> DEFINE slot == <<"field", i>>
               old == fs[i].annotations
    <2>1. i \in 1..Len(fs) /\ Stored(stores, slot, old) # NULL
      BY <1>9, <1>10, <1>11 DEF FieldsGood
    <2>2. slot[1] = "field" /\ slot[2] = i
      OBVIOUS
    <2>3. old = NULL \/ Names(file, class, "fields", i)
      BY <1>2, <2>1 DEF SlotsNamed
    <2> HIDE DEF slot, old
    <2>4. old = NULL \/ SlotNamed(slot)
      BY <2>2, <2>3 DEF SlotNamed
    <2>5. SlotNamed(slot)
      BY <1>5, <2>1, <2>4
    <2> QED
      BY <2>2, <2>5 DEF SlotNamed
  <1>12. ASSUME NEW i \in 1..Len(d.methods), d.methods[i].annotations # NULL
         PROVE  Names(file, class, "methods", i)
    <2> DEFINE slot == <<"method", i>>
               old == ms[i].annotations
    <2>1. i \in 1..Len(ms) /\ Stored(stores, slot, old) # NULL
      BY <1>9, <1>10, <1>12 DEF MethodsGood
    <2>2. slot[1] = "method" /\ slot[2] = i
      OBVIOUS
    <2>3. old = NULL \/ Names(file, class, "methods", i)
      BY <1>2, <2>1 DEF SlotsNamed
    <2> HIDE DEF slot, old
    <2>4. old = NULL \/ SlotNamed(slot)
      BY <2>2, <2>3 DEF SlotNamed
    <2>5. SlotNamed(slot)
      BY <1>5, <2>1, <2>4
    <2> QED
      BY <2>2, <2>5 DEF SlotNamed
  <1>13. ASSUME NEW i \in 1..Len(d.methods), d.methods[i].parameter_annotations # NULL
         PROVE  Names(file, class, "parameters", i)
    <2> DEFINE slot == <<"parameter", i>>
               old == ms[i].parameter_annotations
    <2>1. i \in 1..Len(ms) /\ Stored(stores, slot, old) # NULL
      BY <1>9, <1>10, <1>13 DEF MethodsGood
    <2>2. slot[1] = "parameter" /\ slot[2] = i
      OBVIOUS
    <2>3. old = NULL \/ Names(file, class, "parameters", i)
      BY <1>2, <2>1 DEF SlotsNamed
    <2> HIDE DEF slot, old
    <2>4. old = NULL \/ SlotNamed(slot)
      BY <2>2, <2>3 DEF SlotNamed
    <2>5. SlotNamed(slot)
      BY <1>5, <2>1, <2>4
    <2> QED
      BY <2>2, <2>5 DEF SlotNamed
  <1> QED
    BY <1>11, <1>12, <1>13 DEF SlotsNamed

(* The stores of a directory keep the invariant.                           *)
LEMMA DirectoryStep ==
  ASSUME NullApart, NEW exact, IInv(exact), pc = "directory", NEW stores, NEW tooks, NEW took,
         StoresRead(stores, tooks, took, exact), DirectorySplit(ctx, ctx', class, stores),
         HoldsMore(took), ReadFrame, class' = class, members' \in Nat, idx' \in Nat,
         pc' \in {"interfaces", "failed"}
  PROVE  IInv(exact)'
  <1> DEFINE new == ClassAt(This, stores)
  <1>0. "directory" \in ClassSteps /\ pc \in ClassSteps \ {"class"}
    BY DEF ClassSteps
  <1>1. took \in Seq(Tokens) /\ NextContext(ctx, ctx', file, class, new, took, exact)
    BY DirectoryNext
  <1>2. exact => SlotsNamed(ctx', file, class)
    BY DirectorySlots
  <1>3. Arrays(ctx.fields, ctx.methods, This)
    BY <1>0, ClassArrays
  <1>4. StoresGood(ctx.fields, ctx.methods, This, stores, tooks, exact) /\ IsList(stores)
    BY DEF StoresRead, StoresGood
  <1>5. Len(stores) \in 0..Len(stores) /\ stores = Prefix(stores, Len(stores))
    <2>1. Len(stores) \in Nat
      BY <1>4 DEF IsList
    <2> QED
      BY <2>1, <1>4, PrefixAll
  <1>6. ClassGood(This, new, stores)
    BY <1>3, <1>4, <1>5, ArraysAt
  <1>7. This.name # NULL /\ \A part \in Unread(pc) : This[part] = NULL
    <2>1. "directory" # "class"
      OBVIOUS
    <2> QED
      BY <1>0, <2>1, AtList
  <1>8. new.name # NULL /\ ClassParts(new)
    BY <1>6, <1>7 DEF ClassGood
  <1>9. pc' \in ClassSteps => \A part \in Unread(pc') : new[part] = NULL
    <2>1. Unread("interfaces") \subseteq PartNames \ {"annotations"}
          /\ Unread("interfaces") \subseteq Unread("directory") /\ "failed" \notin ClassSteps
      BY DEF Unread, PartNames, MemberLists, ClassSteps
    <2>2. \A part \in PartNames \ {"annotations"} : new[part] = This[part]
      BY <1>6 DEF ClassGood
    <2> HIDE DEF new
    <2> QED
      BY <1>7, <2>1, <2>2
  <1>10. pc' = "failed" \/ pc' \in ClassSteps \ {"class", "directory"}
    BY DEF ClassSteps
  <1>11. pc' \in MemberLists => AtMember'
    BY DEF MemberLists
  <1> HIDE DEF new
  <1> QED
    BY <1>0, <1>1, <1>2, <1>8, <1>9, <1>10, <1>11, ContextStep

(* A directory of which nothing is read.                                   *)
LEMMA NothingStored ==
  ASSUME NEW exact
  PROVE  StoresRead(<< >>, << >>, << >>, exact)
  <1>1. IsList(<< >>) /\ Len(<< >>) = 0 /\ << >> \in Seq(Seq(Tokens))
    BY EmptyList
  <1>2. << >> = FlattenSeq(<< >>)
    BY DEF FlattenSeq
  <1>3. StoresGood(ctx.fields, ctx.methods, This, << >>, << >>, exact)
    BY <1>1 DEF StoresGood
  <1> QED
    BY <1>1, <1>2, <1>3 DEF StoresRead

(* The directory of a class.                                               *)
LEMMA ReadDirectoryStep ==
  ASSUME NullApart, NEW exact, IInv(exact), Valued(file), FileSurvives(file), exact => Clean(file),
         ReadDirectory
  PROVE  IInv(exact)'
  <1> DEFINE dir == cl.annotations[1]
             r == ReadEntries(dir)
  <1>1. pc = "directory" /\ pc \in ClassSteps /\ cl.annotations # << >>
    BY DEF ReadDirectory, ClassSteps
  <1>2. DirectorySet(ctx, ctx', class, r.value) /\ Acquire(r, "interfaces") /\ ReadFrame /\ class' = class
        /\ members' = members /\ idx' = idx
    BY DEF ReadDirectory, ReadFrame, DirectorySet
  <1>3. members' \in Nat /\ idx' \in Nat
    BY <1>2, Counters
  <1>4. Context(ctx) /\ Loaded(ctx, file) /\ class \in 1..Len(file.classes) /\ Len(file.classes) \in Nat
        /\ This.annotations = NULL
    <2>1. "annotations" \in Unread(pc)
      BY <1>1 DEF Unread
    <2> QED
      BY <1>1, <2>1, AtList
  <1>5. Ctx(ctx) /\ \E V : FileHolds(V, exact)
    BY <1>4, FileValues
  <1>6. exact => SlotsNamed(ctx, file, class - 1)
    BY <1>1, ClassFacts DEF AtClass
  <1> HIDE DEF r
  <1>7. DirectorySplit(ctx, ctx', class, r.value)
    BY <1>2, <1>4, DirectorySetFacts
  <1>8. HoldsMore(r.took) /\ pc' \in {"interfaces", "failed"}
    BY <1>2 DEF Acquire, HoldsMore
  <1>9. \E tooks : StoresRead(r.value, tooks, r.took, exact)
    <2>1. CASE dir = NULL
      <3>1. r = Failed(<< >>) /\ r.value = << >> /\ r.took = << >>
        BY <2>1, FailedPays DEF ReadEntries, r
      <3> QED
        BY <3>1, NothingStored
    <2>2. CASE dir # NULL
      <3>1. PICK V : FileHolds(V, exact)
        BY <1>5
      <3>2. ClassShape(cl, V)
        BY <1>4, <3>1 DEF FileHolds, FileShape, cl
      <3>3. DirectoryShape(dir, V) /\ HasDirectory(file, class) /\ dir = file.classes[class].annotations[1]
        BY <1>1, <2>2, <3>2 DEF ClassShape, HasDirectory, cl
      <3> HIDE DEF dir
      <3>4. DirectoryRead(V, dir, exact)
        BY <1>4, <1>5, <1>6, <2>2, <3>1, <3>3 DEF DirectoryRead
      <3>5. PICK K : EntriesGood(Entries(dir), K, exact)
        BY <3>4, DirectoryEntriesPay
      <3> DEFINE es == Entries(dir)
                 tooks == [i \in 1..LastRead(es) |-> es[i].took]
      <3>6. r = InOrder(es, NoStore)
        BY <2>2 DEF ReadEntries, NoStore, r
      <3> HIDE DEF es
      <3>7. EntriesGood(es, K, exact)
        BY <3>5 DEF es
      <3> DEFINE stores == InOrder(es, NoStore).value
      <3> HIDE DEF stores, tooks
      <3>8. /\ tooks \in Seq(Seq(Tokens)) /\ Len(tooks) <= Len(stores)
            /\ FlattenSeq(tooks) = InOrder(es, NoStore).took
            /\ StoresGood(ctx.fields, ctx.methods, This, stores, tooks, exact)
            /\ \A k \in 1..Len(stores) : stores[k][2] # NULL => SlotNamed(stores[k][1])
        BY <3>7, StoresOf DEF stores, tooks
      <3>9. r.value = stores /\ r.took = FlattenSeq(tooks)
        BY <3>6, <3>8 DEF stores
      <3>10. StoresRead(stores, tooks, r.took, exact)
        BY <3>8, <3>9 DEF StoresRead
      <3> QED
        BY <3>9, <3>10
    <2> QED
      BY <2>1, <2>2
  <1>10. PICK tooks : StoresRead(r.value, tooks, r.took, exact)
    BY <1>9
  <1> QED
    BY <1>1, <1>2, <1>3, <1>7, <1>8, <1>10, DirectoryStep

(* One part of the context is set.                                         *)
CtxParts == {"strs", "types", "protos", "fields", "methods", "classes"}
(* A context one part of which is set.                                     *)
LEMMA ContextSet ==
  ASSUME NEW c, Context(c), NEW part \in CtxParts, NEW v, NEW d, PartSet(c, d, part, v)
  PROVE  Context(d) /\ d[part] = v /\ \A p \in CtxParts \ {part} : d[p] = c[p]
  <1> DEFINE f1 == c.strs
             f2 == c.types
             f3 == c.protos
             f4 == c.fields
             f5 == c.methods
             f6 == c.classes
  <1>1. c = [strs |-> f1, types |-> f2, protos |-> f3, fields |-> f4, methods |-> f5, classes |-> f6]
    BY DEF Context
  <1> HIDE DEF f1, f2, f3, f4, f5, f6
  <1>0. d = [c EXCEPT ![part] = v]
    BY DEF PartSet
  <1>2. CASE part = "strs"
    <2>1. d = [strs |-> v, types |-> f2, protos |-> f3, fields |-> f4, methods |-> f5, classes |-> f6]
      BY <1>0, <1>1, <1>2
    <2>2. Context(d)
      BY <2>1 DEF Context
    <2> QED
      BY <1>1, <1>2, <2>1, <2>2 DEF CtxParts
  <1>3. CASE part = "types"
    <2>1. d = [strs |-> f1, types |-> v, protos |-> f3, fields |-> f4, methods |-> f5, classes |-> f6]
      BY <1>0, <1>1, <1>3
    <2>2. Context(d)
      BY <2>1 DEF Context
    <2> QED
      BY <1>1, <1>3, <2>1, <2>2 DEF CtxParts
  <1>4. CASE part = "protos"
    <2>1. d = [strs |-> f1, types |-> f2, protos |-> v, fields |-> f4, methods |-> f5, classes |-> f6]
      BY <1>0, <1>1, <1>4
    <2>2. Context(d)
      BY <2>1 DEF Context
    <2> QED
      BY <1>1, <1>4, <2>1, <2>2 DEF CtxParts
  <1>5. CASE part = "fields"
    <2>1. d = [strs |-> f1, types |-> f2, protos |-> f3, fields |-> v, methods |-> f5, classes |-> f6]
      BY <1>0, <1>1, <1>5
    <2>2. Context(d)
      BY <2>1 DEF Context
    <2> QED
      BY <1>1, <1>5, <2>1, <2>2 DEF CtxParts
  <1>6. CASE part = "methods"
    <2>1. d = [strs |-> f1, types |-> f2, protos |-> f3, fields |-> f4, methods |-> v, classes |-> f6]
      BY <1>0, <1>1, <1>6
    <2>2. Context(d)
      BY <2>1 DEF Context
    <2> QED
      BY <1>1, <1>6, <2>1, <2>2 DEF CtxParts
  <1>7. CASE part = "classes"
    <2>1. d = [strs |-> f1, types |-> f2, protos |-> f3, fields |-> f4, methods |-> f5, classes |-> v]
      BY <1>0, <1>1, <1>7
    <2>2. Context(d)
      BY <2>1 DEF Context
    <2> QED
      BY <1>1, <1>7, <2>1, <2>2 DEF CtxParts
  <1> QED
    BY <1>2, <1>3, <1>4, <1>5, <1>6, <1>7 DEF CtxParts

(* What a table acquires when it is read.                                  *)
SameBut(c, d, part) == \A p \in CtxParts \ {part} : d[p] = c[p]
(* The debt when the strings are set.                                      *)
LEMMA StrsChange ==
  ASSUME NEW exact, NEW c, NEW data, NEW prs, NEW bag, Parts(c, data, prs),
         Owes(Debt(c, data, prs), bag, exact), NEW took \in Seq(Tokens),
         NEW d, SameBut(c, d, "strs"),
         FreeStrs(d) \in Seq(Tokens), GrowsBy(FreeStrs(c), FreeStrs(d), took, exact)
  PROVE  Parts(d, data, prs) /\ Owes(Debt(d, data, prs), bag (+) BagOf(took), exact)
  <1>1. FreeTypes(d) = FreeTypes(c) /\ FreeProtos(d) = FreeProtos(c) /\ FreeRawFields(d) = FreeRawFields(c) /\ FreeRawMethods(d) = FreeRawMethods(c) /\ FreeClasses(d) = FreeClasses(c)
    BY DEF SameBut, CtxParts, FreeTypes, FreeProtos, FreeRawFields, FreeRawMethods, FreeClasses
  <1>2. Parts(d, data, prs)
    BY <1>1 DEF Parts
  <1>3. ASSUME NEW x
        PROVE  /\ Weight(d, data, prs, x) <= Weight(c, data, prs, x) + Occurrences(took, x)
               /\ exact => Weight(d, data, prs, x) = Weight(c, data, prs, x) + Occurrences(took, x)
    <2> DEFINE s == Occurrences(FreeStrs(c), x)
               t == Occurrences(FreeTypes(c), x)
               p == Occurrences(FreeProtos(c), x)
               f == Occurrences(FreeRawFields(c), x)
               m == Occurrences(FreeRawMethods(c), x)
               k == Occurrences(FreeClasses(c), x)
               e == Occurrences(<<EmptyStr>>, x)
               o == Occurrences(FreeOdexData(data), x)
               q == Occurrences(ContentsOf(prs, DOMAIN prs), x)
               a == Occurrences(took, x)
               s2 == Occurrences(FreeStrs(d), x)
    <2>1. s \in Nat /\ t \in Nat /\ p \in Nat /\ f \in Nat /\ m \in Nat /\ k \in Nat /\ o \in Nat /\ q \in Nat
      BY OccNat DEF Parts
    <2>2. e \in Nat /\ a \in Nat /\ s2 \in Nat
      BY <1>2, OccNat, EmptyStrToken DEF Parts
    <2>3. Weight(c, data, prs, x) = (s + t + p + f + m + k) + e + o + q
      BY DEF Weight, TablesWeight
    <2>4. Weight(d, data, prs, x) = (s2 + t + p + f + m + k) + e + o + q
      BY <1>1 DEF Weight, TablesWeight
    <2>5. s2 <= (s) + a /\ (exact => s2 = (s) + a)
      BY DEF GrowsBy
    <2> HIDE DEF s, t, p, f, m, k, e, o, q, a, s2
    <2>6. (s2 + t + p + f + m + k) + e + o + q <= ((s + t + p + f + m + k) + e + o + q) + a
      BY <2>1, <2>2, <2>5
    <2>7. s2 = (s) + a => (s2 + t + p + f + m + k) + e + o + q = ((s + t + p + f + m + k) + e + o + q) + a
      BY <2>1, <2>2
    <2>8. exact => (s2 + t + p + f + m + k) + e + o + q = ((s + t + p + f + m + k) + e + o + q) + a
      BY <2>5, <2>7
    <2> QED
      BY <2>3, <2>4, <2>6, <2>8 DEF a
  <1>4. /\ \A x : Weight(d, data, prs, x) <= Weight(c, data, prs, x) + Occurrences(took, x)
        /\ exact => \A x : Weight(d, data, prs, x) = Weight(c, data, prs, x) + Occurrences(took, x)
    BY <1>3
  <1> QED
    BY <1>2, <1>4, StepOwes

(* The debt when the types are set.                                        *)
LEMMA TypesChange ==
  ASSUME NEW exact, NEW c, NEW data, NEW prs, NEW bag, Parts(c, data, prs),
         Owes(Debt(c, data, prs), bag, exact), NEW took \in Seq(Tokens),
         NEW d, SameBut(c, d, "types"),
         FreeTypes(d) \in Seq(Tokens), GrowsBy(FreeTypes(c), FreeTypes(d), took, exact)
  PROVE  Parts(d, data, prs) /\ Owes(Debt(d, data, prs), bag (+) BagOf(took), exact)
  <1>1. FreeStrs(d) = FreeStrs(c) /\ FreeProtos(d) = FreeProtos(c) /\ FreeRawFields(d) = FreeRawFields(c) /\ FreeRawMethods(d) = FreeRawMethods(c) /\ FreeClasses(d) = FreeClasses(c)
    BY DEF SameBut, CtxParts, FreeStrs, FreeProtos, FreeRawFields, FreeRawMethods, FreeClasses
  <1>2. Parts(d, data, prs)
    BY <1>1 DEF Parts
  <1>3. ASSUME NEW x
        PROVE  /\ Weight(d, data, prs, x) <= Weight(c, data, prs, x) + Occurrences(took, x)
               /\ exact => Weight(d, data, prs, x) = Weight(c, data, prs, x) + Occurrences(took, x)
    <2> DEFINE s == Occurrences(FreeStrs(c), x)
               t == Occurrences(FreeTypes(c), x)
               p == Occurrences(FreeProtos(c), x)
               f == Occurrences(FreeRawFields(c), x)
               m == Occurrences(FreeRawMethods(c), x)
               k == Occurrences(FreeClasses(c), x)
               e == Occurrences(<<EmptyStr>>, x)
               o == Occurrences(FreeOdexData(data), x)
               q == Occurrences(ContentsOf(prs, DOMAIN prs), x)
               a == Occurrences(took, x)
               t2 == Occurrences(FreeTypes(d), x)
    <2>1. s \in Nat /\ t \in Nat /\ p \in Nat /\ f \in Nat /\ m \in Nat /\ k \in Nat /\ o \in Nat /\ q \in Nat
      BY OccNat DEF Parts
    <2>2. e \in Nat /\ a \in Nat /\ t2 \in Nat
      BY <1>2, OccNat, EmptyStrToken DEF Parts
    <2>3. Weight(c, data, prs, x) = (s + t + p + f + m + k) + e + o + q
      BY DEF Weight, TablesWeight
    <2>4. Weight(d, data, prs, x) = (s + t2 + p + f + m + k) + e + o + q
      BY <1>1 DEF Weight, TablesWeight
    <2>5. t2 <= (t) + a /\ (exact => t2 = (t) + a)
      BY DEF GrowsBy
    <2> HIDE DEF s, t, p, f, m, k, e, o, q, a, t2
    <2>6. (s + t2 + p + f + m + k) + e + o + q <= ((s + t + p + f + m + k) + e + o + q) + a
      BY <2>1, <2>2, <2>5
    <2>7. t2 = (t) + a => (s + t2 + p + f + m + k) + e + o + q = ((s + t + p + f + m + k) + e + o + q) + a
      BY <2>1, <2>2
    <2>8. exact => (s + t2 + p + f + m + k) + e + o + q = ((s + t + p + f + m + k) + e + o + q) + a
      BY <2>5, <2>7
    <2> QED
      BY <2>3, <2>4, <2>6, <2>8 DEF a
  <1>4. /\ \A x : Weight(d, data, prs, x) <= Weight(c, data, prs, x) + Occurrences(took, x)
        /\ exact => \A x : Weight(d, data, prs, x) = Weight(c, data, prs, x) + Occurrences(took, x)
    BY <1>3
  <1> QED
    BY <1>2, <1>4, StepOwes

(* The debt when the fields are set.                                       *)
LEMMA FieldsChange ==
  ASSUME NEW exact, NEW c, NEW data, NEW prs, NEW bag, Parts(c, data, prs),
         Owes(Debt(c, data, prs), bag, exact), NEW took \in Seq(Tokens),
         NEW d, SameBut(c, d, "fields"),
         FreeRawFields(d) \in Seq(Tokens), GrowsBy(FreeRawFields(c), FreeRawFields(d), took, exact)
  PROVE  Parts(d, data, prs) /\ Owes(Debt(d, data, prs), bag (+) BagOf(took), exact)
  <1>1. FreeStrs(d) = FreeStrs(c) /\ FreeTypes(d) = FreeTypes(c) /\ FreeProtos(d) = FreeProtos(c) /\ FreeRawMethods(d) = FreeRawMethods(c) /\ FreeClasses(d) = FreeClasses(c)
    BY DEF SameBut, CtxParts, FreeStrs, FreeTypes, FreeProtos, FreeRawMethods, FreeClasses
  <1>2. Parts(d, data, prs)
    BY <1>1 DEF Parts
  <1>3. ASSUME NEW x
        PROVE  /\ Weight(d, data, prs, x) <= Weight(c, data, prs, x) + Occurrences(took, x)
               /\ exact => Weight(d, data, prs, x) = Weight(c, data, prs, x) + Occurrences(took, x)
    <2> DEFINE s == Occurrences(FreeStrs(c), x)
               t == Occurrences(FreeTypes(c), x)
               p == Occurrences(FreeProtos(c), x)
               f == Occurrences(FreeRawFields(c), x)
               m == Occurrences(FreeRawMethods(c), x)
               k == Occurrences(FreeClasses(c), x)
               e == Occurrences(<<EmptyStr>>, x)
               o == Occurrences(FreeOdexData(data), x)
               q == Occurrences(ContentsOf(prs, DOMAIN prs), x)
               a == Occurrences(took, x)
               f2 == Occurrences(FreeRawFields(d), x)
    <2>1. s \in Nat /\ t \in Nat /\ p \in Nat /\ f \in Nat /\ m \in Nat /\ k \in Nat /\ o \in Nat /\ q \in Nat
      BY OccNat DEF Parts
    <2>2. e \in Nat /\ a \in Nat /\ f2 \in Nat
      BY <1>2, OccNat, EmptyStrToken DEF Parts
    <2>3. Weight(c, data, prs, x) = (s + t + p + f + m + k) + e + o + q
      BY DEF Weight, TablesWeight
    <2>4. Weight(d, data, prs, x) = (s + t + p + f2 + m + k) + e + o + q
      BY <1>1 DEF Weight, TablesWeight
    <2>5. f2 <= (f) + a /\ (exact => f2 = (f) + a)
      BY DEF GrowsBy
    <2> HIDE DEF s, t, p, f, m, k, e, o, q, a, f2
    <2>6. (s + t + p + f2 + m + k) + e + o + q <= ((s + t + p + f + m + k) + e + o + q) + a
      BY <2>1, <2>2, <2>5
    <2>7. f2 = (f) + a => (s + t + p + f2 + m + k) + e + o + q = ((s + t + p + f + m + k) + e + o + q) + a
      BY <2>1, <2>2
    <2>8. exact => (s + t + p + f2 + m + k) + e + o + q = ((s + t + p + f + m + k) + e + o + q) + a
      BY <2>5, <2>7
    <2> QED
      BY <2>3, <2>4, <2>6, <2>8 DEF a
  <1>4. /\ \A x : Weight(d, data, prs, x) <= Weight(c, data, prs, x) + Occurrences(took, x)
        /\ exact => \A x : Weight(d, data, prs, x) = Weight(c, data, prs, x) + Occurrences(took, x)
    BY <1>3
  <1> QED
    BY <1>2, <1>4, StepOwes

(* The debt when the methods are set.                                      *)
LEMMA MethodsChange ==
  ASSUME NEW exact, NEW c, NEW data, NEW prs, NEW bag, Parts(c, data, prs),
         Owes(Debt(c, data, prs), bag, exact), NEW took \in Seq(Tokens),
         NEW d, SameBut(c, d, "methods"),
         FreeRawMethods(d) \in Seq(Tokens), GrowsBy(FreeRawMethods(c), FreeRawMethods(d), took, exact)
  PROVE  Parts(d, data, prs) /\ Owes(Debt(d, data, prs), bag (+) BagOf(took), exact)
  <1>1. FreeStrs(d) = FreeStrs(c) /\ FreeTypes(d) = FreeTypes(c) /\ FreeProtos(d) = FreeProtos(c) /\ FreeRawFields(d) = FreeRawFields(c) /\ FreeClasses(d) = FreeClasses(c)
    BY DEF SameBut, CtxParts, FreeStrs, FreeTypes, FreeProtos, FreeRawFields, FreeClasses
  <1>2. Parts(d, data, prs)
    BY <1>1 DEF Parts
  <1>3. ASSUME NEW x
        PROVE  /\ Weight(d, data, prs, x) <= Weight(c, data, prs, x) + Occurrences(took, x)
               /\ exact => Weight(d, data, prs, x) = Weight(c, data, prs, x) + Occurrences(took, x)
    <2> DEFINE s == Occurrences(FreeStrs(c), x)
               t == Occurrences(FreeTypes(c), x)
               p == Occurrences(FreeProtos(c), x)
               f == Occurrences(FreeRawFields(c), x)
               m == Occurrences(FreeRawMethods(c), x)
               k == Occurrences(FreeClasses(c), x)
               e == Occurrences(<<EmptyStr>>, x)
               o == Occurrences(FreeOdexData(data), x)
               q == Occurrences(ContentsOf(prs, DOMAIN prs), x)
               a == Occurrences(took, x)
               m2 == Occurrences(FreeRawMethods(d), x)
    <2>1. s \in Nat /\ t \in Nat /\ p \in Nat /\ f \in Nat /\ m \in Nat /\ k \in Nat /\ o \in Nat /\ q \in Nat
      BY OccNat DEF Parts
    <2>2. e \in Nat /\ a \in Nat /\ m2 \in Nat
      BY <1>2, OccNat, EmptyStrToken DEF Parts
    <2>3. Weight(c, data, prs, x) = (s + t + p + f + m + k) + e + o + q
      BY DEF Weight, TablesWeight
    <2>4. Weight(d, data, prs, x) = (s + t + p + f + m2 + k) + e + o + q
      BY <1>1 DEF Weight, TablesWeight
    <2>5. m2 <= (m) + a /\ (exact => m2 = (m) + a)
      BY DEF GrowsBy
    <2> HIDE DEF s, t, p, f, m, k, e, o, q, a, m2
    <2>6. (s + t + p + f + m2 + k) + e + o + q <= ((s + t + p + f + m + k) + e + o + q) + a
      BY <2>1, <2>2, <2>5
    <2>7. m2 = (m) + a => (s + t + p + f + m2 + k) + e + o + q = ((s + t + p + f + m + k) + e + o + q) + a
      BY <2>1, <2>2
    <2>8. exact => (s + t + p + f + m2 + k) + e + o + q = ((s + t + p + f + m + k) + e + o + q) + a
      BY <2>5, <2>7
    <2> QED
      BY <2>3, <2>4, <2>6, <2>8 DEF a
  <1>4. /\ \A x : Weight(d, data, prs, x) <= Weight(c, data, prs, x) + Occurrences(took, x)
        /\ exact => \A x : Weight(d, data, prs, x) = Weight(c, data, prs, x) + Occurrences(took, x)
    BY <1>3
  <1> QED
    BY <1>2, <1>4, StepOwes

(* The debt when the classes are set.                                      *)
LEMMA ClassTableChange ==
  ASSUME NEW exact, NEW c, NEW data, NEW prs, NEW bag, Parts(c, data, prs),
         Owes(Debt(c, data, prs), bag, exact), NEW took \in Seq(Tokens),
         NEW d, SameBut(c, d, "classes"),
         FreeClasses(d) \in Seq(Tokens), GrowsBy(FreeClasses(c), FreeClasses(d), took, exact)
  PROVE  Parts(d, data, prs) /\ Owes(Debt(d, data, prs), bag (+) BagOf(took), exact)
  <1>1. FreeStrs(d) = FreeStrs(c) /\ FreeTypes(d) = FreeTypes(c) /\ FreeProtos(d) = FreeProtos(c) /\ FreeRawFields(d) = FreeRawFields(c) /\ FreeRawMethods(d) = FreeRawMethods(c)
    BY DEF SameBut, CtxParts, FreeStrs, FreeTypes, FreeProtos, FreeRawFields, FreeRawMethods
  <1>2. Parts(d, data, prs)
    BY <1>1 DEF Parts
  <1>3. ASSUME NEW x
        PROVE  /\ Weight(d, data, prs, x) <= Weight(c, data, prs, x) + Occurrences(took, x)
               /\ exact => Weight(d, data, prs, x) = Weight(c, data, prs, x) + Occurrences(took, x)
    <2> DEFINE s == Occurrences(FreeStrs(c), x)
               t == Occurrences(FreeTypes(c), x)
               p == Occurrences(FreeProtos(c), x)
               f == Occurrences(FreeRawFields(c), x)
               m == Occurrences(FreeRawMethods(c), x)
               k == Occurrences(FreeClasses(c), x)
               e == Occurrences(<<EmptyStr>>, x)
               o == Occurrences(FreeOdexData(data), x)
               q == Occurrences(ContentsOf(prs, DOMAIN prs), x)
               a == Occurrences(took, x)
               k2 == Occurrences(FreeClasses(d), x)
    <2>1. s \in Nat /\ t \in Nat /\ p \in Nat /\ f \in Nat /\ m \in Nat /\ k \in Nat /\ o \in Nat /\ q \in Nat
      BY OccNat DEF Parts
    <2>2. e \in Nat /\ a \in Nat /\ k2 \in Nat
      BY <1>2, OccNat, EmptyStrToken DEF Parts
    <2>3. Weight(c, data, prs, x) = (s + t + p + f + m + k) + e + o + q
      BY DEF Weight, TablesWeight
    <2>4. Weight(d, data, prs, x) = (s + t + p + f + m + k2) + e + o + q
      BY <1>1 DEF Weight, TablesWeight
    <2>5. k2 <= (k) + a /\ (exact => k2 = (k) + a)
      BY DEF GrowsBy
    <2> HIDE DEF s, t, p, f, m, k, e, o, q, a, k2
    <2>6. (s + t + p + f + m + k2) + e + o + q <= ((s + t + p + f + m + k) + e + o + q) + a
      BY <2>1, <2>2, <2>5
    <2>7. k2 = (k) + a => (s + t + p + f + m + k2) + e + o + q = ((s + t + p + f + m + k) + e + o + q) + a
      BY <2>1, <2>2
    <2>8. exact => (s + t + p + f + m + k2) + e + o + q = ((s + t + p + f + m + k) + e + o + q) + a
      BY <2>5, <2>7
    <2> QED
      BY <2>3, <2>4, <2>6, <2>8 DEF a
  <1>4. /\ \A x : Weight(d, data, prs, x) <= Weight(c, data, prs, x) + Occurrences(took, x)
        /\ exact => \A x : Weight(d, data, prs, x) = Weight(c, data, prs, x) + Occurrences(took, x)
    BY <1>3
  <1> QED
    BY <1>2, <1>4, StepOwes

(* The table of prototypes owes the prototypes and lists that were         *)
(* acquired for it in addition.                                            *)
ProtosGrow(c, d, prs, prs2, took, exact) ==
  /\ \A x : Occurrences(FreeProtos(d), x) + Occurrences(ContentsOf(prs2, DOMAIN prs2), x)
             <= (Occurrences(FreeProtos(c), x) + Occurrences(ContentsOf(prs, DOMAIN prs), x)) + Occurrences(took, x)
  /\ exact => \A x : Occurrences(FreeProtos(d), x) + Occurrences(ContentsOf(prs2, DOMAIN prs2), x)
                       = (Occurrences(FreeProtos(c), x) + Occurrences(ContentsOf(prs, DOMAIN prs), x)) + Occurrences(took, x)
(* The debt when the prototypes are set, which hold their lists.           *)
LEMMA ProtosChange ==
  ASSUME NEW exact, NEW c, NEW data, NEW prs, NEW bag, Parts(c, data, prs),
         Owes(Debt(c, data, prs), bag, exact), NEW took \in Seq(Tokens),
         NEW d, SameBut(c, d, "protos"), NEW prs2,
         FreeProtos(d) \in Seq(Tokens), ContentsOf(prs2, DOMAIN prs2) \in Seq(Tokens), ProtosGrow(c, d, prs, prs2, took, exact)
  PROVE  Parts(d, data, prs2) /\ Owes(Debt(d, data, prs2), bag (+) BagOf(took), exact)
  <1>1. FreeStrs(d) = FreeStrs(c) /\ FreeTypes(d) = FreeTypes(c) /\ FreeRawFields(d) = FreeRawFields(c) /\ FreeRawMethods(d) = FreeRawMethods(c) /\ FreeClasses(d) = FreeClasses(c)
    BY DEF SameBut, CtxParts, FreeStrs, FreeTypes, FreeRawFields, FreeRawMethods, FreeClasses
  <1>2. Parts(d, data, prs2)
    BY <1>1 DEF Parts
  <1>3. ASSUME NEW x
        PROVE  /\ Weight(d, data, prs2, x) <= Weight(c, data, prs, x) + Occurrences(took, x)
               /\ exact => Weight(d, data, prs2, x) = Weight(c, data, prs, x) + Occurrences(took, x)
    <2> DEFINE s == Occurrences(FreeStrs(c), x)
               t == Occurrences(FreeTypes(c), x)
               p == Occurrences(FreeProtos(c), x)
               f == Occurrences(FreeRawFields(c), x)
               m == Occurrences(FreeRawMethods(c), x)
               k == Occurrences(FreeClasses(c), x)
               e == Occurrences(<<EmptyStr>>, x)
               o == Occurrences(FreeOdexData(data), x)
               q == Occurrences(ContentsOf(prs, DOMAIN prs), x)
               a == Occurrences(took, x)
               p2 == Occurrences(FreeProtos(d), x)
               q2 == Occurrences(ContentsOf(prs2, DOMAIN prs2), x)
    <2>1. s \in Nat /\ t \in Nat /\ p \in Nat /\ f \in Nat /\ m \in Nat /\ k \in Nat /\ o \in Nat /\ q \in Nat
      BY OccNat DEF Parts
    <2>2. e \in Nat /\ a \in Nat /\ p2 \in Nat /\ q2 \in Nat
      BY <1>2, OccNat, EmptyStrToken DEF Parts
    <2>3. Weight(c, data, prs, x) = (s + t + p + f + m + k) + e + o + q
      BY DEF Weight, TablesWeight
    <2>4. Weight(d, data, prs2, x) = (s + t + p2 + f + m + k) + e + o + q2
      BY <1>1 DEF Weight, TablesWeight
    <2>5. p2 + q2 <= (p + q) + a /\ (exact => p2 + q2 = (p + q) + a)
      BY DEF ProtosGrow
    <2> HIDE DEF s, t, p, f, m, k, e, o, q, a, p2, q2
    <2>6. (s + t + p2 + f + m + k) + e + o + q2 <= ((s + t + p + f + m + k) + e + o + q) + a
      BY <2>1, <2>2, <2>5
    <2>7. p2 + q2 = (p + q) + a => (s + t + p2 + f + m + k) + e + o + q2 = ((s + t + p + f + m + k) + e + o + q) + a
      BY <2>1, <2>2
    <2>8. exact => (s + t + p2 + f + m + k) + e + o + q2 = ((s + t + p + f + m + k) + e + o + q) + a
      BY <2>5, <2>7
    <2> QED
      BY <2>3, <2>4, <2>6, <2>8 DEF a
  <1>4. /\ \A x : Weight(d, data, prs2, x) <= Weight(c, data, prs, x) + Occurrences(took, x)
        /\ exact => \A x : Weight(d, data, prs2, x) = Weight(c, data, prs, x) + Occurrences(took, x)
    BY <1>3
  <1> QED
    BY <1>2, <1>4, StepOwes

(* The debt when the metadata is set.                                      *)
LEMMA MetadataChange ==
  ASSUME NEW exact, NEW c, NEW data, NEW prs, NEW bag, Parts(c, data, prs),
         Owes(Debt(c, data, prs), bag, exact), NEW took \in Seq(Tokens),
         NEW data2,
         FreeOdexData(data2) \in Seq(Tokens), GrowsBy(FreeOdexData(data), FreeOdexData(data2), took, exact)
  PROVE  Parts(c, data2, prs) /\ Owes(Debt(c, data2, prs), bag (+) BagOf(took), exact)
  <1>1. TRUE
    OBVIOUS
  <1>2. Parts(c, data2, prs)
    BY <1>1 DEF Parts
  <1>3. ASSUME NEW x
        PROVE  /\ Weight(c, data2, prs, x) <= Weight(c, data, prs, x) + Occurrences(took, x)
               /\ exact => Weight(c, data2, prs, x) = Weight(c, data, prs, x) + Occurrences(took, x)
    <2> DEFINE s == Occurrences(FreeStrs(c), x)
               t == Occurrences(FreeTypes(c), x)
               p == Occurrences(FreeProtos(c), x)
               f == Occurrences(FreeRawFields(c), x)
               m == Occurrences(FreeRawMethods(c), x)
               k == Occurrences(FreeClasses(c), x)
               e == Occurrences(<<EmptyStr>>, x)
               o == Occurrences(FreeOdexData(data), x)
               q == Occurrences(ContentsOf(prs, DOMAIN prs), x)
               a == Occurrences(took, x)
               o2 == Occurrences(FreeOdexData(data2), x)
    <2>1. s \in Nat /\ t \in Nat /\ p \in Nat /\ f \in Nat /\ m \in Nat /\ k \in Nat /\ o \in Nat /\ q \in Nat
      BY OccNat DEF Parts
    <2>2. e \in Nat /\ a \in Nat /\ o2 \in Nat
      BY <1>2, OccNat, EmptyStrToken DEF Parts
    <2>3. Weight(c, data, prs, x) = (s + t + p + f + m + k) + e + o + q
      BY DEF Weight, TablesWeight
    <2>4. Weight(c, data2, prs, x) = (s + t + p + f + m + k) + e + o2 + q
      BY <1>1 DEF Weight, TablesWeight
    <2>5. o2 <= (o) + a /\ (exact => o2 = (o) + a)
      BY DEF GrowsBy
    <2> HIDE DEF s, t, p, f, m, k, e, o, q, a, o2
    <2>6. (s + t + p + f + m + k) + e + o2 + q <= ((s + t + p + f + m + k) + e + o + q) + a
      BY <2>1, <2>2, <2>5
    <2>7. o2 = (o) + a => (s + t + p + f + m + k) + e + o2 + q = ((s + t + p + f + m + k) + e + o + q) + a
      BY <2>1, <2>2
    <2>8. exact => (s + t + p + f + m + k) + e + o2 + q = ((s + t + p + f + m + k) + e + o + q) + a
      BY <2>5, <2>7
    <2> QED
      BY <2>3, <2>4, <2>6, <2>8 DEF a
  <1>4. /\ \A x : Weight(c, data2, prs, x) <= Weight(c, data, prs, x) + Occurrences(took, x)
        /\ exact => \A x : Weight(c, data2, prs, x) = Weight(c, data, prs, x) + Occurrences(took, x)
    BY <1>3
  <1> QED
    BY <1>2, <1>4, StepOwes

(* The steps before the classes.                                           *)
SectionSteps == {"header", "strings", "types", "protos", "fields", "methods", "classes"}

(* The lists of parameters that have been read.                            *)
ProtoLists(prs, f) ==
  IsList(prs) /\ Len(prs) <= Len(f.protos) /\ \A p \in 1..Len(prs) : ContentList(prs[p])

(* What the invariant says between sections.                               *)
LEMMA AtSection ==
  ASSUME NEW exact, pc' \in SectionSteps, Common', AtReading(exact)', ProtosNamed',
         pc' \in {"header", "strings"} => Empty',
         pc' = "header" /\ metadata' # NULL => metadata'.id = NULL,
         pc' = "types" => AtTypes', pc' = "protos" => AtProtos', pc' = "fields" => AtFields',
         pc' = "methods" => AtMethods', pc' = "classes" => AtClasses'
  PROVE  IInv(exact)'
  BY DEF IInv, Phase, SectionSteps, ClassSteps, MemberLists, Endings

(* The invariant between sections, in its parts.                           *)
LEMMA SectionFacts ==
  ASSUME NEW exact, IInv(exact), pc \in SectionSteps \cup {"odex"}
  PROVE  /\ Common /\ AtReading(exact) /\ ProtosNamed
         /\ Context(ctx) /\ Metadata(metadata) /\ ProtoLists(protos, file)
         /\ class \in 0..Len(file.classes) + 1 /\ members \in Nat /\ idx \in Nat
         /\ (pc \in {"odex", "header", "strings"} => Empty)
         /\ (pc = "odex" => metadata = NULL)
         /\ (pc = "header" /\ metadata # NULL => metadata.id = NULL)
         /\ (pc = "types" => AtTypes) /\ (pc = "protos" => AtProtos) /\ (pc = "fields" => AtFields)
         /\ (pc = "methods" => AtMethods) /\ (pc = "classes" => AtClasses)
  <1>1. Common /\ Phase(exact)
    BY DEF IInv
  <1>2. AtReading(exact) /\ ProtosNamed
    BY <1>1 DEF Phase, SectionSteps, Endings
  <1> QED
    BY <1>1, <1>2 DEF Phase, Common, ProtoLists

(* A step that reads a section keeps the parts of the invariant that all   *)
(* steps share.                                                            *)
LEMMA SectionCommon ==
  ASSUME NEW exact, IInv(exact), pc \in SectionSteps \cup {"odex"}, file' = file,
         Context(ctx'), Metadata(metadata'), ProtoLists(protos', file), NEW took \in Seq(Tokens),
         HoldsMore(took), Parts(ctx', metadata', protos'),
         Owes(Debt(ctx', metadata', protos'), held (+) BagOf(took), exact),
         class' \in 0..Len(file.classes) + 1, members' \in Nat, idx' \in Nat,
         pc' \in Steps \cup MemberLists
  PROVE  Common' /\ AtReading(exact)'
  <1>1. held' = held (+) BagOf(took)
    BY DEF HoldsMore
  <1>2. AtReading(exact)' /\ IsABag(held')
    BY <1>1 DEF AtReading, Owes
  <1>3. pc' \in Steps \cup ToSet(Lists) \cup (Endings \ {"crashed"})
    <2>1. MemberLists \subseteq ToSet(Lists)
      BY DEF MemberLists, Lists, ToSet
    <2> QED
      BY <2>1
  <1> QED
    BY <1>2, <1>3 DEF Common, ProtoLists

(* What was empty grows by what was acquired.                              *)
LEMMA PaidGrows ==
  ASSUME NEW exact, NEW took, NEW free, Paid(took, free, exact), NEW old, old = << >>
  PROVE  GrowsBy(old, free, took, exact) /\ took \in Seq(Tokens) /\ free \in Seq(Tokens)
  <1>1. took \in Seq(Tokens) /\ free \in Seq(Tokens)
    BY DEF Paid
  <1>2. ASSUME NEW x
        PROVE  /\ Occurrences(free, x) <= Occurrences(old, x) + Occurrences(took, x)
               /\ exact => Occurrences(free, x) = Occurrences(old, x) + Occurrences(took, x)
    <2> DEFINE a == Occurrences(free, x)
               b == Occurrences(took, x)
    <2>1. a \in Nat /\ b \in Nat /\ Occurrences(old, x) = 0
      BY <1>1, OccNat, OccEmpty
    <2>2. a <= b /\ (exact => a = b)
      BY DEF Paid
    <2> HIDE DEF a, b
    <2>3. a <= 0 + b /\ (exact => a = 0 + b)
      BY <2>1, <2>2
    <2> QED
      BY <2>1, <2>3 DEF a, b
  <1> QED
    BY <1>1, <1>2 DEF GrowsBy

(* Arrays that have not been read hold nothing.                            *)
LEMMA NullTables ==
  /\ \A c : c.strs = NULL => FreeStrs(c) = << >>
  /\ \A c : c.types = NULL => FreeTypes(c) = << >>
  /\ \A c : c.protos = NULL => FreeProtos(c) = << >>
  /\ \A c : c.fields = NULL => FreeRawFields(c) = << >>
  /\ \A c : c.methods = NULL => FreeRawMethods(c) = << >>
  /\ \A c : c.classes = NULL => FreeClasses(c) = << >>
  BY DEF FreeStrs, FreeTypes, FreeProtos, FreeRawFields, FreeRawMethods, FreeClasses, FreeWhole, FreeArray

(* A file without an odex header.                                          *)
LEMMA NoOdexHeaderStep ==
  ASSUME NullApart, NEW exact, IInv(exact), NoOdexHeader
  PROVE  IInv(exact)'
  <1>1. pc = "odex" /\ pc' = "header" /\ UNCHANGED <<file, ctx, protos, metadata, class, members, idx, dex, held>>
    BY DEF NoOdexHeader
  <1>2. Common /\ AtReading(exact) /\ ProtosNamed /\ Empty /\ metadata = NULL
    BY <1>1, SectionFacts
  <1>3. Common'
    BY <1>1, <1>2 DEF Common, Steps
  <1>4. AtReading(exact)' /\ ProtosNamed' /\ Empty' /\ metadata' = NULL
    BY <1>1, <1>2 DEF AtReading, ProtosNamed, Empty
  <1>5. "header" \in SectionSteps
    BY DEF SectionSteps
  <1> QED
    BY <1>1, <1>3, <1>4, <1>5, AtSection

(* The section of strings.                                                 *)
LEMMA ReadStringsStep ==
  ASSUME NullApart, NEW exact, IInv(exact), Valued(file), ReadStrings
  PROVE  IInv(exact)'
  <1> DEFINE list == file.strings
             r == StringsRead(list)
  <1>1. /\ pc = "strings" /\ Acquire(r, "types") /\ PartSet(ctx, ctx', "strs", r.value)
        /\ UNCHANGED <<file, metadata, class, members, idx, dex, protos>>
    BY DEF ReadStrings, Section, StringsRead, StringRead, PartSet
  <1>2. /\ AtReading(exact) /\ Context(ctx) /\ Metadata(metadata) /\ ProtoLists(protos, file)
        /\ class \in 0..Len(file.classes) + 1 /\ members \in Nat /\ idx \in Nat /\ Empty
    BY <1>1, SectionFacts DEF SectionSteps
  <1>3. IsList(list)
    BY DEF Valued, FileShape
  <1>4. /\ Pays(r, FreeWhole(r.value, FreeRef, "strs"), exact)
        /\ IsList(r.value) /\ Len(r.value) = Len(list)
        /\ r.ok => \A i \in 1..Len(list) : r.value[i] \in Strs
    BY <1>3, StringsPay
  <1> HIDE DEF list, r
  <1>5. "strs" \in CtxParts /\ Context(ctx') /\ ctx'.strs = r.value /\ SameBut(ctx, ctx', "strs")
    <2>1. "strs" \in CtxParts
      BY DEF CtxParts
    <2> QED
      BY <1>1, <1>2, <2>1, ContextSet DEF SameBut
  <1>6. FreeStrs(ctx') = FreeWhole(r.value, FreeRef, "strs") /\ FreeStrs(ctx) = << >>
    BY <1>2, <1>5, NullTables DEF FreeStrs, Empty, NoContext
  <1>7. GrowsBy(FreeStrs(ctx), FreeStrs(ctx'), r.took, exact) /\ r.took \in Seq(Tokens)
        /\ FreeStrs(ctx') \in Seq(Tokens)
    BY <1>4, <1>6, PaidGrows DEF Pays
  <1>8. Parts(ctx', metadata, protos) /\ Owes(Debt(ctx', metadata, protos), held (+) BagOf(r.took), exact)
    BY <1>2, <1>5, <1>7, StrsChange DEF AtReading
  <1>9. HoldsMore(r.took) /\ pc' = IF r.ok THEN "types" ELSE "failed"
    BY <1>1 DEF Acquire, HoldsMore
  <1>10. pc' \in Steps \cup MemberLists
    BY <1>9 DEF Steps
  <1>11. Common' /\ AtReading(exact)'
    BY <1>1, <1>2, <1>5, <1>7, <1>8, <1>9, <1>10, SectionCommon DEF SectionSteps
  <1>12. ProtosNamed'
    BY <1>1, <1>2, EmptyList DEF ProtosNamed, Empty
  <1>13. CASE r.ok
    <2>1. StrsLoaded'
      BY <1>1, <1>4, <1>5, <1>13 DEF StrsLoaded, StrList, list
    <2>2. Unset({"types", "protos", "fields", "methods", "classes"})'
      <3>1. \A part \in {"types", "protos", "fields", "methods", "classes"} : ctx'[part] = ctx[part]
        BY <1>5 DEF SameBut, CtxParts
      <3> QED
        BY <1>2, <3>1 DEF Unset, Empty, NoContext
    <2>3. AtTypes'
      BY <1>1, <1>2, <2>1, <2>2 DEF AtTypes, Empty
    <2>4. pc' = "types" /\ "types" \in SectionSteps
      BY <1>9, <1>13 DEF SectionSteps
    <2> QED
      BY <1>11, <1>12, <2>3, <2>4, AtSection
  <1>14. CASE ~r.ok
    BY <1>9, <1>11, <1>12, <1>14, AtFailed
  <1> QED
    BY <1>13, <1>14

(* An entry that was read has no annotations yet.                          *)
LEMMA RawsGood ==
  /\ \A fld : RawFieldGood(fld) => RawFieldParts(fld) /\ fld.annotations = NULL
  /\ \A mtd : RawMethodGood(mtd) => /\ RawMethodParts(mtd) /\ mtd.annotations = NULL
                                    /\ mtd.parameter_annotations = NULL
  <1>1. FreeAnnotations(NULL) = << >> /\ FreeParameterAnnotations(NULL) = << >> /\ << >> \in Seq(Tokens)
    BY NoTokens DEF FreeAnnotations, FreeParameterAnnotations, FreeArray
  <1>2. ASSUME NEW fld, RawFieldGood(fld) PROVE RawFieldParts(fld) /\ fld.annotations = NULL
    BY <1>1, <1>2 DEF RawFieldGood, RawFieldParts
  <1>3. ASSUME NEW mtd, RawMethodGood(mtd)
        PROVE  RawMethodParts(mtd) /\ mtd.annotations = NULL /\ mtd.parameter_annotations = NULL
    BY <1>1, <1>3 DEF RawMethodGood, RawMethodParts
  <1> QED
    BY <1>2, <1>3

(* The section of types.                                                   *)
LEMMA ReadTypesStep ==
  ASSUME NullApart, NEW exact, IInv(exact), Valued(file), ReadTypes
  PROVE  IInv(exact)'
  <1> DEFINE list == file.types
             r == TypesRead(ctx.strs, list)
  <1>1. /\ pc = "types" /\ Acquire(r, "protos") /\ PartSet(ctx, ctx', "types", r.value)
        /\ UNCHANGED <<file, metadata, class, members, idx, dex, protos>>
    BY DEF ReadTypes, Section, TypesRead, PartSet
  <1>2. /\ AtReading(exact) /\ Context(ctx) /\ Metadata(metadata) /\ ProtoLists(protos, file)
        /\ class \in 0..Len(file.classes) + 1 /\ members \in Nat /\ idx \in Nat /\ AtTypes /\ ProtosNamed
    BY <1>1, SectionFacts DEF SectionSteps
  <1>3. IsList(list)
    BY DEF Valued, FileShape
  <1>4. /\ Pays(r, FreeWhole(r.value, FreeRef, "types"), exact)
        /\ IsList(r.value) /\ Len(r.value) = Len(list)
        /\ r.ok => \A i \in 1..Len(list) : r.value[i] \in Strs
    <2>1. IsList(ctx.strs) /\ (\A i \in 1..Len(ctx.strs) : ctx.strs[i] \in Strs)
      BY <1>2 DEF AtTypes, StrsLoaded, StrList
    <2> HIDE DEF list
    <2> QED
      BY <1>3, <2>1, TypesPay
  <1> HIDE DEF list, r
  <1>5. "types" \in CtxParts /\ Context(ctx') /\ ctx'.types = r.value /\ SameBut(ctx, ctx', "types")
    <2>1. "types" \in CtxParts
      BY DEF CtxParts
    <2> QED
      BY <1>1, <1>2, <2>1, ContextSet DEF SameBut
  <1>6. FreeTypes(ctx') = FreeWhole(r.value, FreeRef, "types") /\ FreeTypes(ctx) = << >>
    <2>1. ctx.types = NULL
      BY <1>2 DEF AtTypes, Unset
    <2> QED
      BY <1>5, <2>1, NullTables DEF FreeTypes
  <1>7. GrowsBy(FreeTypes(ctx), FreeTypes(ctx'), r.took, exact) /\ r.took \in Seq(Tokens)
        /\ FreeTypes(ctx') \in Seq(Tokens)
    BY <1>4, <1>6, PaidGrows DEF Pays
  <1>8. Parts(ctx', metadata, protos) /\ Owes(Debt(ctx', metadata, protos), held (+) BagOf(r.took), exact)
    BY <1>2, <1>5, <1>7, TypesChange DEF AtReading
  <1>9. HoldsMore(r.took) /\ pc' = IF r.ok THEN "protos" ELSE "failed"
    BY <1>1 DEF Acquire, HoldsMore
  <1>10. pc' \in Steps \cup MemberLists
    BY <1>9 DEF Steps
  <1>11. Common' /\ AtReading(exact)'
    BY <1>1, <1>2, <1>5, <1>7, <1>8, <1>9, <1>10, SectionCommon DEF SectionSteps
  <1>0. \A part \in CtxParts \ {"types"} : ctx'[part] = ctx[part]
    BY <1>5 DEF SameBut
  <1>00. ctx'.strs = ctx.strs /\ ctx'.protos = ctx.protos /\ ctx'.fields = ctx.fields /\ ctx'.methods = ctx.methods /\ ctx'.classes = ctx.classes
    BY <1>0 DEF CtxParts
  <1>12. ProtosNamed'
    BY <1>1, <1>2, <1>00 DEF ProtosNamed, AtTypes, Unset
  <1>13. CASE r.ok
    <2>1. TypesLoaded'
      BY <1>1, <1>4, <1>5, <1>13, RawsGood DEF TypesLoaded, StrList, list
    <2>2. Unset({"protos", "fields", "methods", "classes"})'
      BY <1>2, <1>00 DEF AtTypes, Unset
    <2>3. AtProtos'
      BY <1>1, <1>2, <1>00, <2>1, <2>2 DEF AtProtos, AtTypes, StrsLoaded
    <2>4. pc' = "protos" /\ "protos" \in SectionSteps
      BY <1>9, <1>13 DEF SectionSteps
    <2> QED
      BY <1>11, <1>12, <2>3, <2>4, AtSection
  <1>14. CASE ~r.ok
    BY <1>9, <1>11, <1>12, <1>14, AtFailed
  <1> QED
    BY <1>13, <1>14

(* The section of fields.                                                  *)
LEMMA ReadFieldsStep ==
  ASSUME NullApart, NEW exact, IInv(exact), Valued(file), ReadFields
  PROVE  IInv(exact)'
  <1> DEFINE list == file.fields
             r == RawFieldsRead(list)
  <1>1. /\ pc = "fields" /\ Acquire(r, "methods") /\ PartSet(ctx, ctx', "fields", r.value)
        /\ UNCHANGED <<file, metadata, class, members, idx, dex, protos>>
    BY DEF ReadFields, Section, RawFieldsRead, PartSet
  <1>2. /\ AtReading(exact) /\ Context(ctx) /\ Metadata(metadata) /\ ProtoLists(protos, file)
        /\ class \in 0..Len(file.classes) + 1 /\ members \in Nat /\ idx \in Nat /\ AtFields /\ ProtosNamed
    BY <1>1, SectionFacts DEF SectionSteps
  <1>3. IsList(list)
    BY DEF Valued, FileShape
  <1>4. /\ Pays(r, FreeWhole(r.value, FreeRawField, "raw_fields"), exact)
        /\ IsList(r.value) /\ Len(r.value) = Len(list)
        /\ r.ok => \A i \in 1..Len(list) : RawFieldGood(r.value[i])
    <2>1. IsList(ctx.strs) /\ (\A i \in 1..Len(ctx.strs) : ctx.strs[i] \in Strs) /\ IsList(ctx.types) /\ (\A i \in 1..Len(ctx.types) : ctx.types[i] \in Strs)
      BY <1>2 DEF AtFields, StrsLoaded, TypesLoaded, ProtosLoaded, StrList
    <2> HIDE DEF list
    <2> QED
      BY <1>3, <2>1, RawFieldsPay
  <1> HIDE DEF list, r
  <1>5. "fields" \in CtxParts /\ Context(ctx') /\ ctx'.fields = r.value /\ SameBut(ctx, ctx', "fields")
    <2>1. "fields" \in CtxParts
      BY DEF CtxParts
    <2> QED
      BY <1>1, <1>2, <2>1, ContextSet DEF SameBut
  <1>6. FreeRawFields(ctx') = FreeWhole(r.value, FreeRawField, "raw_fields") /\ FreeRawFields(ctx) = << >>
    <2>1. ctx.fields = NULL
      BY <1>2 DEF AtFields, Unset
    <2> QED
      BY <1>5, <2>1, NullTables DEF FreeRawFields
  <1>7. GrowsBy(FreeRawFields(ctx), FreeRawFields(ctx'), r.took, exact) /\ r.took \in Seq(Tokens)
        /\ FreeRawFields(ctx') \in Seq(Tokens)
    BY <1>4, <1>6, PaidGrows DEF Pays
  <1>8. Parts(ctx', metadata, protos) /\ Owes(Debt(ctx', metadata, protos), held (+) BagOf(r.took), exact)
    BY <1>2, <1>5, <1>7, FieldsChange DEF AtReading
  <1>9. HoldsMore(r.took) /\ pc' = IF r.ok THEN "methods" ELSE "failed"
    BY <1>1 DEF Acquire, HoldsMore
  <1>10. pc' \in Steps \cup MemberLists
    BY <1>9 DEF Steps
  <1>11. Common' /\ AtReading(exact)'
    BY <1>1, <1>2, <1>5, <1>7, <1>8, <1>9, <1>10, SectionCommon DEF SectionSteps
  <1>0. \A part \in CtxParts \ {"fields"} : ctx'[part] = ctx[part]
    BY <1>5 DEF SameBut
  <1>00. ctx'.strs = ctx.strs /\ ctx'.types = ctx.types /\ ctx'.protos = ctx.protos /\ ctx'.methods = ctx.methods /\ ctx'.classes = ctx.classes
    BY <1>0 DEF CtxParts
  <1>12. ProtosNamed'
    BY <1>1, <1>2, <1>00 DEF ProtosNamed, AtFields, Unset
  <1>13. CASE r.ok
    <2>1. FieldsLoaded'
      BY <1>1, <1>4, <1>5, <1>13, RawsGood DEF FieldsLoaded, StrList, list
    <2>2. Unset({"methods", "classes"})'
      BY <1>2, <1>00 DEF AtFields, Unset
    <2>3. AtMethods'
      BY <1>1, <1>2, <1>00, <2>1, <2>2 DEF AtMethods, AtFields, StrsLoaded, TypesLoaded, ProtosLoaded
    <2>4. pc' = "methods" /\ "methods" \in SectionSteps
      BY <1>9, <1>13 DEF SectionSteps
    <2> QED
      BY <1>11, <1>12, <2>3, <2>4, AtSection
  <1>14. CASE ~r.ok
    BY <1>9, <1>11, <1>12, <1>14, AtFailed
  <1> QED
    BY <1>13, <1>14

(* The section of methods.                                                 *)
LEMMA ReadMethodsStep ==
  ASSUME NullApart, NEW exact, IInv(exact), Valued(file), ReadMethods
  PROVE  IInv(exact)'
  <1> DEFINE list == file.methods
             r == RawMethodsRead(list)
  <1>1. /\ pc = "methods" /\ Acquire(r, "classes") /\ PartSet(ctx, ctx', "methods", r.value)
        /\ UNCHANGED <<file, metadata, class, members, idx, dex, protos>>
    BY DEF ReadMethods, Section, RawMethodsRead, PartSet
  <1>2. /\ AtReading(exact) /\ Context(ctx) /\ Metadata(metadata) /\ ProtoLists(protos, file)
        /\ class \in 0..Len(file.classes) + 1 /\ members \in Nat /\ idx \in Nat /\ AtMethods /\ ProtosNamed
    BY <1>1, SectionFacts DEF SectionSteps
  <1>3. IsList(list)
    BY DEF Valued, FileShape
  <1>4. /\ Pays(r, FreeWhole(r.value, FreeRawMethod, "raw_methods"), exact)
        /\ IsList(r.value) /\ Len(r.value) = Len(list)
        /\ r.ok => \A i \in 1..Len(list) : RawMethodGood(r.value[i])
    <2>1. IsList(ctx.strs) /\ (\A i \in 1..Len(ctx.strs) : ctx.strs[i] \in Strs) /\ IsList(ctx.types) /\ (\A i \in 1..Len(ctx.types) : ctx.types[i] \in Strs) /\ IsList(ctx.protos) /\ (\A i \in 1..Len(ctx.protos) : ctx.protos[i] \in Protos)
      BY <1>2 DEF AtMethods, StrsLoaded, TypesLoaded, ProtosLoaded, FieldsLoaded, StrList
    <2> HIDE DEF list
    <2> QED
      BY <1>3, <2>1, RawMethodsPay
  <1> HIDE DEF list, r
  <1>5. "methods" \in CtxParts /\ Context(ctx') /\ ctx'.methods = r.value /\ SameBut(ctx, ctx', "methods")
    <2>1. "methods" \in CtxParts
      BY DEF CtxParts
    <2> QED
      BY <1>1, <1>2, <2>1, ContextSet DEF SameBut
  <1>6. FreeRawMethods(ctx') = FreeWhole(r.value, FreeRawMethod, "raw_methods") /\ FreeRawMethods(ctx) = << >>
    <2>1. ctx.methods = NULL
      BY <1>2 DEF AtMethods, Unset
    <2> QED
      BY <1>5, <2>1, NullTables DEF FreeRawMethods
  <1>7. GrowsBy(FreeRawMethods(ctx), FreeRawMethods(ctx'), r.took, exact) /\ r.took \in Seq(Tokens)
        /\ FreeRawMethods(ctx') \in Seq(Tokens)
    BY <1>4, <1>6, PaidGrows DEF Pays
  <1>8. Parts(ctx', metadata, protos) /\ Owes(Debt(ctx', metadata, protos), held (+) BagOf(r.took), exact)
    BY <1>2, <1>5, <1>7, MethodsChange DEF AtReading
  <1>9. HoldsMore(r.took) /\ pc' = IF r.ok THEN "classes" ELSE "failed"
    BY <1>1 DEF Acquire, HoldsMore
  <1>10. pc' \in Steps \cup MemberLists
    BY <1>9 DEF Steps
  <1>11. Common' /\ AtReading(exact)'
    BY <1>1, <1>2, <1>5, <1>7, <1>8, <1>9, <1>10, SectionCommon DEF SectionSteps
  <1>0. \A part \in CtxParts \ {"methods"} : ctx'[part] = ctx[part]
    BY <1>5 DEF SameBut
  <1>00. ctx'.strs = ctx.strs /\ ctx'.types = ctx.types /\ ctx'.protos = ctx.protos /\ ctx'.fields = ctx.fields /\ ctx'.classes = ctx.classes
    BY <1>0 DEF CtxParts
  <1>12. ProtosNamed'
    BY <1>1, <1>2, <1>00 DEF ProtosNamed, AtMethods, Unset
  <1>13. CASE r.ok
    <2>1. MethodsLoaded'
      BY <1>1, <1>4, <1>5, <1>13, RawsGood DEF MethodsLoaded, StrList, list
    <2>2. Unset({"classes"})'
      BY <1>2, <1>00 DEF AtMethods, Unset
    <2>3. AtClasses'
      BY <1>1, <1>2, <1>00, <2>1, <2>2 DEF AtClasses, AtMethods, StrsLoaded, TypesLoaded, ProtosLoaded, FieldsLoaded
    <2>4. pc' = "classes" /\ "classes" \in SectionSteps
      BY <1>9, <1>13 DEF SectionSteps
    <2> QED
      BY <1>11, <1>12, <2>3, <2>4, AtSection
  <1>14. CASE ~r.ok
    BY <1>9, <1>11, <1>12, <1>14, AtFailed
  <1> QED
    BY <1>13, <1>14

(* The references and the lists of the prototypes that were read.          *)
LEMMA ListsShape ==
  ASSUME NEW v, IsList(v), \A i \in 1..Len(v) : ContentList(v[i].list) /\ ProtoNamed(v[i], i)
  PROVE  /\ IsList(RefsOf(v)) /\ Len(RefsOf(v)) = Len(v)
         /\ IsList(ListsOf(v)) /\ Len(ListsOf(v)) = Len(v)
         /\ \A i \in 1..Len(v) : RefsOf(v)[i] = v[i].ref /\ ListsOf(v)[i] = v[i].list
         /\ \A i \in 1..Len(v) : ListsOf(v)[i] # << >> => RefsOf(v)[i] = Proto(i)
  <1>1. DOMAIN v = 1..Len(v) /\ Len(v) \in Nat
    BY ListFacts
  <1>2. /\ IsList(RefsOf(v)) /\ Len(RefsOf(v)) = Len(v)
        /\ IsList(ListsOf(v)) /\ Len(ListsOf(v)) = Len(v)
    BY <1>1, ListOf, ListFacts DEF RefsOf, ListsOf
  <1>3. \A i \in 1..Len(v) : RefsOf(v)[i] = v[i].ref /\ ListsOf(v)[i] = v[i].list
    BY <1>1 DEF RefsOf, ListsOf
  <1> QED
    BY <1>2, <1>3 DEF ProtoNamed

(* No prototype holds nothing.                                             *)
LEMMA NoContents == ContentsOf(<< >>, DOMAIN << >>) = << >>
  <1> DEFINE tt == [i \in DOMAIN << >> |-> IF i \in DOMAIN << >> THEN FreeList(<< >>[i]) ELSE << >>]
  <1>1. tt = << >>
    OBVIOUS
  <1>2. ContentsOf(<< >>, DOMAIN << >>) = FlattenSeq(tt)
    BY DEF ContentsOf
  <1> HIDE DEF tt
  <1> QED
    BY <1>1, <1>2 DEF FlattenSeq

(* The prototypes enter the context.                                       *)
LEMMA ProtosEntered ==
  ASSUME NullApart, NEW exact, NEW v, IsList(v), \A i \in 1..Len(v) : ContentList(v[i].list) /\ ProtoNamed(v[i], i),
         NEW took, Paid(took, FreeEntries(v), exact),
         NEW c, FreeProtos(c) = << >>, NEW prs, prs = << >>, NEW d, d.protos = RefsOf(v)
  PROVE  /\ FreeProtos(d) \in Seq(Tokens) /\ ContentsOf(ListsOf(v), DOMAIN ListsOf(v)) \in Seq(Tokens)
         /\ took \in Seq(Tokens) /\ ProtosGrow(c, d, prs, ListsOf(v), took, exact)
  <1> DEFINE ls == ListsOf(v)
  <1>1. took \in Seq(Tokens) /\ FreeEntries(v) \in Seq(Tokens)
    BY DEF Paid
  <1>2. FreeProtos(d) = FreeWhole(RefsOf(v), FreeRef, "protos")
    BY DEF FreeProtos
  <1>3. /\ FreeProtos(d) \in Seq(Tokens) /\ ContentsOf(ls, DOMAIN ls) \in Seq(Tokens)
        /\ \A x : Occurrences(FreeEntries(v), x) = Occurrences(FreeProtos(d), x) + Occurrences(ContentsOf(ls, DOMAIN ls), x)
    BY <1>1, <1>2, EntriesSplit
  <1>4. ContentsOf(prs, DOMAIN prs) = << >>
    BY NoContents
  <1> HIDE DEF ls
  <1>5. ASSUME NEW x
        PROVE  /\ Occurrences(FreeProtos(d), x) + Occurrences(ContentsOf(ls, DOMAIN ls), x)
                    <= (Occurrences(FreeProtos(c), x) + Occurrences(ContentsOf(prs, DOMAIN prs), x)) + Occurrences(took, x)
               /\ exact => Occurrences(FreeProtos(d), x) + Occurrences(ContentsOf(ls, DOMAIN ls), x)
                    = (Occurrences(FreeProtos(c), x) + Occurrences(ContentsOf(prs, DOMAIN prs), x)) + Occurrences(took, x)
    <2> DEFINE a == Occurrences(FreeProtos(d), x)
               b == Occurrences(ContentsOf(ls, DOMAIN ls), x)
               e == Occurrences(FreeEntries(v), x)
               t == Occurrences(took, x)
    <2>1. a \in Nat /\ b \in Nat /\ e \in Nat /\ t \in Nat
      BY <1>1, <1>3, OccNat
    <2>2. Occurrences(FreeProtos(c), x) = 0 /\ Occurrences(ContentsOf(prs, DOMAIN prs), x) = 0
      BY <1>4, OccEmpty
    <2>3. e = a + b /\ e <= t /\ (exact => e = t)
      BY <1>3 DEF Paid
    <2> HIDE DEF a, b, e, t
    <2>4. a + b <= (0 + 0) + t /\ (exact => a + b = (0 + 0) + t)
      BY <2>1, <2>3
    <2> QED
      BY <2>2, <2>4 DEF a, b, t
  <1> QED
    BY <1>1, <1>3, <1>5 DEF ProtosGrow, ls

(* The section of prototypes.                                              *)
LEMMA ReadProtosStep ==
  ASSUME NullApart, NEW exact, IInv(exact), Valued(file), exact => Clean(file), ReadProtos
  PROVE  IInv(exact)'
  <1> DEFINE list == file.protos
             r == ProtosRead(ctx.types, list)
  <1>1. /\ pc = "protos" /\ Acquire(r, "fields") /\ PartSet(ctx, ctx', "protos", RefsOf(r.value))
        /\ protos' = ListsOf(r.value) /\ UNCHANGED <<file, metadata, class, members, idx, dex>>
    <2>1. \A i : ReadProto(i) = ProtoRead(ctx.types, list[i], i)
      BY DEF ReadProto, ProtoRead, ProtoList, ParameterRead
    <2>2. [i \in DOMAIN list |-> ReadProto(i)] = [i \in DOMAIN list |-> ProtoRead(ctx.types, list[i], i)]
      BY <2>1
    <2>3. r = ReadArray([i \in DOMAIN file.protos |-> ReadProto(i)], [ref |-> NULL, list |-> << >>], "protos")
      BY <2>2 DEF ProtosRead
    <2> HIDE DEF list, r
    <2> QED
      BY <2>3 DEF ReadProtos, Section, PartSet, RefsOf, ListsOf
  <1>2. /\ AtReading(exact) /\ Context(ctx) /\ Metadata(metadata)
        /\ class \in 0..Len(file.classes) + 1 /\ members \in Nat /\ idx \in Nat /\ AtProtos
    BY <1>1, SectionFacts DEF SectionSteps
  <1>3. IsList(list) /\ \A i \in 1..Len(list) : list[i].parameters # NULL => IsList(list[i].parameters)
    BY DEF Valued, FileShape
  <1>4. exact => \A i \in 1..Len(list) : ParametersClean(Len(ctx.types), list[i].parameters)
    BY <1>2 DEF Clean, FileClean, AtProtos, TypesLoaded
  <1>5. /\ Pays(r, FreeEntries(r.value), exact)
        /\ IsList(r.value) /\ Len(r.value) = Len(list)
        /\ \A i \in 1..Len(list) : ContentList(r.value[i].list) /\ ProtoNamed(r.value[i], i)
        /\ r.ok => \A i \in 1..Len(list) : r.value[i].ref = Proto(i)
    <2>1. RefList(ctx.types) /\ \A i \in 1..Len(ctx.types) : ctx.types[i] \in Strs
      BY <1>2, RefTokens DEF AtProtos, TypesLoaded, StrList, RefList
    <2> HIDE DEF list
    <2> QED
      BY <1>3, <1>4, <2>1, ProtoEntriesPay
  <1> HIDE DEF list, r
  <1> DEFINE v == r.value
             refs == RefsOf(v)
             lists == ListsOf(v)
  <1>6. \A i \in 1..Len(v) : ContentList(v[i].list) /\ ProtoNamed(v[i], i)
    BY <1>5
  <1>7. /\ IsList(refs) /\ Len(refs) = Len(list) /\ IsList(lists) /\ Len(lists) = Len(list)
        /\ \A i \in 1..Len(list) : refs[i] = v[i].ref /\ lists[i] = v[i].list
        /\ \A i \in 1..Len(list) : lists[i] # << >> => refs[i] = Proto(i)
    BY <1>5, <1>6, ListsShape
  <1>22. \A i \in 1..Len(list) : refs[i] \in Protos \cup {NULL}
    <2>1. ASSUME NEW i \in 1..Len(list) PROVE refs[i] \in Protos \cup {NULL}
      <3>1. refs[i] = v[i].ref /\ (v[i].ref = Proto(i) \/ v[i].ref = NULL)
        BY <1>5, <1>7 DEF ProtoNamed, v
      <3>2. i \in Nat
        OBVIOUS
      <3> QED
        BY <3>1, <3>2 DEF Protos
    <2> QED
      BY <2>1
  <1>8. "protos" \in CtxParts /\ Context(ctx') /\ ctx'.protos = refs /\ SameBut(ctx, ctx', "protos")
    <2>1. "protos" \in CtxParts
      BY DEF CtxParts
    <2> QED
      BY <1>1, <1>2, <2>1, ContextSet DEF SameBut
  <1>9. FreeProtos(ctx) = << >> /\ protos = << >>
    BY <1>2, NullTables DEF AtProtos, Unset
  <1>10. /\ FreeProtos(ctx') \in Seq(Tokens) /\ ContentsOf(lists, DOMAIN lists) \in Seq(Tokens)
         /\ r.took \in Seq(Tokens) /\ ProtosGrow(ctx, ctx', protos, lists, r.took, exact)
    <2>1. Paid(r.took, FreeEntries(v), exact)
      BY <1>5 DEF Pays
    <2>2. IsList(v)
      BY <1>5
    <2>3. ctx'.protos = RefsOf(v)
      BY <1>8
    <2> HIDE DEF v
    <2> QED
      BY <1>6, <1>9, <2>1, <2>2, <2>3, ProtosEntered
  <1> HIDE DEF lists, refs, v
  <1>11. Parts(ctx', metadata, lists) /\ Owes(Debt(ctx', metadata, lists), held (+) BagOf(r.took), exact)
    BY <1>2, <1>8, <1>10, ProtosChange DEF AtReading
  <1>12. HoldsMore(r.took) /\ pc' = IF r.ok THEN "fields" ELSE "failed"
    BY <1>1 DEF Acquire, HoldsMore
  <1>13. pc' \in Steps \cup MemberLists
    BY <1>12 DEF Steps
  <1>14. protos' = lists
    BY <1>1 DEF lists, v
  <1>15. ProtoLists(lists, file)
    <2>1. Len(list) \in Nat /\ Len(lists) <= Len(file.protos)
      BY <1>3, <1>7 DEF IsList, list
    <2>2. \A p \in 1..Len(lists) : ContentList(lists[p])
      BY <1>5, <1>7 DEF v
    <2> QED
      BY <1>7, <2>1, <2>2 DEF ProtoLists
  <1>16. Common' /\ AtReading(exact)'
    BY <1>1, <1>2, <1>8, <1>10, <1>11, <1>12, <1>13, <1>14, <1>15, SectionCommon DEF SectionSteps
  <1>17. ProtosNamed'
    BY <1>7, <1>8, <1>14, <1>22 DEF ProtosNamed
  <1>18. \A part \in CtxParts \ {"protos"} : ctx'[part] = ctx[part]
    BY <1>8 DEF SameBut
  <1>19. /\ ctx'.strs = ctx.strs /\ ctx'.types = ctx.types /\ ctx'.fields = ctx.fields
         /\ ctx'.methods = ctx.methods /\ ctx'.classes = ctx.classes
    BY <1>18 DEF CtxParts
  <1>20. CASE r.ok
    <2>1. ProtosLoaded'
      <3>1. \A i \in 1..Len(list) : refs[i] = Proto(i) /\ i \in Nat
        BY <1>5, <1>7, <1>20 DEF v
      <3>2. \A i \in Nat : Proto(i) \in Protos
        BY DEF Protos
      <3> QED
        BY <1>1, <1>7, <1>8, <3>1, <3>2 DEF ProtosLoaded, list
    <2>2. Unset({"fields", "methods", "classes"})'
      BY <1>2, <1>19 DEF AtProtos, Unset
    <2>3. AtFields'
      BY <1>1, <1>2, <1>19, <2>1, <2>2 DEF AtFields, AtProtos, StrsLoaded, TypesLoaded
    <2>4. pc' = "fields" /\ "fields" \in SectionSteps
      BY <1>12, <1>20 DEF SectionSteps
    <2> QED
      BY <1>16, <1>17, <2>3, <2>4, AtSection
  <1>21. CASE ~r.ok
    BY <1>12, <1>16, <1>17, <1>21, AtFailed
  <1> QED
    BY <1>20, <1>21

(* When the fifth section is read, all are loaded, and no slot has a list. *)
LEMMA SectionsLoaded ==
  ASSUME StrsLoaded, TypesLoaded, ProtosLoaded, FieldsLoaded, MethodsLoaded,
         NEW d, SameBut(ctx, d, "classes")
  PROVE  Loaded(d, file) /\ \A n : SlotsNamed(d, file, n)
  <1>1. \A part \in CtxParts \ {"classes"} : d[part] = ctx[part]
    BY DEF SameBut
  <1>2. /\ d.strs = ctx.strs /\ d.types = ctx.types /\ d.protos = ctx.protos
        /\ d.fields = ctx.fields /\ d.methods = ctx.methods
    BY <1>1 DEF CtxParts
  <1>3. Loaded(d, file)
    BY <1>2 DEF StrsLoaded, TypesLoaded, ProtosLoaded, FieldsLoaded, MethodsLoaded, Loaded
  <1>4. \A n : SlotsNamed(d, file, n)
    BY <1>2 DEF FieldsLoaded, MethodsLoaded, SlotsNamed
  <1> QED
    BY <1>3, <1>4

(* The array of classes begins as zeros.                                   *)
LEMMA AllocClassesStep ==
  ASSUME NullApart, NEW exact, IInv(exact), Valued(file), AllocClasses
  PROVE  IInv(exact)'
  <1> DEFINE n == Len(file.classes)
             z == [i \in 1..n |-> ZeroClass]
             took == <<Block("classes")>>
  <1>1. IsList(file.classes) /\ n \in Nat /\ DOMAIN file.classes = 1..n
    <2>1. IsList(file.classes)
      BY DEF Valued, FileShape
    <2> QED
      BY <2>1, ListFacts
  <1>2. /\ pc = "classes" /\ PartSet(ctx, ctx', "classes", z) /\ class' = 1
        /\ Acquire(Done(NULL, took), NextClass(0))
        /\ UNCHANGED <<file, protos, metadata, members, idx, dex>>
    BY <1>1 DEF AllocClasses, PartSet
  <1>3. /\ AtReading(exact) /\ Context(ctx) /\ Metadata(metadata) /\ ProtoLists(protos, file)
        /\ members \in Nat /\ idx \in Nat /\ AtClasses /\ ProtosNamed
    BY <1>2, SectionFacts DEF SectionSteps
  <1>4. Filled(z, n, ZeroClass)
    BY <1>1, FilledFun
  <1> HIDE DEF z, n
  <1>5. /\ IsList(z) /\ Len(z) = n /\ FreeClassArray(z) \in Seq(Tokens)
        /\ \A x : Occurrences(FreeClassArray(z), x) = Occurrences(took, x)
    BY <1>1, <1>4, ClassesOpen
  <1>6. took \in Seq(Tokens)
    <2>1. "classes" \in Kinds
      BY DEF Kinds
    <2> QED
      BY <2>1, BlockToken
  <1> HIDE DEF took
  <1>7. Paid(took, FreeClassArray(z), exact)
    <2>1. ASSUME NEW x PROVE Occurrences(FreeClassArray(z), x) <= Occurrences(took, x)
      <3>1. Occurrences(FreeClassArray(z), x) = Occurrences(took, x) /\ Occurrences(took, x) \in Nat
        BY <1>5, <1>6, OccNat
      <3> QED
        BY <3>1
    <2> QED
      BY <1>5, <1>6, <2>1 DEF Paid
  <1>8. "classes" \in CtxParts /\ Context(ctx') /\ ctx'.classes = z /\ SameBut(ctx, ctx', "classes")
    <2>1. "classes" \in CtxParts
      BY DEF CtxParts
    <2> QED
      BY <1>2, <1>3, <2>1, ContextSet DEF SameBut
  <1>9. FreeClasses(ctx') = FreeClassArray(z) /\ FreeClasses(ctx) = << >>
    <2>1. ctx.classes = NULL
      BY <1>3 DEF AtClasses, Unset
    <2> QED
      BY <1>8, <2>1, NullTables DEF FreeClasses, FreeClassArray
  <1>10. GrowsBy(FreeClasses(ctx), FreeClasses(ctx'), took, exact) /\ FreeClasses(ctx') \in Seq(Tokens)
    BY <1>7, <1>9, PaidGrows
  <1>11. Parts(ctx', metadata, protos) /\ Owes(Debt(ctx', metadata, protos), held (+) BagOf(took), exact)
    BY <1>3, <1>6, <1>8, <1>10, ClassTableChange DEF AtReading
  <1>12. HoldsMore(took) /\ pc' = NextClass(0)
    <2>1. Done(NULL, took).took = took /\ Done(NULL, took).ok
      BY DEF Done, Result
    <2> QED
      BY <1>2, <2>1 DEF Acquire, HoldsMore
  <1>13. pc' = IF 0 < n THEN "class" ELSE "move"
    BY <1>12 DEF NextClass, n
  <1>14. pc' \in Steps \cup MemberLists
    BY <1>13 DEF Steps
  <1>15. class' \in 0..Len(file.classes) + 1
    BY <1>1, <1>2 DEF n
  <1>16. Common' /\ AtReading(exact)'
    BY <1>2, <1>3, <1>6, <1>8, <1>11, <1>12, <1>14, <1>15, SectionCommon DEF SectionSteps
  <1>17. ctx'.protos = ctx.protos
    BY <1>8 DEF SameBut, CtxParts
  <1>18. ProtosNamed'
    BY <1>2, <1>3, <1>17 DEF ProtosNamed
  <1>19. Loaded(ctx', file) /\ \A k : SlotsNamed(ctx', file, k)
    BY <1>3, <1>8, SectionsLoaded DEF AtClasses
  <1>20. \A i \in 1..n : ctx'.classes[i] = ZeroClass
    BY <1>4, <1>8 DEF Filled
  <1>21. ClassesRead(ctx'.classes, 1, n)
    <2>1. ClassParts(ZeroClass)
      BY ZeroClassFree
    <2>2. \A i \in 1..n : ~(i < 1)
      BY <1>1
    <2> QED
      BY <1>5, <1>8, <1>20, <2>1, <2>2 DEF ClassesRead
  <1>22. CASE 0 < n
    <2>1. pc' = "class" /\ class' \in 1..n
      BY <1>1, <1>2, <1>13, <1>22
    <2>2. This' = ZeroClass
      BY <1>20, <2>1 DEF This
    <2>3. Unread("class") = {}
      BY DEF Unread
    <2>4. AtClass(exact)'
      BY <1>2, <1>19, <1>21, <2>1, <2>2, <2>3 DEF AtClass, n
    <2>5. "class" \in ClassSteps /\ "class" \notin MemberLists
      BY DEF ClassSteps, MemberLists
    <2> QED
      BY <1>16, <1>18, <2>1, <2>4, <2>5, AtClassStep
  <1>23. CASE ~(0 < n)
    <2>1. pc' = "move" /\ n = 0
      BY <1>1, <1>13, <1>23
    <2>2. AtMove'
      BY <1>2, <1>19, <1>21, <2>1 DEF AtMove, n
    <2> QED
      BY <1>16, <1>18, <2>1, <2>2, AtMoveStep
  <1> QED
    BY <1>22, <1>23

(* The dependencies of an odex file.                                       *)
FreeRefArray(v, kind) == FreeArray(v, LAMBDA r : r = NULL, FreeRef, kind)

(* The dependencies of an odex file, as reads in order.                    *)
DepRead(dep, kind) == IF dep = NULL THEN Failed(NULL) ELSE Done(Block(kind), <<Block(kind)>>)
DepTable(list, kind, table) == ReadArray([i \in DOMAIN list |-> DepRead(list[i], kind)], NULL, table)

(* A table of the dependencies pays.                                       *)
LEMMA DepTablePays ==
  ASSUME NullApart, NEW exact, NEW list, IsList(list), NEW kind \in Kinds, NEW table \in Kinds,
         NEW r, r = DepTable(list, kind, table)
  PROVE  Pays(r, FreeRefArray(r.value, table), exact)
  <1> DEFINE reads == [i \in DOMAIN list |-> DepRead(list[i], kind)]
             v == ReadArray(reads, NULL, table).value
             ends == {i \in DOMAIN v : v[i] = NULL}
  <1>1. IsList(reads) /\ Len(reads) = Len(list) /\ DOMAIN list = 1..Len(list)
    BY ListFacts, ListOf
  <1>2. ASSUME NEW i \in 1..Len(reads)
        PROVE  Pays(reads[i], FreeRef(reads[i].value), exact) /\ (reads[i].value = NULL => ~reads[i].ok)
    <2>1. reads[i] = DepRead(list[i], kind)
      BY <1>1
    <2> HIDE DEF reads
    <2>2. CASE list[i] = NULL
      <3>1. reads[i] = Failed(NULL)
        BY <2>1, <2>2 DEF DepRead
      <3>2. Pays(Failed(NULL), << >>, exact) /\ Failed(NULL).value = NULL /\ Failed(NULL).ok = FALSE
        BY FailedPays
      <3> QED
        BY <3>1, <3>2, FreeRefFacts
    <2>3. CASE list[i] # NULL
      <3> DEFINE t == Block(kind)
      <3>1. reads[i] = Done(t, <<t>>)
        BY <2>1, <2>3 DEF DepRead
      <3>2. t \in Tokens
        BY BlockToken
      <3> HIDE DEF t
      <3>3. t # NULL /\ FreeRef(t) = <<t>> /\ <<t>> \in Seq(Tokens)
        BY <3>2, NotNull, FreeRefFacts
      <3>4. Pays(Done(t, <<t>>), <<t>>, exact) /\ Done(t, <<t>>).value = t
        BY <3>3, DonePays
      <3> QED
        BY <3>1, <3>3, <3>4
    <2> QED
      BY <2>2, <2>3
  <1>3. r = ReadArray(reads, NULL, table)
    BY DEF DepTable
  <1> HIDE DEF reads
  <1>4. ends \in SUBSET DOMAIN v /\ \A e \in ends : v[e] = NULL
    OBVIOUS
  <1>5. v # NULL => FreeRefArray(v, table)
          = FlattenSeq(UpTo([i \in DOMAIN v |-> FreeRef(v[i])], ends)) \o <<Block(table)>>
    BY DEF FreeRefArray, FreeArray
  <1> HIDE DEF ends
  <1>6. /\ Pays(ReadArray(reads, NULL, table),
                FlattenSeq(UpTo([i \in DOMAIN v |-> FreeRef(v[i])], ends)) \o <<Block(table)>>, exact)
        /\ v # NULL
    <2> DEFINE z == v
    <2>1. z = ReadArray(reads, NULL, table).value
      OBVIOUS
    <2>2. ends \in SUBSET DOMAIN z /\ \A e \in ends : z[e] = NULL
      BY <1>4
    <2> HIDE DEF z
    <2> DEFINE tt == [i \in DOMAIN z |-> FreeRef(z[i])]
    <2>3. IsList(z) /\ Len(z) = Len(reads) /\ DOMAIN z = 1..Len(reads)
      BY <1>1, <2>1, ReadArrayFacts, ListFacts
    <2>4. IsList(tt) /\ Len(tt) = Len(reads) /\ \A i \in 1..Len(reads) : tt[i] = FreeRef(z[i])
      BY <2>3, ListOf, ListFacts
    <2> HIDE DEF tt
    <2>5. Pays(ReadArray(reads, NULL, table), FlattenSeq(UpTo(tt, ends)) \o <<Block(table)>>, exact)
      BY <1>1, <1>2, <2>1, <2>2, <2>4, RefsPay
    <2>6. z # NULL
      BY <2>3, NotNull
    <2> QED
      BY <2>5, <2>6 DEF z, tt
  <1> QED
    BY <1>3, <1>5, <1>6

(* What the dependencies own.                                              *)
FreeDeps(deps) == FreeRefArray(deps[2], "dep_shas") \o FreeRefArray(deps[1], "strstr")
(* The dependencies pay with their two tables.                             *)
LEMMA DepsPay ==
  ASSUME NullApart, NEW exact, NEW list, list # NULL => IsList(list), NEW r, r = ReadDepsTable(list)
  PROVE  Pays(r, FreeDeps(r.value), exact)
  <1>1. CASE list = NULL
    <2> DEFINE none == <<NULL, NULL>>
    <2>0. none[1] = NULL /\ none[2] = NULL
      OBVIOUS
    <2>1. r = Failed(none)
      BY <1>1 DEF ReadDepsTable
    <2> HIDE DEF none
    <2>2. r.value[1] = NULL /\ r.value[2] = NULL
      BY <2>0, <2>1, FailedPays
    <2>3. FreeDeps(r.value) = << >> \o << >>
      BY <2>2 DEF FreeDeps, FreeRefArray, FreeArray
    <2>4. << >> \o << >> = << >>
      OBVIOUS
    <2> QED
      BY <2>1, <2>3, <2>4, FailedPays
  <1>2. CASE list # NULL
    <2> DEFINE s == DepTable(list, "dep", "strstr")
               h == DepTable(list, "sha", "dep_shas")
    <2>1. r = Result(<<s.value, h.value>>, s.ok, s.took \o h.took)
      BY <1>2 DEF ReadDepsTable, DepReads, ShaReads, DepTable, DepRead
    <2>2. {"dep", "sha", "strstr", "dep_shas"} \subseteq Kinds
      BY DEF Kinds
    <2> HIDE DEF s, h
    <2>3. Pays(s, FreeRefArray(s.value, "strstr"), exact)
      BY <1>2, <2>2, DepTablePays DEF s
    <2>4. Pays(h, FreeRefArray(h.value, "dep_shas"), exact)
      BY <1>2, <2>2, DepTablePays DEF h
    <2> DEFINE fs == FreeRefArray(s.value, "strstr")
               fh == FreeRefArray(h.value, "dep_shas")
    <2>5. r.value[1] = s.value /\ r.value[2] = h.value
      <3> DEFINE w == <<s.value, h.value>>
      <3>1. w[1] = s.value /\ w[2] = h.value
        OBVIOUS
      <3>2. r.value = w
        BY <2>1, ResultFields
      <3> QED
        BY <3>1, <3>2
    <2>6. FreeDeps(r.value) = fh \o fs
      BY <2>5 DEF FreeDeps
    <2> HIDE DEF fs, fh
    <2>7. Paid(s.took, fs, exact) /\ Paid(h.took, fh, exact) /\ s.ok \in BOOLEAN
      BY <2>3, <2>4 DEF Pays, IsResult, fs, fh
    <2>8. s.took \in Seq(Tokens) /\ h.took \in Seq(Tokens) /\ fs \in Seq(Tokens) /\ fh \in Seq(Tokens)
      BY <2>7 DEF Paid
    <2>9. Paid(s.took \o h.took, fh \o fs, exact)
      BY <2>7, PaidTurn
    <2> QED
      BY <2>1, <2>6, <2>7, <2>9, ResultPays
  <1> QED
    BY <1>1, <1>2

(* The checks of the odex header; data is what they leave in it.           *)
NoDeps == <<NULL, NULL>>
OdexDeps(deps) == IF deps = << >> THEN Done(NoDeps, << >>) ELSE ReadDepsTable(deps[1])
OdexRead(o) ==
  InOrder(<<Result(NULL, o.header, << >>), OdexDeps(o.deps), Result(NULL, o.aux, << >>)>>, NoDeps)

(* Dependencies that were not read hold nothing.                           *)
LEMMA FreeNoDeps == FreeDeps(NoDeps) = << >>
  <1>1. NoDeps[1] = NULL /\ NoDeps[2] = NULL
    BY DEF NoDeps
  <1>2. FreeDeps(NoDeps) = << >> \o << >>
    BY <1>1 DEF FreeDeps, FreeRefArray, FreeArray
  <1>3. << >> \o << >> = << >>
    OBVIOUS
  <1> QED
    BY <1>2, <1>3

(* The dependencies, which may be missing, pay.                            *)
LEMMA OdexDepsPay ==
  ASSUME NullApart, NEW exact, NEW deps, deps # << >> => (deps[1] # NULL => IsList(deps[1])),
         NEW r, r = OdexDeps(deps)
  PROVE  Pays(r, FreeDeps(r.value), exact)
  <1>1. CASE deps = << >>
    <2> DEFINE none == << >>
    <2>1. r = Done(NoDeps, none)
      BY <1>1 DEF OdexDeps
    <2>2. none \in Seq(Tokens) /\ FreeDeps(NoDeps) = none
      BY NoTokens, FreeNoDeps
    <2> HIDE DEF none
    <2>3. Pays(Done(NoDeps, none), none, exact) /\ Done(NoDeps, none).value = NoDeps
      BY <2>2, DonePays
    <2> QED
      BY <2>1, <2>2, <2>3
  <1>2. CASE deps # << >>
    <2>1. r = ReadDepsTable(deps[1])
      BY <1>2 DEF OdexDeps
    <2> QED
      BY <1>2, <2>1, DepsPay
  <1> QED
    BY <1>1, <1>2

(* The checks of the odex header with the dependencies between them pay.   *)
LEMMA OdexReadPays ==
  ASSUME NullApart, NEW exact, NEW o, o.header \in BOOLEAN, o.aux \in BOOLEAN,
         o.deps # << >> => (o.deps[1] # NULL => IsList(o.deps[1])),
         NEW r, r = OdexRead(o)
  PROVE  IsResult(r) /\ Paid(r.took, FreeDeps(r.value[2]), exact)
  <1> DEFINE h == Result(NULL, o.header, << >>)
             q == OdexDeps(o.deps)
             a == Result(NULL, o.aux, << >>)
  <1>1. Pays(q, FreeDeps(q.value), exact)
    BY OdexDepsPay
  <1>2. h.ok = o.header /\ h.took = << >> /\ a.ok = o.aux /\ a.took = << >> /\ h.value = NULL /\ a.value = NULL
    BY ResultFields
  <1>3. r = InOrder(<<h, q, a>>, NoDeps)
    BY DEF OdexRead
  <1>4. IsResult(q) /\ Paid(q.took, FreeDeps(q.value), exact) /\ q.took \in Seq(Tokens)
    BY <1>1 DEF Pays, Paid
  <1>5. IsResult(h) /\ IsResult(a)
    BY <1>2, NoTokens DEF IsResult
  <1> HIDE DEF h, q, a
  <1>6. IsResult(r)
    BY <1>3, <1>4, <1>5, InOrderThree
  <1>7. r.value[2] = IF h.ok THEN q.value ELSE NoDeps
    BY <1>3, <1>4, <1>5, InOrderThree
  <1>8. r.took = IF ~h.ok THEN h.took ELSE IF ~q.ok THEN h.took \o q.took
                                          ELSE (h.took \o q.took) \o a.took
    BY <1>3, <1>4, <1>5, InOrderThree
  <1>9. << >> \o q.took = q.took /\ q.took \o << >> = q.took
    BY <1>4
  <1>10. r.took = IF h.ok THEN q.took ELSE << >>
    BY <1>2, <1>8, <1>9
  <1> QED
    BY <1>4, <1>6, <1>7, <1>10, FreeNoDeps, NoTokens

(* The metadata made of the dependencies and the id.                       *)
OdexData(data, deps, id) == data = [deps |-> deps[1], dep_shas |-> deps[2], id |-> id]
(* dxc_free_odex_data releases what was acquired for the metadata.         *)
LEMMA OdexDataFree ==
  ASSUME NullApart, NEW exact, NEW deps, NEW took, Paid(took, FreeDeps(deps), exact),
         NEW data, OdexData(data, deps, NULL)
  PROVE  /\ Paid(<<Block("odex")>> \o took, FreeOdexData(data), exact)
         /\ Metadata(data) /\ data.id = NULL
  <1> DEFINE b == <<Block("odex")>>
  <1>1. data.deps = deps[1] /\ data.dep_shas = deps[2] /\ data.id = NULL
    BY DEF OdexData
  <1>3. b \in Seq(Tokens)
    <2>1. "odex" \in Kinds
      BY DEF Kinds
    <2> QED
      BY <2>1, BlockToken
  <1>2. MetadataDeps(data) = FreeDeps(deps)
    BY <1>1 DEF MetadataDeps, FreeDeps, FreeRefArray, FreeStrstr
  <1>0. data # NULL
    <2>1. data = [x \in DOMAIN data |-> data[x]]
      BY DEF OdexData
    <2> QED
      BY <2>1 DEF NullApart
  <1>4. FreeOdexData(data) = (FreeDeps(deps) \o << >>) \o b
    <2>1. FreeRef(data.id) = << >>
      BY <1>1, FreeRefFacts
    <2>2. FreeOdexData(data) = FreeRefArray(data.dep_shas, "dep_shas") \o FreeRefArray(data.deps, "strstr")
                                 \o FreeRef(data.id) \o b
      BY <1>0 DEF FreeOdexData, FreeRefArray, FreeStrstr
    <2> QED
      BY <1>1, <2>1, <2>2 DEF FreeDeps
  <1>5. FreeDeps(deps) \in Seq(Tokens)
    BY DEF Paid
  <1>6. FreeDeps(deps) \o << >> = FreeDeps(deps)
    BY <1>5
  <1>9. Metadata(data)
    BY <1>1, <1>2, <1>5 DEF Metadata, OdexData
  <1>7. Paid(b, b, exact)
    BY <1>3, PaidSame
  <1>8. Paid(b \o took, FreeDeps(deps) \o b, exact)
    <2> DEFINE fd == FreeDeps(deps)
    <2> HIDE DEF b, fd
    <2>1. Paid(took, fd, exact)
      BY DEF fd
    <2>2. Paid(b \o took, fd \o b, exact)
      BY <1>7, <2>1, PaidTurn
    <2> QED
      BY <2>2 DEF fd
  <1> QED
    BY <1>1, <1>4, <1>6, <1>8, <1>9

(* The odex header.                                                        *)
LEMMA ReadOdexHeaderStep ==
  ASSUME NullApart, NEW exact, IInv(exact), Valued(file), ReadOdexHeader
  PROVE  IInv(exact)'
  <1> DEFINE o == file.odex[1]
             r == OdexRead(o)
             b == <<Block("odex")>>
             s == After(b, r)
  <1>1. /\ pc = "odex" /\ file.odex # << >> /\ Acquire(s, "header")
        /\ metadata' = [ZeroOdex EXCEPT !.deps = r.value[2][1], !.dep_shas = r.value[2][2]]
        /\ UNCHANGED <<file, ctx, protos, class, members, idx, dex>>
    BY DEF ReadOdexHeader, OdexRead, OdexDeps, NoDeps, After
  <1>2. /\ AtReading(exact) /\ Context(ctx) /\ ProtoLists(protos, file) /\ Empty /\ metadata = NULL
        /\ class \in 0..Len(file.classes) + 1 /\ members \in Nat /\ idx \in Nat /\ ProtosNamed
    BY <1>1, SectionFacts
  <1>3. o.header \in BOOLEAN /\ o.aux \in BOOLEAN /\ (o.deps # << >> => (o.deps[1] # NULL => IsList(o.deps[1])))
    BY <1>1 DEF Valued, FileShape
  <1> HIDE DEF o
  <1>4. IsResult(r) /\ Paid(r.took, FreeDeps(r.value[2]), exact)
    BY <1>3, OdexReadPays
  <1> HIDE DEF r
  <1>5. b \in Seq(Tokens)
    <2>1. "odex" \in Kinds
      BY DEF Kinds
    <2> QED
      BY <2>1, BlockToken
  <1> HIDE DEF b
  <1>6. s.took = b \o r.took /\ s.ok = r.ok
    <2>1. Pays(r, FreeDeps(r.value[2]), exact)
      BY <1>4 DEF Pays
    <2> QED
      BY <1>5, <2>1, AfterPays
  <1> HIDE DEF s
  <1> DEFINE deps == r.value[2]
  <1>7. OdexData(metadata', deps, NULL)
    BY <1>1 DEF OdexData, ZeroOdex
  <1> HIDE DEF deps
  <1>8. Paid(s.took, FreeOdexData(metadata'), exact) /\ Metadata(metadata') /\ metadata'.id = NULL
    BY <1>4, <1>6, <1>7, OdexDataFree DEF deps, b
  <1>9. FreeOdexData(metadata) = << >>
    BY <1>2 DEF FreeOdexData
  <1>10. /\ GrowsBy(FreeOdexData(metadata), FreeOdexData(metadata'), s.took, exact)
         /\ s.took \in Seq(Tokens) /\ FreeOdexData(metadata') \in Seq(Tokens)
    BY <1>8, <1>9, PaidGrows
  <1>11. /\ Parts(ctx, metadata', protos)
         /\ Owes(Debt(ctx, metadata', protos), held (+) BagOf(s.took), exact)
    BY <1>2, <1>10, MetadataChange DEF AtReading
  <1>12. HoldsMore(s.took) /\ pc' = IF s.ok THEN "header" ELSE "failed"
    BY <1>1 DEF Acquire, HoldsMore
  <1>13. pc' \in Steps \cup MemberLists
    BY <1>12 DEF Steps
  <1>14. Common' /\ AtReading(exact)'
    BY <1>1, <1>2, <1>8, <1>10, <1>11, <1>12, <1>13, SectionCommon
  <1>15. ProtosNamed' /\ Empty'
    BY <1>1, <1>2 DEF ProtosNamed, Empty
  <1>16. CASE s.ok
    <2>1. pc' = "header" /\ "header" \in SectionSteps
      BY <1>12, <1>16 DEF SectionSteps
    <2> QED
      BY <1>8, <1>14, <1>15, <2>1, AtSection
  <1>17. CASE ~s.ok
    BY <1>12, <1>14, <1>15, <1>17, AtFailed
  <1> QED
    BY <1>16, <1>17

(* The id of an odex file.                                                 *)
IdRead(data) == IF data = NULL THEN Done(NULL, << >>) ELSE Done(Block("id"), <<Block("id")>>)

(* The header, as reads in order: its version, the id and its sizes.       *)
HeaderRead(f, data) ==
  InOrder(<<Result(NULL, f.version, << >>), IdRead(data), Result(NULL, f.sizes, << >>)>>, NULL)
WithId(data, id) == IF data = NULL THEN NULL ELSE [data EXCEPT !.id = id]

(* The id, which an odex file only has, pays.                              *)
LEMMA IdReadPays ==
  ASSUME NullApart, NEW exact, NEW data
  PROVE  /\ Pays(IdRead(data), FreeRef(IdRead(data).value), exact)
         /\ IdRead(data).value \in Tokens \cup {NULL}
         /\ data = NULL => IdRead(data).value = NULL
  <1>1. CASE data = NULL
    <2> DEFINE none == << >>
    <2>1. IdRead(data) = Done(NULL, none)
      BY <1>1 DEF IdRead
    <2>2. none \in Seq(Tokens) /\ FreeRef(NULL) = none
      BY NoTokens, FreeRefFacts
    <2> HIDE DEF none
    <2>3. Pays(Done(NULL, none), none, exact) /\ Done(NULL, none).value = NULL
      BY <2>2, DonePays
    <2> QED
      BY <2>1, <2>2, <2>3
  <1>2. CASE data # NULL
    <2> DEFINE t == Block("id")
    <2>1. IdRead(data) = Done(t, <<t>>)
      BY <1>2 DEF IdRead
    <2>2. t \in Tokens
      <3>1. "id" \in Kinds
        BY DEF Kinds
      <3> QED
        BY <3>1, BlockToken
    <2> HIDE DEF t
    <2>3. t # NULL /\ FreeRef(t) = <<t>> /\ <<t>> \in Seq(Tokens)
      BY <2>2, NotNull, FreeRefFacts
    <2>4. Pays(Done(t, <<t>>), <<t>>, exact) /\ Done(t, <<t>>).value = t
      BY <2>3, DonePays
    <2> QED
      BY <1>2, <2>1, <2>2, <2>3, <2>4
  <1> QED
    BY <1>1, <1>2

(* The checks of the header with the id between them pay.                  *)
LEMMA HeaderReadPays ==
  ASSUME NullApart, NEW exact, NEW f, f.version \in BOOLEAN, f.sizes \in BOOLEAN, NEW data,
         NEW r, r = HeaderRead(f, data)
  PROVE  /\ IsResult(r) /\ Paid(r.took, FreeRef(r.value[2]), exact)
         /\ r.value[2] \in Tokens \cup {NULL}
         /\ data = NULL => r.value[2] = NULL
  <1> DEFINE h == Result(NULL, f.version, << >>)
             q == IdRead(data)
             a == Result(NULL, f.sizes, << >>)
  <1>1. Pays(q, FreeRef(q.value), exact) /\ q.value \in Tokens \cup {NULL} /\ (data = NULL => q.value = NULL)
    BY IdReadPays
  <1>2. h.ok = f.version /\ h.took = << >> /\ a.ok = f.sizes /\ a.took = << >> /\ h.value = NULL /\ a.value = NULL
    BY ResultFields
  <1>3. r = InOrder(<<h, q, a>>, NULL)
    BY DEF HeaderRead
  <1>4. IsResult(q) /\ Paid(q.took, FreeRef(q.value), exact) /\ q.took \in Seq(Tokens)
    BY <1>1 DEF Pays, Paid
  <1>5. IsResult(h) /\ IsResult(a)
    BY <1>2, NoTokens DEF IsResult
  <1> HIDE DEF h, q, a
  <1>6. IsResult(r)
    BY <1>3, <1>4, <1>5, InOrderThree
  <1>7. r.value[2] = IF h.ok THEN q.value ELSE NULL
    BY <1>3, <1>4, <1>5, InOrderThree
  <1>8. r.took = IF ~h.ok THEN h.took ELSE IF ~q.ok THEN h.took \o q.took
                                          ELSE (h.took \o q.took) \o a.took
    BY <1>3, <1>4, <1>5, InOrderThree
  <1>9. << >> \o q.took = q.took /\ q.took \o << >> = q.took
    BY <1>4
  <1>10. r.took = IF h.ok THEN q.took ELSE << >>
    BY <1>2, <1>8, <1>9
  <1>11. FreeRef(NULL) = << >>
    BY FreeRefFacts
  <1> QED
    BY <1>1, <1>4, <1>6, <1>7, <1>10, <1>11, NoTokens

(* The metadata gets the id.                                               *)
LEMMA IdGrows ==
  ASSUME NullApart, NEW exact, NEW data, Metadata(data), data # NULL => data.id = NULL,
         NEW id, id \in Tokens \cup {NULL}, data = NULL => id = NULL, NEW took, Paid(took, FreeRef(id), exact),
         NEW new, new = WithId(data, id)
  PROVE  /\ GrowsBy(FreeOdexData(data), FreeOdexData(new), took, exact)
         /\ FreeOdexData(new) \in Seq(Tokens) /\ Metadata(new)
  <1>0. took \in Seq(Tokens) /\ FreeRef(id) \in Seq(Tokens)
    BY DEF Paid
  <1>1. CASE data = NULL
    <2>1. new = NULL /\ FreeOdexData(new) = << >> /\ FreeOdexData(data) = << >> /\ FreeRef(id) = << >>
      BY <1>1, FreeRefFacts DEF WithId, FreeOdexData
    <2>2. Metadata(new)
      BY <2>1 DEF Metadata
    <2> QED
      BY <2>1, <2>2, PaidGrows, NoTokens
  <1>2. CASE data # NULL
    <2> DEFINE a == data.deps
               s == data.dep_shas
               m == MetadataDeps(data)
               b == <<Block("odex")>>
               t == FreeRef(id)
    <2>1. data = [deps |-> a, dep_shas |-> s, id |-> data.id] /\ m \in Seq(Tokens)
      BY <1>2 DEF Metadata
    <2>2. new = [deps |-> a, dep_shas |-> s, id |-> id]
      <3> HIDE DEF a, s
      <3>1. new = [data EXCEPT !.id = id]
        BY <1>2 DEF WithId
      <3> QED
        BY <2>1, <3>1
    <2>3. new # NULL
      <3>1. new = [x \in DOMAIN new |-> new[x]]
        BY <2>2
      <3> QED
        BY <3>1 DEF NullApart
    <2>4. new.deps = a /\ new.dep_shas = s /\ new.id = id
      BY <2>2
    <2>5. MetadataDeps(new) = m
      BY <2>4 DEF MetadataDeps
    <2>6. FreeOdexData(new) = (m \o t) \o b
      BY <2>3, <2>4, <2>5 DEF FreeOdexData, MetadataDeps
    <2>7. FreeRef(data.id) = << >>
      BY <1>2, FreeRefFacts
    <2>8. FreeOdexData(data) = (m \o << >>) \o b
      BY <1>2, <2>7 DEF FreeOdexData, MetadataDeps
    <2>9. b \in Seq(Tokens)
      <3>1. "odex" \in Kinds
        BY DEF Kinds
      <3> QED
        BY <3>1, BlockToken
    <2>10. Metadata(new)
      BY <2>1, <2>2, <2>4, <2>5 DEF Metadata
    <2> HIDE DEF a, s, m, b
    <2>11. m \o << >> = m
      BY <2>1
    <2> HIDE DEF t
    <2>12. FreeOdexData(data) = m \o b
      BY <2>8, <2>11
    <2>13. m \o t \in Seq(Tokens) /\ (m \o t) \o b \in Seq(Tokens) /\ m \o b \in Seq(Tokens) /\ t \in Seq(Tokens)
      BY <1>0, <2>1, <2>9 DEF t
    <2>14. ASSUME NEW x
           PROVE  /\ Occurrences((m \o t) \o b, x) <= Occurrences(m \o b, x) + Occurrences(took, x)
                  /\ exact => Occurrences((m \o t) \o b, x) = Occurrences(m \o b, x) + Occurrences(took, x)
      <3> DEFINE om == Occurrences(m, x)
                 ot == Occurrences(t, x)
                 ob == Occurrences(b, x)
                 ok == Occurrences(took, x)
      <3>1. Occurrences(m \o b, x) = om + ob /\ Occurrences(m \o t, x) = om + ot
        BY <2>1, <2>9, <2>13, OccSum
      <3>2. Occurrences((m \o t) \o b, x) = (om + ot) + ob
        <4> DEFINE mt == m \o t
        <4>1. mt \in Seq(Tokens) /\ Occurrences(mt, x) = om + ot
          BY <2>13, <3>1
        <4> HIDE DEF mt, om, ot
        <4>2. Occurrences(mt \o b, x) = Occurrences(mt, x) + ob
          BY <2>9, <4>1, OccSum
        <4> QED
          BY <4>1, <4>2 DEF mt
      <3>3. om \in Nat /\ ot \in Nat /\ ob \in Nat /\ ok \in Nat
        BY <1>0, <2>1, <2>9, <2>13, OccNat
      <3>4. ot <= ok /\ (exact => ot = ok)
        BY DEF Paid, t
      <3> HIDE DEF om, ot, ob, ok
      <3>5. (om + ot) + ob <= (om + ob) + ok
        BY <3>3, <3>4
      <3>6. ot = ok => (om + ot) + ob = (om + ob) + ok
        BY <3>3
      <3>7. exact => (om + ot) + ob = (om + ob) + ok
        BY <3>4, <3>6
      <3> QED
        BY <3>1, <3>2, <3>5, <3>7 DEF ok
    <2>15. FreeOdexData(new) = (m \o t) \o b
      BY <2>6
    <2> QED
      BY <2>10, <2>12, <2>13, <2>14, <2>15 DEF GrowsBy
  <1> QED
    BY <1>1, <1>2

(* The header.                                                             *)
LEMMA ReadHeaderStep ==
  ASSUME NullApart, NEW exact, IInv(exact), Valued(file), ReadHeader
  PROVE  IInv(exact)'
  <1> DEFINE r == HeaderRead(file, metadata)
             id == r.value[2]
  <1>1. /\ pc = "header" /\ Acquire(r, "strings") /\ metadata' = WithId(metadata, id)
        /\ UNCHANGED <<file, ctx, protos, class, members, idx, dex>>
    BY DEF ReadHeader, HeaderRead, IdRead, WithId
  <1>2. /\ AtReading(exact) /\ Context(ctx) /\ ProtoLists(protos, file) /\ Empty /\ Metadata(metadata)
        /\ class \in 0..Len(file.classes) + 1 /\ members \in Nat /\ idx \in Nat /\ ProtosNamed
        /\ metadata # NULL => metadata.id = NULL
    BY <1>1, SectionFacts DEF SectionSteps
  <1>3. file.version \in BOOLEAN /\ file.sizes \in BOOLEAN
    BY DEF Valued, FileShape
  <1>4. /\ IsResult(r) /\ Paid(r.took, FreeRef(id), exact) /\ id \in Tokens \cup {NULL}
        /\ metadata = NULL => id = NULL
    BY <1>3, HeaderReadPays
  <1> HIDE DEF r, id
  <1>5. /\ GrowsBy(FreeOdexData(metadata), FreeOdexData(metadata'), r.took, exact)
        /\ FreeOdexData(metadata') \in Seq(Tokens) /\ Metadata(metadata')
    BY <1>1, <1>2, <1>4, IdGrows
  <1>6. r.took \in Seq(Tokens)
    BY <1>4 DEF IsResult
  <1>7. /\ Parts(ctx, metadata', protos)
        /\ Owes(Debt(ctx, metadata', protos), held (+) BagOf(r.took), exact)
    BY <1>2, <1>5, <1>6, MetadataChange DEF AtReading
  <1>8. HoldsMore(r.took) /\ pc' = IF r.ok THEN "strings" ELSE "failed"
    BY <1>1 DEF Acquire, HoldsMore
  <1>9. pc' \in Steps \cup MemberLists
    BY <1>8 DEF Steps
  <1>10. Common' /\ AtReading(exact)'
    BY <1>1, <1>2, <1>5, <1>6, <1>7, <1>8, <1>9, SectionCommon DEF SectionSteps
  <1>11. ProtosNamed' /\ Empty'
    BY <1>1, <1>2 DEF ProtosNamed, Empty
  <1>12. CASE r.ok
    <2>1. pc' = "strings" /\ "strings" \in SectionSteps
      BY <1>8, <1>12 DEF SectionSteps
    <2> QED
      BY <1>10, <1>11, <2>1, AtSection
  <1>13. CASE ~r.ok
    BY <1>8, <1>10, <1>11, <1>13, AtFailed
  <1> QED
    BY <1>12, <1>13

(* What prototypes hold is strings, and adds up.                           *)
ContentLists(prs) == IsList(prs) /\ \A p \in 1..Len(prs) : ContentList(prs[p])

(* What a prototype holds are strings.                                     *)
LEMMA FreeListStrs ==
  ASSUME NullApart, NEW v, ContentList(v)
  PROVE  FreeList(v) \in Seq(Strs)
  <1> DEFINE ends == {i \in DOMAIN v : v[i] = NULL}
  <1>0. /\ DOMAIN v = 1..Len(v) /\ Len(v) \in Nat /\ ends \subseteq Nat /\ IsList(v)
        /\ \A i \in 1..Len(v) : v[i] \in Strs \cup {NULL}
    BY ListFacts DEF ContentList
  <1>1. FreeList(v) = UpTo(v, ends)
    BY DEF FreeList, Before
  <1>2. CASE ends = {}
    <2>1. \A i \in 1..Len(v) : v[i] \in Strs
      BY <1>0, <1>2
    <2>2. v \in Seq(Strs)
      BY <1>0, <2>1, ListIn
    <2> QED
      BY <1>1, <1>2, <2>2 DEF UpTo
  <1>3. CASE ends # {}
    <2>1. v \in Seq(Strs \cup {NULL})
      BY <1>0, ListIn
    <2>2. \E e \in ends : \A k \in ends : e <= k
      <3> HIDE DEF ends
      <3> QED
        BY <1>0, <1>3, LeastElement
    <2>3. PICK e : e = CHOOSE i \in ends : \A k \in ends : i <= k
      OBVIOUS
    <2>4. e \in ends /\ \A k \in ends : e <= k
      BY <2>2, <2>3
    <2>5. UpTo(v, ends) = SubSeq(v, 1, e - 1)
      BY <1>3, <2>3 DEF UpTo
    <2>6. e \in 1..Len(v) /\ e - 1 \in Nat /\ e - 1 < Len(v)
      BY <1>0, <2>4
    <2>7. \A k \in 1..e - 1 : v[k] \in Strs
      BY <1>0, <2>4, <2>6
    <2> DEFINE a == SubSeq(v, 1, e - 1)
    <2>8. Len(a) = e - 1 /\ \A k \in 1..e - 1 : a[k] = v[k]
      BY <2>1, <2>6
    <2>9. a \in Seq(Strs \cup {NULL})
      BY <2>1, <2>6
    <2> HIDE DEF a
    <2>10. a \in Seq(Strs)
      <3>1. IsList(a)
        BY <2>9, SeqList
      <3>2. \A k \in 1..Len(a) : a[k] \in Strs
        BY <2>7, <2>8
      <3> QED
        BY <3>1, <3>2, ListIn
    <2> QED
      BY <1>1, <2>5, <2>10 DEF a
  <1> QED
    BY <1>2, <1>3

(* The lists of the prototypes ps, as pieces of a concatenation.           *)
Piece(prs, ps, i) == IF i \in ps THEN FreeList(prs[i]) ELSE << >>
Pieces(prs, ps) == [i \in DOMAIN prs |-> Piece(prs, ps, i)]
(* What the prototypes hold, one by one.                                   *)
LEMMA PiecesList ==
  ASSUME NullApart, NEW prs, ContentLists(prs), NEW ps
  PROVE  /\ Pieces(prs, ps) \in Seq(Seq(Strs)) /\ Pieces(prs, ps) \in Seq(Seq(Tokens))
         /\ Len(Pieces(prs, ps)) = Len(prs)
         /\ \A i \in 1..Len(prs) : Pieces(prs, ps)[i] = Piece(prs, ps, i)
         /\ ContentsOf(prs, ps) = FlattenSeq(Pieces(prs, ps))
  <1> DEFINE t == Pieces(prs, ps)
  <1>1. DOMAIN prs = 1..Len(prs) /\ Len(prs) \in Nat
    BY ListFacts DEF ContentLists
  <1>2. IsList(t) /\ Len(t) = Len(prs) /\ \A i \in 1..Len(prs) : t[i] = Piece(prs, ps, i)
    BY <1>1, ListOf DEF Pieces
  <1>3. ContentsOf(prs, ps) = FlattenSeq(t)
    BY DEF ContentsOf, Pieces, Piece
  <1> HIDE DEF t
  <1>4. \A i \in 1..Len(t) : t[i] \in Seq(Strs)
    <2>1. << >> \in Seq(Strs)
      OBVIOUS
    <2> QED
      BY <1>2, <2>1, FreeListStrs DEF Piece, ContentLists
  <1>5. \A i \in 1..Len(t) : t[i] \in Seq(Tokens)
    BY <1>4, RefTokens
  <1>6. t \in Seq(Seq(Strs))
    <2> DEFINE S == Seq(Strs)
    <2>1. \A i \in 1..Len(t) : t[i] \in S
      BY <1>4
    <2> HIDE DEF S
    <2>2. t \in Seq(S)
      BY <1>2, <2>1, ListIn
    <2> QED
      BY <2>2 DEF S
  <1>7. t \in Seq(Seq(Tokens))
    <2> DEFINE S == Seq(Tokens)
    <2>1. \A i \in 1..Len(t) : t[i] \in S
      BY <1>5
    <2> HIDE DEF S
    <2>2. t \in Seq(S)
      BY <1>2, <2>1, ListIn
    <2> QED
      BY <2>2 DEF S
  <1> QED
    BY <1>2, <1>3, <1>6, <1>7 DEF t

(* Prototypes hold no prototypes.                                          *)
LEMMA ContentsFacts ==
  ASSUME NullApart, NEW prs, ContentLists(prs), NEW ps
  PROVE  /\ ContentsOf(prs, ps) \in Seq(Tokens)
         /\ \A p : Occurrences(ContentsOf(prs, ps), Proto(p)) = 0
  <1> DEFINE s == ContentsOf(prs, ps)
             t == Pieces(prs, ps)
  <1>1. t \in Seq(Seq(Strs)) /\ t \in Seq(Seq(Tokens)) /\ s = FlattenSeq(t)
    BY PiecesList
  <1> HIDE DEF s, t
  <1>2. s \in Seq(Strs) /\ s \in Seq(Tokens)
    BY <1>1, OccFlatten
  <1>3. ASSUME NEW p PROVE Occurrences(s, Proto(p)) = 0
    <2>1. \A i \in DOMAIN s : s[i] \in Strs
      BY <1>2
    <2>2. Proto(p) \notin Strs
      BY DEF Strs, Proto, Str
    <2>3. Proto(p) \notin ToSet(s)
      BY <2>1, <2>2 DEF ToSet
    <2> DEFINE x == Proto(p)
    <2>4. x \notin ToSet(s)
      BY <2>3
    <2> HIDE DEF x
    <2>5. Occurrences(s, x) \in Nat /\ ~(Occurrences(s, x) > 0)
      BY <1>2, <2>4, OccIn, OccNat
    <2> QED
      BY <2>5 DEF x
  <1> QED
    BY <1>2, <1>3 DEF s

(* What two sets of prototypes hold.                                       *)
LEMMA ContentsSplit ==
  ASSUME NullApart, NEW prs, ContentLists(prs), NEW A, NEW B, A \cap B = {}, NEW x
  PROVE  Occurrences(ContentsOf(prs, A \cup B), x)
           = Occurrences(ContentsOf(prs, A), x) + Occurrences(ContentsOf(prs, B), x)
  <1> DEFINE C == A \cup B
             u == Pieces(prs, C)
             a == Pieces(prs, A)
             b == Pieces(prs, B)
  <1>1. /\ u \in Seq(Seq(Tokens)) /\ Len(u) = Len(prs) /\ ContentsOf(prs, C) = FlattenSeq(u)
        /\ \A i \in 1..Len(prs) : u[i] = Piece(prs, C, i)
    BY PiecesList
  <1>2. /\ a \in Seq(Seq(Tokens)) /\ Len(a) = Len(prs) /\ ContentsOf(prs, A) = FlattenSeq(a)
        /\ \A i \in 1..Len(prs) : a[i] = Piece(prs, A, i)
    BY PiecesList
  <1>3. /\ b \in Seq(Seq(Tokens)) /\ Len(b) = Len(prs) /\ ContentsOf(prs, B) = FlattenSeq(b)
        /\ \A i \in 1..Len(prs) : b[i] = Piece(prs, B, i)
    BY PiecesList
  <1> HIDE DEF u, a, b
  <1>4. ASSUME NEW i \in 1..Len(prs) PROVE u[i] = a[i] \o b[i]
    <2> DEFINE l == FreeList(prs[i])
    <2>1. l \in Seq(Strs)
      BY FreeListStrs DEF ContentLists
    <2>2. /\ u[i] = IF i \in C THEN l ELSE << >>
          /\ a[i] = IF i \in A THEN l ELSE << >>
          /\ b[i] = IF i \in B THEN l ELSE << >>
      BY <1>1, <1>2, <1>3 DEF Piece
    <2> HIDE DEF l
    <2>3. << >> \o l = l /\ l \o << >> = l /\ << >> \o << >> = << >>
      BY <2>1
    <2> QED
      BY <2>2, <2>3
  <1>5. Zipped(u, a, b)
    BY <1>1, <1>2, <1>3, <1>4 DEF Zipped
  <1>6. Occurrences(FlattenSeq(u), x) = Occurrences(FlattenSeq(a), x) + Occurrences(FlattenSeq(b), x)
    BY <1>5, FlattenZip
  <1> QED
    BY <1>1, <1>2, <1>3, <1>6

(* A part holds no more than all, and as much if the others are empty.     *)
LEMMA ContentsPart ==
  ASSUME NullApart, NEW prs, ContentLists(prs), NEW A \in SUBSET (DOMAIN prs)
  PROVE  /\ \A x : Occurrences(ContentsOf(prs, A), x) <= Occurrences(ContentsOf(prs, DOMAIN prs), x)
         /\ (\A p \in DOMAIN prs : prs[p] # << >> => p \in A)
              => ContentsOf(prs, A) = ContentsOf(prs, DOMAIN prs)
  <1>1. ASSUME NEW x
        PROVE  Occurrences(ContentsOf(prs, A), x) <= Occurrences(ContentsOf(prs, DOMAIN prs), x)
    <2> DEFINE B == DOMAIN prs \ A
    <2>1. A \cup B = DOMAIN prs /\ A \cap B = {}
      OBVIOUS
    <2> HIDE DEF B
    <2>2. Occurrences(ContentsOf(prs, A \cup B), x)
            = Occurrences(ContentsOf(prs, A), x) + Occurrences(ContentsOf(prs, B), x)
      BY <2>1, ContentsSplit
    <2>3. Occurrences(ContentsOf(prs, A), x) \in Nat /\ Occurrences(ContentsOf(prs, B), x) \in Nat
      BY ContentsFacts, OccNat
    <2> QED
      BY <2>1, <2>2, <2>3
  <1>2. ASSUME \A p \in DOMAIN prs : prs[p] # << >> => p \in A
        PROVE  ContentsOf(prs, A) = ContentsOf(prs, DOMAIN prs)
    <2>1. ASSUME NEW i \in DOMAIN prs PROVE Piece(prs, A, i) = Piece(prs, DOMAIN prs, i)
      <3>1. CASE i \in A
        BY <3>1 DEF Piece
      <3>2. CASE i \notin A
        <4>1. prs[i] = << >>
          BY <1>2, <3>2
        <4> QED
          BY <3>2, <4>1, EmptyList DEF Piece
      <3> QED
        BY <3>1, <3>2
    <2>2. Pieces(prs, A) = Pieces(prs, DOMAIN prs)
      BY <2>1 DEF Pieces
    <2> QED
      BY <2>2, PiecesList
  <1> QED
    BY <1>1, <1>2

(* The tables of the DexFile.                                              *)
LEMMA TableTokens ==
  ASSUME NullApart, NEW c, NEW f, Loaded(c, f), NEW d,
         d.method_table = [i \in DOMAIN c.methods |-> RawMethodRefs(c.methods[i])],
         d.field_table = [i \in DOMAIN c.fields |-> RawFieldRefs(c.fields[i])],
         d.type_table = c.types
  PROVE  TableRefs(d) \in Seq(Tokens)
  <1> DEFINE ms == d.method_table
             fs == d.field_table
             ts == d.type_table
             bs == [i \in DOMAIN TableNames |-> Block(TableNames[i])]
  <1>1. /\ IsList(c.methods) /\ \A i \in 1..Len(c.methods) : RawMethodParts(c.methods[i])
        /\ IsList(c.fields) /\ \A i \in 1..Len(c.fields) : RawFieldParts(c.fields[i])
        /\ StrList(c.types)
    BY DEF Loaded
  <1>2. DOMAIN c.methods = 1..Len(c.methods) /\ DOMAIN c.fields = 1..Len(c.fields)
        /\ Len(c.methods) \in Nat /\ Len(c.fields) \in Nat
    BY <1>1, ListFacts
  <1>3. IsList(ms) /\ Len(ms) = Len(c.methods) /\ \A i \in 1..Len(ms) : ms[i] = RawMethodRefs(c.methods[i])
    BY <1>2, ListOf
  <1>4. IsList(fs) /\ Len(fs) = Len(c.fields) /\ \A i \in 1..Len(fs) : fs[i] = RawFieldRefs(c.fields[i])
    BY <1>2, ListOf
  <1>5. TableRefs(d) = ((FlattenSeq(ms) \o FlattenSeq(fs)) \o ts) \o bs
    BY DEF TableRefs
  <1>6. ts \in Seq(Tokens)
    <2>1. IsList(ts) /\ \A i \in 1..Len(ts) : ts[i] \in Tokens
      BY <1>1, RefTokens DEF StrList
    <2> HIDE DEF ts
    <2> QED
      BY <2>1, ListIn
  <1>7. bs \in Seq(Tokens)
    <2>1. TableNames = <<"method_table", "field_table", "type_table">>
      BY DEF TableNames
    <2>2. {"method_table", "field_table", "type_table"} \subseteq Kinds
      BY DEF Kinds
    <2>3. \A i \in 1..3 : TableNames[i] \in Kinds
      BY <2>1, <2>2
    <2>4. DOMAIN TableNames = 1..3
      BY <2>1
    <2>5. IsList(bs) /\ Len(bs) = 3 /\ \A i \in 1..3 : bs[i] = Block(TableNames[i])
      BY <2>4, ListOf
    <2> HIDE DEF bs
    <2>6. \A i \in 1..3 : bs[i] \in Tokens
      BY <2>3, <2>5, BlockToken
    <2> QED
      BY <2>5, <2>6, ListIn
  <1> HIDE DEF ms, fs, ts, bs
  <1>8. ms \in Seq(Seq(Tokens))
    <2>1. ASSUME NEW i \in 1..Len(ms) PROVE ms[i] \in Seq(Tokens)
      <3> DEFINE m == c.methods[i]
      <3>1. m.defining_class \in Tokens /\ m.name \in Tokens /\ m.prototype \in Tokens
        BY <1>1, <1>3, RefTokens DEF RawMethodParts
      <3>2. ms[i] = <<m.defining_class, m.name, m.prototype>>
        BY <1>3 DEF RawMethodRefs
      <3> HIDE DEF m
      <3> QED
        BY <3>1, <3>2
    <2> DEFINE S == Seq(Tokens)
    <2>2. \A i \in 1..Len(ms) : ms[i] \in S
      BY <2>1
    <2> HIDE DEF S
    <2>3. ms \in Seq(S)
      BY <1>3, <2>2, ListIn
    <2> QED
      BY <2>3 DEF S
  <1>9. fs \in Seq(Seq(Tokens))
    <2>1. ASSUME NEW i \in 1..Len(fs) PROVE fs[i] \in Seq(Tokens)
      <3> DEFINE m == c.fields[i]
      <3>1. m.defining_class \in Tokens /\ m.name \in Tokens /\ m.type \in Tokens
        BY <1>1, <1>4, RefTokens DEF RawFieldParts
      <3>2. fs[i] = <<m.defining_class, m.type, m.name>>
        BY <1>4 DEF RawFieldRefs
      <3> HIDE DEF m
      <3> QED
        BY <3>1, <3>2
    <2> DEFINE S == Seq(Tokens)
    <2>2. \A i \in 1..Len(fs) : fs[i] \in S
      BY <2>1
    <2> HIDE DEF S
    <2>3. fs \in Seq(S)
      BY <1>4, <2>2, ListIn
    <2> QED
      BY <2>3 DEF S
  <1> DEFINE fm == FlattenSeq(ms)
             ff == FlattenSeq(fs)
  <1>10. fm \in Seq(Tokens) /\ ff \in Seq(Tokens)
    BY <1>8, <1>9, OccFlatten
  <1> HIDE DEF fm, ff
  <1>11. fm \o ff \o ts \o bs \in Seq(Tokens)
    BY <1>6, <1>7, <1>10, Chain4
  <1> QED
    BY <1>5, <1>11 DEF fm, ff

(* What is owed once the classes are in the DexFile.                       *)
Left(c, d, prs) ==
  <<EmptyStr>> \o FreeContext(c) \o FreeDexFile(d) \o TableRefs(d) \o ContentsOf(prs, DOMAIN prs)

(* The file owes what the classes and the metadata owed.                   *)
MovedFile(c, data, d) == FreeDexFile(d) = FreeClasses(c) \o FreeOdexData(data) \o <<Block("file")>>

(* The classes and the metadata go to the DexFile, with the references of  *)
(* its tables.                                                             *)
LEMMA MoveDebt ==
  ASSUME NEW exact, NEW c, NEW data, NEW prs, NEW bag, Parts(c, data, prs),
         Owes(Debt(c, data, prs), bag, exact), NEW c2, SameBut(c, c2, "classes"), c2.classes = NULL,
         NEW d, MovedFile(c, data, d), TableRefs(d) \in Seq(Tokens),
         NEW took, took = <<Block("file")>> \o TableRefs(d)
  PROVE  /\ Parts(c2, data, prs) /\ FreeDexFile(d) \in Seq(Tokens) /\ took \in Seq(Tokens)
         /\ Owes(Left(c2, d, prs), bag (+) BagOf(took), exact)
  <1> DEFINE e == <<EmptyStr>>
             fc == FreeContext(c)
             fc2 == FreeContext(c2)
             cs == FreeClasses(c)
             me == FreeOdexData(data)
             fb == <<Block("file")>>
             fd == FreeDexFile(d)
             tr == TableRefs(d)
             co == ContentsOf(prs, DOMAIN prs)
  <1>0. \A p \in CtxParts \ {"classes"} : c2[p] = c[p]
    BY DEF SameBut
  <1>1. /\ FreeStrs(c2) = FreeStrs(c) /\ FreeTypes(c2) = FreeTypes(c) /\ FreeProtos(c2) = FreeProtos(c)
        /\ FreeRawFields(c2) = FreeRawFields(c) /\ FreeRawMethods(c2) = FreeRawMethods(c)
    BY <1>0 DEF CtxParts, FreeStrs, FreeTypes, FreeProtos, FreeRawFields, FreeRawMethods
  <1>2. FreeClasses(c2) = << >>
    BY NullTables
  <1>3. Parts(c2, data, prs)
    BY <1>1, <1>2, NoTokens DEF Parts
  <1>4. e \in Seq(Tokens) /\ fb \in Seq(Tokens)
    <2>1. "file" \in Kinds
      BY DEF Kinds
    <2> QED
      BY <2>1, BlockToken, EmptyStrToken
  <1>5. cs \in Seq(Tokens) /\ me \in Seq(Tokens) /\ co \in Seq(Tokens) /\ tr \in Seq(Tokens)
    BY DEF Parts
  <1>6. fc \in Seq(Tokens) /\ fc2 \in Seq(Tokens)
    BY <1>3, ContextSum DEF Parts
  <1>7. ASSUME NEW x
        PROVE  Occurrences(fc, x) = Occurrences(fc2, x) + Occurrences(cs, x)
    <2> DEFINE o1 == Occurrences(FreeStrs(c), x)
               o2 == Occurrences(FreeTypes(c), x)
               o3 == Occurrences(FreeProtos(c), x)
               o4 == Occurrences(FreeRawFields(c), x)
               o5 == Occurrences(FreeRawMethods(c), x)
               o6 == Occurrences(cs, x)
    <2>1. Occurrences(fc, x) = o1 + o2 + o3 + o4 + o5 + o6
      BY ContextSum DEF Parts
    <2>2. Occurrences(fc2, x) = o1 + o2 + o3 + o4 + o5 + Occurrences(FreeClasses(c2), x)
      BY <1>1, <1>3, ContextSum DEF Parts
    <2>3. Occurrences(FreeClasses(c2), x) = 0
      BY <1>2, OccEmpty
    <2>4. o1 \in Nat /\ o2 \in Nat /\ o3 \in Nat /\ o4 \in Nat /\ o5 \in Nat /\ o6 \in Nat
      BY OccNat DEF Parts
    <2> HIDE DEF o1, o2, o3, o4, o5, o6, fc, fc2
    <2> QED
      BY <2>1, <2>2, <2>3, <2>4 DEF o6
  <1>8. fd = cs \o me \o fb
    BY DEF MovedFile
  <1>9. Debt(c, data, prs) = e \o fc \o me \o co
    BY DEF Debt
  <1>10. Left(c2, d, prs) = e \o fc2 \o fd \o tr \o co
    BY DEF Left
  <1>11. took = fb \o tr
    OBVIOUS
  <1> DEFINE debt == Debt(c, data, prs)
             left == Left(c2, d, prs)
  <1>12. Owes(debt, bag, exact)
    OBVIOUS
  <1> HIDE DEF e, fc, fc2, cs, me, fb, tr, co, debt, left
  <1>13. cs \o me \o fb \in Seq(Tokens)
    BY <1>4, <1>5, Chain3
  <1>14. fd \in Seq(Tokens)
    BY <1>8, <1>13
  <1> HIDE DEF fd
  <1>15. e \o fc2 \o fd \o tr \o co \in Seq(Tokens) /\ fb \o tr \in Seq(Tokens)
    BY <1>4, <1>5, <1>6, <1>14, Chain5, Chain2
  <1>16. ASSUME NEW x
         PROVE  Occurrences(left, x) = Occurrences(debt, x) + Occurrences(took, x)
    <2> DEFINE oe == Occurrences(e, x)
               oc == Occurrences(fc, x)
               oc2 == Occurrences(fc2, x)
               os == Occurrences(cs, x)
               om == Occurrences(me, x)
               ob == Occurrences(fb, x)
               od == Occurrences(fd, x)
               ot == Occurrences(tr, x)
               oo == Occurrences(co, x)
    <2>1. Occurrences(e \o fc \o me \o co, x) = oe + oc + om + oo
      BY <1>4, <1>5, <1>6, Chain4
    <2>2. Occurrences(e \o fc2 \o fd \o tr \o co, x) = oe + oc2 + od + ot + oo
      <3>1. /\ e \in Seq(Tokens) /\ fc2 \in Seq(Tokens) /\ fd \in Seq(Tokens) /\ tr \in Seq(Tokens)
            /\ co \in Seq(Tokens)
        BY <1>4, <1>5, <1>6, <1>14
      <3> HIDE DEF oe, oc, oc2, os, om, ob, od, ot, oo
      <3>2. Occurrences(e \o fc2 \o fd \o tr \o co, x)
              = Occurrences(e, x) + Occurrences(fc2, x) + Occurrences(fd, x) + Occurrences(tr, x)
                  + Occurrences(co, x)
        BY <3>1, Chain5
      <3> QED
        BY <3>2 DEF oe, oc2, od, ot, oo
    <2>3. Occurrences(cs \o me \o fb, x) = os + om + ob
      BY <1>4, <1>5, Chain3
    <2>4. Occurrences(fb \o tr, x) = ob + ot
      BY <1>4, <1>5, Chain2
    <2>5. oc = oc2 + os
      BY <1>7 DEF fc, fc2, cs
    <2>6. /\ oe \in Nat /\ oc2 \in Nat /\ os \in Nat /\ om \in Nat /\ ob \in Nat /\ ot \in Nat
          /\ oo \in Nat
      BY <1>4, <1>5, <1>6, OccNat
    <2>7. od = os + om + ob
      BY <1>8, <2>3 DEF fd
    <2>8. /\ Occurrences(debt, x) = oe + oc + om + oo
          /\ Occurrences(left, x) = oe + oc2 + od + ot + oo
          /\ Occurrences(took, x) = ob + ot
      BY <1>9, <1>10, <1>11, <2>1, <2>2, <2>4 DEF debt, left
    <2> HIDE DEF oe, oc, oc2, os, om, ob, od, ot, oo
    <2> QED
      BY <2>5, <2>6, <2>7, <2>8
  <1>17. left \in Seq(Tokens) /\ took \in Seq(Tokens) /\ debt \in Seq(Tokens)
    BY <1>10, <1>11, <1>12, <1>15 DEF left, Owes
  <1>18. \A x : Occurrences(left, x) <= Occurrences(debt, x) + Occurrences(took, x)
    <2>1. ASSUME NEW x PROVE Occurrences(left, x) <= Occurrences(debt, x) + Occurrences(took, x)
      BY <1>16, <1>17, OccNat
    <2> QED
      BY <2>1
  <1>19. Owes(left, bag (+) BagOf(took), exact)
    BY <1>12, <1>16, <1>17, <1>18, OwesMore
  <1> QED
    BY <1>3, <1>14, <1>17, <1>19 DEF left, fd

(* The loop over the classes of a DexFile, which ends at a class without a *)
(* name, frees all classes.                                                *)
LEMMA ClassesFreed ==
  ASSUME NullApart, NEW c, NEW n, ClassesRead(c.classes, n, n - 1), n \in Nat \ {0}, NEW data,
         NEW d, d.classes = c.classes, d.metadata = data
  PROVE  MovedFile(c, data, d)
  <1> DEFINE cs == c.classes
  <1>1. IsList(cs) /\ Len(cs) = n - 1 /\ \A i \in 1..Len(cs) : i < n => cs[i].name # NULL
    BY DEF ClassesRead
  <1>2. cs # NULL /\ DOMAIN cs = 1..Len(cs)
    BY <1>1, NotNull, ListFacts
  <1>3. \A i \in DOMAIN cs : cs[i].name # NULL
    BY <1>1, <1>2
  <1>4. {i \in DOMAIN cs : cs[i].name = NULL} = {} /\ {i \in DOMAIN cs : FALSE} = {}
    BY <1>3
  <1>5. FreeArray(cs, LAMBDA cl_1 : cl_1.name = NULL, FreeClass, "classes") = FreeClasses(c)
    BY <1>2, <1>4 DEF FreeArray, FreeClasses, FreeWhole
  <1> HIDE DEF cs
  <1> QED
    BY <1>5 DEF MovedFile, FreeDexFile, cs

(* The hand-over to the DexFile.                                           *)
LEMMA MoveToFileStep ==
  ASSUME NullApart, NEW exact, IInv(exact), Valued(file), MoveToFile
  PROVE  IInv(exact)'
  <1> DEFINE took == <<Block("file")>> \o TableRefs(dex')
             n == Len(file.classes)
  <1>1. /\ pc = "move" /\ PartSet(ctx, ctx', "classes", NULL)
        /\ dex'.classes = ctx.classes /\ dex'.metadata = metadata
        /\ dex'.method_table = [i \in DOMAIN ctx.methods |-> RawMethodRefs(ctx.methods[i])]
        /\ dex'.field_table = [i \in DOMAIN ctx.fields |-> RawFieldRefs(ctx.fields[i])]
        /\ dex'.type_table = ctx.types
        /\ Acquire(Done(dex', took), "release")
        /\ UNCHANGED <<file, protos, metadata, class, members, idx>>
    BY DEF MoveToFile, PartSet
  <1> HIDE DEF took
  <1>2. Common /\ AtMove /\ AtReading(exact) /\ ProtosNamed
    <2>1. "move" \notin {"release"} \cup Endings
      BY DEF Endings
    <2> QED
      BY <1>1, <2>1 DEF IInv, Phase
  <1>3. n \in Nat
    <2>1. IsList(file.classes)
      BY DEF Valued, FileShape
    <2> QED
      BY <2>1, ListFacts
  <1>4. "classes" \in CtxParts /\ Context(ctx') /\ ctx'.classes = NULL /\ SameBut(ctx, ctx', "classes")
    <2>1. "classes" \in CtxParts
      BY DEF CtxParts
    <2>2. Context(ctx)
      BY <1>2 DEF Common
    <2> QED
      BY <1>1, <2>1, <2>2, ContextSet DEF SameBut
  <1>5. TableRefs(dex') \in Seq(Tokens)
    <2> DEFINE d == dex'
    <2>1. /\ d.method_table = [i \in DOMAIN ctx.methods |-> RawMethodRefs(ctx.methods[i])]
          /\ d.field_table = [i \in DOMAIN ctx.fields |-> RawFieldRefs(ctx.fields[i])]
          /\ d.type_table = ctx.types /\ Loaded(ctx, file)
      BY <1>1, <1>2 DEF AtMove
    <2> HIDE DEF d
    <2>2. TableRefs(d) \in Seq(Tokens)
      BY <2>1, TableTokens
    <2> QED
      BY <2>2 DEF d
  <1>6. MovedFile(ctx, metadata, dex')
    <2> DEFINE m == n + 1
    <2>1. ClassesRead(ctx.classes, m, m - 1) /\ m \in Nat \ {0}
      <3>1. ClassesRead(ctx.classes, n + 1, n) /\ (n + 1) - 1 = n
        BY <1>2, <1>3 DEF AtMove, n
      <3> QED
        BY <1>3, <3>1
    <2> HIDE DEF m
    <2> QED
      BY <1>1, <2>1, ClassesFreed
  <1>7. /\ Parts(ctx', metadata, protos) /\ FreeDexFile(dex') \in Seq(Tokens) /\ took \in Seq(Tokens)
        /\ Owes(Left(ctx', dex', protos), held (+) BagOf(took), exact)
    <2>1. took = <<Block("file")>> \o TableRefs(dex')
      BY DEF took
    <2>2. Parts(ctx, metadata, protos) /\ Owes(Debt(ctx, metadata, protos), held, exact)
      BY <1>2 DEF AtReading
    <2> QED
      BY <1>4, <1>5, <1>6, <2>1, <2>2, MoveDebt
  <1>8. pc' = "release" /\ held' = held (+) BagOf(took)
    <2>1. Done(dex', took).took = took /\ Done(dex', took).ok
      BY DEF Done, Result
    <2> QED
      BY <1>1, <2>1 DEF Acquire
  <1>9. AtRelease(exact)'
    BY <1>1, <1>5, <1>7, <1>8 DEF AtRelease, DexParts, Left
  <1>10. ProtosNamed'
    <2>1. ctx'.protos = ctx.protos
      BY <1>4 DEF SameBut, CtxParts
    <2> QED
      BY <1>1, <1>2, <2>1 DEF ProtosNamed
  <1>11. Common'
    <2>1. IsABag(held')
      BY <1>7, <1>8 DEF Owes
    <2>2. pc' \in Steps
      BY <1>8 DEF Steps
    <2> QED
      BY <1>1, <1>2, <1>4, <2>1, <2>2 DEF Common
  <1> QED
    BY <1>8, <1>9, <1>10, <1>11 DEF IInv, Phase, ClassSteps, MemberLists, Endings

(* What a release takes from what is held.                                 *)
LEMMA LastRefsFacts ==
  ASSUME NEW released \in Seq(Tokens), NEW p \in DOMAIN protos
  PROVE  p \in LastRefs(released) <=>
           /\ Occurrences(released, Proto(p)) > 0
           /\ Occurrences(released, Proto(p)) = Copies(Proto(p), held)
  <1> DEFINE x == Proto(p)
  <1>1. p \in LastRefs(released) <=> x \in ToSet(released) /\ Occurrences(released, x) = Copies(x, held)
    BY DEF LastRefs
  <1> HIDE DEF x
  <1>2. x \in ToSet(released) <=> Occurrences(released, x) > 0
    BY OccIn
  <1> QED
    BY <1>1, <1>2 DEF x

(* The prototypes that lose their last reference.                          *)
LEMMA LastRefsSome ==
  ASSUME NEW released
  PROVE  LastRefs(released) \in SUBSET (DOMAIN protos)
  BY DEF LastRefs

(* A release of no more than is held does not lose the program.            *)
LEMMA ReleaseDone ==
  ASSUME NullApart, IsABag(held), ContentLists(protos), NEW released \in Seq(Tokens), NEW next,
         Release(released, next), NEW gone, gone = ContentsOf(protos, LastRefs(released)),
         \A x : Occurrences(released, x) + Occurrences(gone, x) <= Copies(x, held)
  PROVE  /\ pc' = next /\ IsABag(held')
         /\ \A x : Copies(x, held') + (Occurrences(released, x) + Occurrences(gone, x)) = Copies(x, held)
  <1> DEFINE s == released \o gone
             all == BagOf(s)
  <1>1. gone = Contents(LastRefs(released))
    BY DEF Contents, ContentsOf, FreeList
  <1>2. IF all \sqsubseteq held THEN held' = held (-) all /\ pc' = next ELSE held' = held /\ pc' = "crashed"
    BY <1>1 DEF Release
  <1>3. gone \in Seq(Tokens)
    BY ContentsFacts
  <1>4. s \in Seq(Tokens) /\ \A x : Occurrences(s, x) = Occurrences(released, x) + Occurrences(gone, x)
    BY <1>3, OccSum
  <1> HIDE DEF s
  <1>5. IsABag(all) /\ \A x : Copies(x, all) = Occurrences(s, x)
    BY <1>4, BagOfFacts
  <1> HIDE DEF all
  <1>6. \A x : Copies(x, all) <= Copies(x, held)
    BY <1>4, <1>5
  <1>7. all \sqsubseteq held
    BY <1>5, <1>6, BagFits
  <1>8. held' = held (-) all /\ pc' = next
    BY <1>2, <1>7
  <1>9. IsABag(held (-) all) /\ \A x : Copies(x, held (-) all) = Copies(x, held) - Copies(x, all)
    BY <1>5, <1>6, BagSub
  <1>10. ASSUME NEW x
         PROVE  Copies(x, held') + (Occurrences(released, x) + Occurrences(gone, x)) = Copies(x, held)
    <2>1. Copies(x, held') = Copies(x, held) - Copies(x, all)
      BY <1>8, <1>9
    <2>2. Copies(x, held) \in Nat /\ Copies(x, all) \in Nat
      BY <1>5, BagCopies
    <2>3. Copies(x, all) = Occurrences(released, x) + Occurrences(gone, x)
      BY <1>4, <1>5
    <2> DEFINE u == Occurrences(released, x) + Occurrences(gone, x)
    <2>4. Copies(x, all) = u
      BY <2>3
    <2> HIDE DEF u
    <2>5. Copies(x, held') + u = Copies(x, held)
      BY <2>1, <2>2, <2>4
    <2> QED
      BY <2>5 DEF u
  <1> QED
    BY <1>8, <1>9, <1>10

(* What is still owed when the prototypes ps are held.                     *)
Kept(d, prs, ps) == <<EmptyStr>> \o FreeDexFile(d) \o TableRefs(d) \o ContentsOf(prs, ps)
(* What is owed when the file is done.                                     *)
LEMMA KeptSum ==
  ASSUME NullApart, NEW d, DexParts(d), NEW prs, ContentLists(prs), NEW ps
  PROVE  /\ Kept(d, prs, ps) \in Seq(Tokens)
         /\ \A x : Occurrences(Kept(d, prs, ps), x)
                     = Occurrences(<<EmptyStr>>, x) + Occurrences(FreeDexFile(d), x)
                         + Occurrences(TableRefs(d), x) + Occurrences(ContentsOf(prs, ps), x)
  <1> DEFINE e == <<EmptyStr>>
             fd == FreeDexFile(d)
             tr == TableRefs(d)
             co == ContentsOf(prs, ps)
  <1>1. e \in Seq(Tokens) /\ fd \in Seq(Tokens) /\ tr \in Seq(Tokens) /\ co \in Seq(Tokens)
    BY EmptyStrToken, ContentsFacts DEF DexParts
  <1>2. Kept(d, prs, ps) = e \o fd \o tr \o co
    BY DEF Kept
  <1> HIDE DEF e, fd, tr, co
  <1>3. ASSUME NEW x
        PROVE  /\ e \o fd \o tr \o co \in Seq(Tokens)
               /\ Occurrences(e \o fd \o tr \o co, x)
                    = Occurrences(e, x) + Occurrences(fd, x) + Occurrences(tr, x) + Occurrences(co, x)
    BY <1>1, Chain4
  <1> QED
    BY <1>2, <1>3 DEF e, fd, tr, co

(* What is owed while the context is released.                             *)
LEMMA LeftSum ==
  ASSUME NullApart, NEW c, NEW data, NEW d, DexParts(d), NEW prs, ContentLists(prs), Parts(c, data, prs)
  PROVE  \A x : Occurrences(Left(c, d, prs), x)
                  = Occurrences(<<EmptyStr>>, x) + Occurrences(FreeContext(c), x)
                      + Occurrences(FreeDexFile(d), x)
                      + Occurrences(TableRefs(d), x) + Occurrences(ContentsOf(prs, DOMAIN prs), x)
  <1> DEFINE e == <<EmptyStr>>
             fc == FreeContext(c)
             fd == FreeDexFile(d)
             tr == TableRefs(d)
             co == ContentsOf(prs, DOMAIN prs)
  <1>1. /\ e \in Seq(Tokens) /\ fc \in Seq(Tokens) /\ fd \in Seq(Tokens) /\ tr \in Seq(Tokens)
        /\ co \in Seq(Tokens)
    BY EmptyStrToken, ContentsFacts, ContextSum DEF DexParts, Parts
  <1>2. Left(c, d, prs) = e \o fc \o fd \o tr \o co
    BY DEF Left
  <1> HIDE DEF e, fc, fd, tr, co
  <1>3. ASSUME NEW x
        PROVE  Occurrences(e \o fc \o fd \o tr \o co, x)
                    = Occurrences(e, x) + Occurrences(fc, x) + Occurrences(fd, x) + Occurrences(tr, x)
                        + Occurrences(co, x)
    BY <1>1, Chain5
  <1> QED
    BY <1>2, <1>3 DEF e, fc, fd, tr, co

(* A part of one element.                                                  *)
LEMMA OnePart ==
  ASSUME NEW ss \in Seq(Seq(Tokens)), NEW p \in 1..Len(ss), NEW x, ss[p] = <<x>>
  PROVE  Occurrences(FlattenSeq(ss), x) > 0 /\ FlattenSeq(ss) \in Seq(Tokens)
  <1> DEFINE uu == [i \in 1..Len(ss) |-> IF i = p THEN << >> ELSE ss[i]]
  <1>1. /\ uu \in Seq(Seq(Tokens)) /\ DOMAIN uu = DOMAIN ss /\ p \in DOMAIN ss /\ uu[p] = << >>
        /\ \A k \in DOMAIN ss : k # p => uu[k] = ss[k]
    <2>1. IsList(uu) /\ Len(uu) = Len(ss) /\ DOMAIN uu = 1..Len(ss)
      BY ListOf
    <2> DEFINE S == Seq(Tokens)
    <2>2. \A i \in 1..Len(uu) : uu[i] \in S
      BY <2>1, NoTokens
    <2> HIDE DEF uu, S
    <2>3. uu \in Seq(S)
      BY <2>1, <2>2, ListIn
    <2> QED
      BY <2>1, <2>3 DEF S, uu
  <1> HIDE DEF uu
  <1>2. Occurrences(FlattenSeq(uu), x) + Occurrences(ss[p], x)
          = Occurrences(FlattenSeq(ss), x) + Occurrences(uu[p], x)
    BY <1>1, FlattenChange
  <1>3. FlattenSeq(uu) \in Seq(Tokens) /\ FlattenSeq(ss) \in Seq(Tokens)
    BY <1>1, OccFlatten
  <1>4. Occurrences(FlattenSeq(uu), x) \in Nat /\ Occurrences(FlattenSeq(ss), x) \in Nat
    BY <1>3, OccNat
  <1>5. Occurrences(ss[p], x) = 1 /\ Occurrences(uu[p], x) = 0
    BY <1>1, OccOne, OccEmpty
  <1> QED
    BY <1>2, <1>3, <1>4, <1>5

(* A prototype with a list is referenced by the context.                   *)
LEMMA NamedInContext ==
  ASSUME NullApart, NEW p \in DOMAIN protos, protos[p] # << >>, ContentLists(protos), ProtosNamed,
         NEW data, NEW prs, Parts(ctx, data, prs)
  PROVE  Occurrences(FreeContext(ctx), Proto(p)) > 0
  <1> DEFINE x == Proto(p)
             v == ctx.protos
             tt == [i \in DOMAIN v |-> FreeRef(v[i])]
             b == <<Block("protos")>>
  <1>1. p \in 1..Len(protos)
    BY ListFacts DEF ContentLists
  <1>2. IsList(v) /\ p \in 1..Len(v) /\ v[p] = x /\ \A i \in 1..Len(v) : v[i] \in Protos \cup {NULL}
    BY <1>1 DEF ProtosNamed
  <1>3. DOMAIN v = 1..Len(v) /\ Len(v) \in Nat /\ v # NULL
    BY <1>2, ListFacts, NotNull
  <1>4. FreeProtos(ctx) = FlattenSeq(tt) \o b
    <2>1. {i \in DOMAIN v : FALSE} = {}
      OBVIOUS
    <2> QED
      BY <1>3, <2>1 DEF FreeProtos, FreeWhole, FreeArray, UpTo
  <1>5. FreeProtos(ctx) \in Seq(Tokens)
    BY DEF Parts
  <1>6. IsList(tt) /\ Len(tt) = Len(v) /\ \A i \in 1..Len(v) : tt[i] = FreeRef(v[i])
    BY <1>3, ListOf
  <1>7. tt \in Seq(Seq(Tokens))
    <2> DEFINE S == Seq(Tokens)
    <2> HIDE DEF tt
    <2>1. ASSUME NEW i \in 1..Len(tt) PROVE tt[i] \in S
      <3>1. tt[i] = FreeRef(v[i]) /\ (v[i] = NULL \/ v[i] \in Tokens)
        BY <1>2, <1>6, RefTokens
      <3> HIDE DEF v
      <3> QED
        BY <3>1, FreeRefFacts, NoTokens
    <2> HIDE DEF S
    <2>2. tt \in Seq(S)
      BY <1>6, <2>1, ListIn
    <2> QED
      BY <2>2 DEF S
  <1>8. p \in Nat /\ x \in Tokens
    <2>1. p \in Nat
      BY <1>3, <1>2
    <2> QED
      BY <2>1, RefTokens DEF Protos
  <1>9. tt[p] = <<x>>
    <2> HIDE DEF tt, x
    <2> QED
      BY <1>2, <1>6, <1>8, FreeRefFacts
  <1>10. b \in Seq(Tokens)
    <2>1. "protos" \in Kinds
      BY DEF Kinds
    <2> QED
      BY <2>1, BlockToken
  <1> HIDE DEF tt, b, x, v
  <1>11. Occurrences(FlattenSeq(tt), x) > 0 /\ FlattenSeq(tt) \in Seq(Tokens)
    BY <1>2, <1>6, <1>7, <1>9, OnePart
  <1>12. Occurrences(FreeProtos(ctx), x) = Occurrences(FlattenSeq(tt), x) + Occurrences(b, x)
    BY <1>4, <1>10, <1>11, OccSum
  <1>13. Occurrences(FreeProtos(ctx), x) > 0
    BY <1>10, <1>11, <1>12, OccNat
  <1>14. /\ Occurrences(FreeContext(ctx), x)
               = Occurrences(FreeStrs(ctx), x) + Occurrences(FreeTypes(ctx), x)
                   + Occurrences(FreeProtos(ctx), x) + Occurrences(FreeRawFields(ctx), x)
                   + Occurrences(FreeRawMethods(ctx), x) + Occurrences(FreeClasses(ctx), x)
         /\ Occurrences(FreeStrs(ctx), x) \in Nat /\ Occurrences(FreeTypes(ctx), x) \in Nat
         /\ Occurrences(FreeProtos(ctx), x) \in Nat /\ Occurrences(FreeRawFields(ctx), x) \in Nat
         /\ Occurrences(FreeRawMethods(ctx), x) \in Nat /\ Occurrences(FreeClasses(ctx), x) \in Nat
    BY ContextSum, OccNat DEF Parts
  <1>15. Occurrences(FreeContext(ctx), x) > 0
    BY <1>13, <1>14
  <1> QED
    BY <1>15 DEF x

(* The release of the context, after which the file keeps what it shares   *)
(* with it.                                                                *)
LEMMA ReleaseContextStep ==
  ASSUME NullApart, NEW exact, IInv(exact), ReleaseContext
  PROVE  IInv(exact)'
  <1> DEFINE e == <<EmptyStr>>
             fc == FreeContext(ctx)
             fd == FreeDexFile(dex)
             tr == TableRefs(dex)
             co == ContentsOf(protos, DOMAIN protos)
             L == LastRefs(fc)
             A == Alive'
             gone == ContentsOf(protos, L)
             kept == ContentsOf(protos, A)
  <1>1. /\ pc = "release" /\ Release(fc, "done") /\ ctx' = NoContext
        /\ UNCHANGED <<file, protos, metadata, class, members, idx, dex>>
    BY DEF ReleaseContext
  <1>2. Common /\ AtRelease(exact) /\ ProtosNamed
    BY <1>1 DEF IInv, Phase
  <1>3. ContentLists(protos) /\ IsABag(held)
    BY <1>2 DEF Common, ContentLists
  <1>4. Parts(ctx, metadata, protos) /\ DexParts(dex) /\ Owes(Left(ctx, dex, protos), held, exact)
    BY <1>2 DEF AtRelease, Left
  <1>5. /\ e \in Seq(Tokens) /\ fc \in Seq(Tokens) /\ fd \in Seq(Tokens) /\ tr \in Seq(Tokens)
        /\ co \in Seq(Tokens) /\ gone \in Seq(Tokens) /\ kept \in Seq(Tokens)
    BY <1>3, <1>4, EmptyStrToken, ContentsFacts, ContextSum DEF Parts, DexParts
  <1>6. L \in SUBSET (DOMAIN protos) /\ A \in SUBSET (DOMAIN protos)
    BY <1>1, LastRefsSome DEF Alive
  <1>7. \A x : /\ Occurrences(e, x) + Occurrences(fc, x) + Occurrences(fd, x)
                    + Occurrences(tr, x) + Occurrences(co, x) <= Copies(x, held)
               /\ exact => Occurrences(e, x) + Occurrences(fc, x) + Occurrences(fd, x)
                             + Occurrences(tr, x) + Occurrences(co, x) = Copies(x, held)
    BY <1>3, <1>4, LeftSum DEF Owes
  <1>8. \A x : Occurrences(gone, x) <= Occurrences(co, x)
    BY <1>3, <1>6, ContentsPart
  <1>9. ASSUME NEW x
        PROVE  /\ Occurrences(e, x) \in Nat /\ Occurrences(fc, x) \in Nat /\ Occurrences(fd, x) \in Nat
               /\ Occurrences(tr, x) \in Nat /\ Occurrences(co, x) \in Nat
               /\ Occurrences(gone, x) \in Nat /\ Occurrences(kept, x) \in Nat
               /\ Copies(x, held) \in Nat
    BY <1>3, <1>5, OccNat, BagCopies
  <1>10. \A p : Occurrences(gone, Proto(p)) = 0
    BY <1>3, ContentsFacts
  <1>11. \A p \in DOMAIN protos : p \in L <=> /\ Occurrences(fc, Proto(p)) > 0
                                              /\ Occurrences(fc, Proto(p)) = Copies(Proto(p), held)
    BY <1>5, LastRefsFacts
  <1>12. \A p \in DOMAIN protos : p \in A <=> Copies(Proto(p), held') > 0
    BY <1>1 DEF Alive
  <1>13. \A p \in DOMAIN protos : protos[p] # << >> => Occurrences(fc, Proto(p)) > 0
    BY <1>2, <1>3, <1>4, NamedInContext
  <1>14. gone = ContentsOf(protos, LastRefs(fc))
    OBVIOUS
  <1> HIDE DEF e, fc, fd, tr, co, L, A, gone, kept
  <1>15. \A x : Occurrences(fc, x) + Occurrences(gone, x) <= Copies(x, held)
    <2>1. ASSUME NEW x PROVE Occurrences(fc, x) + Occurrences(gone, x) <= Copies(x, held)
      BY <1>7, <1>8, <1>9
    <2> QED
      BY <2>1
  <1>16. /\ pc' = "done" /\ IsABag(held')
         /\ \A x : Copies(x, held') + (Occurrences(fc, x) + Occurrences(gone, x)) = Copies(x, held)
    BY <1>1, <1>3, <1>5, <1>14, <1>15, ReleaseDone
  <1>17. L \cap A = {}
    <2>1. ASSUME NEW p \in L, p \in A PROVE FALSE
      <3> DEFINE x == Proto(p)
      <3>1. p \in DOMAIN protos
        BY <1>6
      <3>2. Occurrences(fc, x) = Copies(x, held) /\ Copies(x, held') > 0 /\ Occurrences(gone, x) = 0
        BY <1>10, <1>11, <1>12, <2>1, <3>1
      <3> HIDE DEF x
      <3>3. Copies(x, held') + (Occurrences(fc, x) + Occurrences(gone, x)) = Copies(x, held)
        BY <1>16
      <3>4. Copies(x, held') \in Nat /\ Copies(x, held) \in Nat
        BY <1>9, <1>16, BagCopies
      <3> QED
        BY <3>2, <3>3, <3>4
    <2> QED
      BY <2>1
  <1>18. ContentsOf(protos, L \cup A) = co
    <2>1. ASSUME NEW p \in DOMAIN protos, protos[p] # << >> PROVE p \in L \cup A
      <3> DEFINE x == Proto(p)
      <3>1. Occurrences(fc, x) > 0 /\ Occurrences(gone, x) = 0
        BY <1>10, <1>13, <2>1
      <3>2. CASE Occurrences(fc, x) = Copies(x, held)
        BY <1>11, <3>1, <3>2
      <3>3. CASE Occurrences(fc, x) # Copies(x, held)
        <4>1. Copies(x, held') + (Occurrences(fc, x) + Occurrences(gone, x)) = Copies(x, held)
          BY <1>16
        <4>2. Copies(x, held') \in Nat /\ Copies(x, held) \in Nat /\ Occurrences(fc, x) \in Nat
          BY <1>9, <1>16, BagCopies
        <4> HIDE DEF x
        <4>3. Copies(x, held') > 0
          BY <3>1, <3>3, <4>1, <4>2
        <4> QED
          BY <1>12, <4>3 DEF x
      <3> QED
        BY <3>2, <3>3
    <2> DEFINE B == L \cup A
    <2>2. B \in SUBSET (DOMAIN protos) /\ \A p \in DOMAIN protos : protos[p] # << >> => p \in B
      BY <1>6, <2>1
    <2> HIDE DEF B
    <2>3. ContentsOf(protos, B) = ContentsOf(protos, DOMAIN protos)
      BY <1>3, <2>2, ContentsPart
    <2> QED
      BY <2>3 DEF B, co
  <1>19. \A x : Occurrences(co, x) = Occurrences(gone, x) + Occurrences(kept, x)
    BY <1>3, <1>17, <1>18, ContentsSplit DEF gone, kept
  <1> DEFINE left == Kept(dex, protos, A)
  <1>20. left \in Seq(Tokens)
         /\ \A x : Occurrences(left, x) = Occurrences(e, x) + Occurrences(fd, x) + Occurrences(tr, x) + Occurrences(kept, x)
    BY <1>3, <1>4, KeptSum DEF e, fd, tr, kept
  <1> HIDE DEF left
  <1>21. ASSUME NEW x
         PROVE  /\ Occurrences(left, x) <= Copies(x, held')
                /\ exact => Occurrences(left, x) = Copies(x, held')
    <2> DEFINE oe == Occurrences(e, x)
               oc == Occurrences(fc, x)
               od == Occurrences(fd, x)
               ot == Occurrences(tr, x)
               oo == Occurrences(co, x)
               og == Occurrences(gone, x)
               ok == Occurrences(kept, x)
               ol == Occurrences(left, x)
               h == Copies(x, held)
               h2 == Copies(x, held')
    <2>1. /\ oe + oc + od + ot + oo <= h
          /\ exact => oe + oc + od + ot + oo = h
      BY <1>7
    <2>2. h2 + (oc + og) = h /\ oo = og + ok /\ ol = oe + od + ot + ok
      BY <1>16, <1>19, <1>20
    <2>3. /\ oe \in Nat /\ oc \in Nat /\ od \in Nat /\ ot \in Nat /\ oo \in Nat /\ og \in Nat /\ ok \in Nat
          /\ h \in Nat /\ h2 \in Nat
      BY <1>9, <1>16, BagCopies
    <2> HIDE DEF oe, oc, od, ot, oo, og, ok, ol, h, h2
    <2>4. ol <= h2
      BY <2>1, <2>2, <2>3
    <2>5. oe + oc + od + ot + oo = h => ol = h2
      BY <2>2, <2>3
    <2>6. exact => ol = h2
      BY <2>1, <2>5
    <2> QED
      BY <2>4, <2>6 DEF ol, h2
  <1>22. Owes(left, held', exact)
    BY <1>16, <1>20, <1>21 DEF Owes
  <1>23. AtDone(exact)'
    BY <1>1, <1>4, <1>22 DEF AtDone, left, Kept, A
  <1>24. Common'
    <2>1. Context(NoContext)
      BY DEF Context, NoContext
    <2> QED
      BY <1>1, <1>2, <1>16, <2>1 DEF Common, Endings
  <1> QED
    BY <1>16, <1>23, <1>24 DEF IInv, Phase, ClassSteps, MemberLists, Endings

(* The empty string is no prototype.                                       *)
LEMMA EmptyStrApart ==
  /\ \A p : Occurrences(<<EmptyStr>>, Proto(p)) = 0
  /\ \A x : Occurrences(<<EmptyStr>>, x) \in Nat
  <1>1. ASSUME NEW p PROVE Occurrences(<<EmptyStr>>, Proto(p)) = 0
    <2>1. Proto(p) # EmptyStr
      BY DEF Proto, EmptyStr
    <2> DEFINE x == Proto(p)
               y == EmptyStr
    <2>2. x # y
      BY <2>1
    <2> HIDE DEF x, y
    <2>3. Occurrences(<<y>>, x) = 0
      BY <2>2, OccOne
    <2> QED
      BY <2>3 DEF x, y
  <1> QED
    BY <1>1, OccNat, EmptyStrToken

(* The release after a failure.                                            *)
LEMMA ReleaseFailedStep ==
  ASSUME NullApart, NEW exact, IInv(exact), ReleaseFailed
  PROVE  IInv(exact)'
  <1> DEFINE e == <<EmptyStr>>
             fc == FreeContext(ctx)
             me == FreeOdexData(metadata)
             fr == fc \o me
             co == ContentsOf(protos, DOMAIN protos)
             L == LastRefs(fr)
             gone == ContentsOf(protos, L)
  <1>1. /\ pc = "failed" /\ Release(fr, "null") /\ ctx' = NoContext /\ metadata' = NULL
        /\ UNCHANGED <<file, protos, class, members, idx, dex>>
    BY DEF ReleaseFailed
  <1>2. Common /\ AtReading(exact) /\ ProtosNamed
    BY <1>1 DEF IInv, Phase, Endings
  <1>3. ContentLists(protos) /\ IsABag(held)
    BY <1>2 DEF Common, ContentLists
  <1>4. Parts(ctx, metadata, protos) /\ Owes(Debt(ctx, metadata, protos), held, exact)
    BY <1>2 DEF AtReading
  <1>5. /\ e \in Seq(Tokens) /\ fc \in Seq(Tokens) /\ me \in Seq(Tokens)
        /\ co \in Seq(Tokens) /\ gone \in Seq(Tokens)
    BY <1>3, <1>4, EmptyStrToken, ContentsFacts, ContextSum DEF Parts
  <1>6. L \in SUBSET (DOMAIN protos)
    BY LastRefsSome
  <1>7. \A x : /\ Occurrences(e, x) + Occurrences(fc, x) + Occurrences(me, x)
                    + Occurrences(co, x) <= Copies(x, held)
               /\ exact => Occurrences(e, x) + Occurrences(fc, x) + Occurrences(me, x)
                             + Occurrences(co, x) = Copies(x, held)
    BY <1>4, DebtSum DEF Owes
  <1>8. \A x : Occurrences(gone, x) <= Occurrences(co, x)
    BY <1>3, <1>6, ContentsPart
  <1>9. ASSUME NEW x
        PROVE  /\ Occurrences(e, x) \in Nat /\ Occurrences(fc, x) \in Nat /\ Occurrences(me, x) \in Nat
               /\ Occurrences(co, x) \in Nat
               /\ Occurrences(gone, x) \in Nat /\ Copies(x, held) \in Nat
    BY <1>3, <1>5, OccNat, BagCopies
  <1>10. \A p : Occurrences(co, Proto(p)) = 0
    BY <1>3, ContentsFacts
  <1>13. \A p \in DOMAIN protos : protos[p] # << >> => Occurrences(fc, Proto(p)) > 0
    BY <1>2, <1>3, <1>4, NamedInContext
  <1>14. gone = ContentsOf(protos, LastRefs(fr))
    OBVIOUS
  <1>20. \A p : Occurrences(e, Proto(p)) = 0
    BY EmptyStrApart
  <1> HIDE DEF e, fc, me, co, L, gone
  <1>21. fr \in Seq(Tokens) /\ \A x : Occurrences(fr, x) = Occurrences(fc, x) + Occurrences(me, x)
    BY <1>5, OccSum
  <1> HIDE DEF fr
  <1>11. \A p \in DOMAIN protos : p \in L <=> /\ Occurrences(fr, Proto(p)) > 0
                                              /\ Occurrences(fr, Proto(p)) = Copies(Proto(p), held)
    BY <1>21, LastRefsFacts DEF L
  <1>15. \A x : Occurrences(fr, x) + Occurrences(gone, x) <= Copies(x, held)
    <2>1. ASSUME NEW x PROVE Occurrences(fr, x) + Occurrences(gone, x) <= Copies(x, held)
      BY <1>7, <1>8, <1>9, <1>21
    <2> QED
      BY <2>1
  <1>16. /\ pc' = "null" /\ IsABag(held')
         /\ \A x : Copies(x, held') + (Occurrences(fr, x) + Occurrences(gone, x)) = Copies(x, held)
    BY <1>1, <1>3, <1>14, <1>15, <1>21, ReleaseDone
  <1>17. ASSUME exact PROVE FailureReleasesAll'
    <2>1. ASSUME NEW p \in DOMAIN protos, protos[p] # << >> PROVE p \in L
      <3> DEFINE x == Proto(p)
      <3>1. /\ Occurrences(fc, x) > 0 /\ Occurrences(co, x) = 0 /\ Occurrences(e, x) = 0
        BY <1>10, <1>13, <1>20, <2>1
      <3> HIDE DEF x
      <3>2. /\ Occurrences(e, x) + Occurrences(fc, x) + Occurrences(me, x)
                             + Occurrences(co, x) = Copies(x, held)
            /\ Occurrences(fr, x) = Occurrences(fc, x) + Occurrences(me, x)
        BY <1>7, <1>17, <1>21
      <3>3. Occurrences(fr, x) > 0 /\ Occurrences(fr, x) = Copies(x, held)
        BY <1>9, <3>1, <3>2
      <3> QED
        BY <1>11, <3>3 DEF x
    <2>2. gone = co
      BY <1>3, <1>6, <2>1, ContentsPart DEF gone, co
    <2> DEFINE b == BagOf(e)
    <2>3. IsABag(b) /\ \A x : Copies(x, b) = Occurrences(e, x)
      BY <1>5, BagOfFacts
    <2> HIDE DEF b
    <2>4. \A x : Copies(x, held') = Copies(x, b)
      <3>1. ASSUME NEW x PROVE Copies(x, held') = Occurrences(e, x)
        <4> DEFINE oe == Occurrences(e, x)
                   oc == Occurrences(fc, x)
                   om == Occurrences(me, x)
                   oo == Occurrences(co, x)
                   h == Copies(x, held)
                   h2 == Copies(x, held')
        <4>1. oe + oc + om + oo = h
          BY <1>7, <1>17
        <4>2. h2 + ((oc + om) + oo) = h
          BY <1>16, <1>21, <2>2
        <4>3. oe \in Nat /\ oc \in Nat /\ om \in Nat /\ oo \in Nat /\ h \in Nat /\ h2 \in Nat
          BY <1>9, <1>16, BagCopies
        <4> HIDE DEF oe, oc, om, oo, h, h2
        <4>4. h2 = oe
          BY <4>1, <4>2, <4>3
        <4> QED
          BY <4>4 DEF h2, oe
      <3> QED
        BY <2>3, <3>1
    <2>5. held' = b
      BY <1>16, <2>3, <2>4, BagEqual
    <2> QED
      BY <2>5 DEF FailureReleasesAll, b, e
  <1>24. Common'
    <2>1. Context(NoContext)
      BY DEF Context, NoContext
    <2> QED
      BY <1>1, <1>2, <1>16, <2>1 DEF Common, Endings, Metadata
  <1> QED
    BY <1>16, <1>17, <1>24 DEF IInv, Phase, ClassSteps, MemberLists, Endings

(* The release of the file by its caller.                                  *)
LEMMA FreeFileStep ==
  ASSUME NullApart, NEW exact, IInv(exact), FreeFile
  PROVE  IInv(exact)'
  <1> DEFINE e == <<EmptyStr>>
             fd == FreeDexFile(dex)
             tr == TableRefs(dex)
             co == ContentsOf(protos, Alive)
             L == LastRefs(fd)
             gone == ContentsOf(protos, L)
             T == {p \in DOMAIN protos : Proto(p) \in ToSet(tr)}
             rest == ContentsOf(protos, T)
  <1>1. /\ pc = "done" /\ Release(fd, "freed")
        /\ UNCHANGED <<file, ctx, protos, metadata, class, members, idx, dex>>
    BY DEF FreeFile
  <1>2. Common /\ AtDone(exact)
    BY <1>1 DEF IInv, Phase
  <1>3. ContentLists(protos) /\ IsABag(held)
    BY <1>2 DEF Common, ContentLists
  <1>4. DexParts(dex) /\ Owes(Kept(dex, protos, Alive), held, exact)
    BY <1>2 DEF AtDone, Kept
  <1>5. /\ e \in Seq(Tokens) /\ fd \in Seq(Tokens) /\ tr \in Seq(Tokens)
        /\ co \in Seq(Tokens) /\ gone \in Seq(Tokens) /\ rest \in Seq(Tokens)
    BY <1>3, <1>4, EmptyStrToken, ContentsFacts DEF DexParts
  <1>6. L \in SUBSET (DOMAIN protos) /\ Alive \in SUBSET (DOMAIN protos)
    BY LastRefsSome DEF Alive
  <1>7. \A x : /\ Occurrences(e, x) + Occurrences(fd, x) + Occurrences(tr, x)
                    + Occurrences(co, x) <= Copies(x, held)
               /\ exact => Occurrences(e, x) + Occurrences(fd, x) + Occurrences(tr, x)
                             + Occurrences(co, x) = Copies(x, held)
    BY <1>3, <1>4, KeptSum DEF Owes
  <1>9. ASSUME NEW x
        PROVE  /\ Occurrences(e, x) \in Nat /\ Occurrences(fd, x) \in Nat /\ Occurrences(tr, x) \in Nat
               /\ Occurrences(co, x) \in Nat /\ Occurrences(rest, x) \in Nat
               /\ Occurrences(gone, x) \in Nat /\ Copies(x, held) \in Nat
    BY <1>3, <1>5, OccNat, BagCopies
  <1>10. \A p : Occurrences(co, Proto(p)) = 0
    BY <1>3, ContentsFacts
  <1>11. \A p \in DOMAIN protos : p \in L <=> /\ Occurrences(fd, Proto(p)) > 0
                                              /\ Occurrences(fd, Proto(p)) = Copies(Proto(p), held)
    BY <1>5, LastRefsFacts
  <1>12. \A p \in DOMAIN protos : p \in Alive <=> Copies(Proto(p), held) > 0
    BY DEF Alive
  <1>13. \A p \in DOMAIN protos : p \in T <=> Occurrences(tr, Proto(p)) > 0
    <2>1. ASSUME NEW p \in DOMAIN protos PROVE p \in T <=> Occurrences(tr, Proto(p)) > 0
      <3> DEFINE x == Proto(p)
      <3>1. p \in T <=> x \in ToSet(tr)
        OBVIOUS
      <3>2. tr \in Seq(Tokens)
        BY <1>5
      <3> HIDE DEF x, tr, T
      <3>3. x \in ToSet(tr) <=> Occurrences(tr, x) > 0
        BY <3>2, OccIn
      <3> QED
        BY <3>1, <3>3 DEF x
    <2> QED
      BY <2>1
  <1>14. gone = ContentsOf(protos, LastRefs(fd)) /\ T \in SUBSET (DOMAIN protos)
    OBVIOUS
  <1>20. \A p : Occurrences(e, Proto(p)) = 0
    BY EmptyStrApart
  <1>8. L \subseteq Alive
    <2>1. ASSUME NEW p \in L PROVE p \in Alive
      <3>1. p \in DOMAIN protos
        BY <1>6
      <3>2. Occurrences(fd, Proto(p)) > 0 /\ Occurrences(fd, Proto(p)) = Copies(Proto(p), held)
        BY <1>11, <2>1, <3>1
      <3> QED
        BY <1>12, <3>1, <3>2
    <2> QED
      BY <2>1
  <1> DEFINE R == Alive \ L
             kept == ContentsOf(protos, R)
  <1>18. L \cap R = {} /\ L \cup R = Alive
    BY <1>8
  <1>19. \A x : Occurrences(co, x) = Occurrences(gone, x) + Occurrences(kept, x)
    <2> HIDE DEF R
    <2>1. \A x : Occurrences(ContentsOf(protos, L \cup R), x) = Occurrences(gone, x) + Occurrences(kept, x)
      BY <1>3, <1>18, ContentsSplit
    <2> QED
      BY <1>18, <2>1
  <1>22. kept \in Seq(Tokens)
    BY <1>3, ContentsFacts
  <1>23. \A x : Occurrences(kept, x) \in Nat
    BY <1>22, OccNat
  <1> HIDE DEF e, fd, tr, co, L, gone, T, rest, R, kept
  <1>15. \A x : Occurrences(fd, x) + Occurrences(gone, x) <= Copies(x, held)
    <2>1. ASSUME NEW x PROVE Occurrences(fd, x) + Occurrences(gone, x) <= Copies(x, held)
      BY <1>7, <1>9, <1>19, <1>23
    <2> QED
      BY <2>1
  <1>16. /\ pc' = "freed" /\ IsABag(held')
         /\ \A x : Copies(x, held') + (Occurrences(fd, x) + Occurrences(gone, x)) = Copies(x, held)
    BY <1>1, <1>3, <1>5, <1>14, <1>15, ReleaseDone
  <1>17. ASSUME exact PROVE OnlyTablesRemain'
    <2>1. R = T
      <3>1. ASSUME NEW p \in DOMAIN protos PROVE p \in R <=> p \in T
        <4> DEFINE x == Proto(p)
                   od == Occurrences(fd, x)
                   ot == Occurrences(tr, x)
                   h == Copies(x, held)
        <4>1. /\ Occurrences(e, x) = 0 /\ Occurrences(co, x) = 0
              /\ Occurrences(e, x) + od + ot + Occurrences(co, x) = h
          BY <1>7, <1>10, <1>17, <1>20
        <4>2. od \in Nat /\ ot \in Nat /\ h \in Nat
          BY <1>9
        <4>3. (p \in L <=> od > 0 /\ od = h) /\ (p \in Alive <=> h > 0) /\ (p \in T <=> ot > 0)
          BY <1>11, <1>12, <1>13
        <4>4. p \in R <=> p \in Alive /\ p \notin L
          BY DEF R
        <4> HIDE DEF x, od, ot, h
        <4>5. h = od + ot
          BY <4>1, <4>2
        <4> QED
          BY <4>2, <4>3, <4>4, <4>5
      <3>2. R \in SUBSET (DOMAIN protos)
        BY <1>6 DEF R
      <3> QED
        BY <1>14, <3>1, <3>2
    <2> DEFINE left == e \o tr \o rest
               b == BagOf(left)
    <2>2. kept = rest
      BY <2>1 DEF kept, rest
    <2>3. left \in Seq(Tokens) /\ \A x : Occurrences(left, x) = Occurrences(e, x) + Occurrences(tr, x) + Occurrences(rest, x)
      BY <1>5, Chain3
    <2> HIDE DEF left
    <2>4. IsABag(b) /\ \A x : Copies(x, b) = Occurrences(left, x)
      BY <2>3, BagOfFacts
    <2> HIDE DEF b
    <2>5. \A x : Copies(x, held') = Copies(x, b)
      <3>1. ASSUME NEW x PROVE Copies(x, held') = Occurrences(left, x)
        <4> DEFINE oe == Occurrences(e, x)
                   od == Occurrences(fd, x)
                   ot == Occurrences(tr, x)
                   oo == Occurrences(co, x)
                   og == Occurrences(gone, x)
                   ok == Occurrences(kept, x)
                   ol == Occurrences(left, x)
                   h == Copies(x, held)
                   h2 == Copies(x, held')
        <4>1. oe + od + ot + oo = h /\ oo = og + ok
          BY <1>7, <1>17, <1>19
        <4>2. h2 + (od + og) = h /\ ol = oe + ot + ok
          BY <1>16, <2>2, <2>3
        <4>3. oe \in Nat /\ od \in Nat /\ ot \in Nat /\ og \in Nat /\ ok \in Nat /\ h \in Nat /\ h2 \in Nat
          BY <1>9, <1>16, <1>23, BagCopies
        <4> HIDE DEF oe, od, ot, oo, og, ok, ol, h, h2
        <4>4. h2 = ol
          BY <4>1, <4>2, <4>3
        <4> QED
          BY <4>4 DEF h2, ol
      <3> QED
        BY <2>4, <3>1
    <2>6. held' = b
      BY <1>16, <2>4, <2>5, BagEqual
    <2>7. rest = Contents({p \in DOMAIN protos : Proto(p) \in ToSet(tr)})
      BY DEF Contents, ContentsOf, FreeList, rest, T
    <2>8. held' = BagOf(<<EmptyStr>> \o TableRefs(dex)
                          \o Contents({p \in DOMAIN protos : Proto(p) \in ToSet(TableRefs(dex))}))
      BY <2>6, <2>7 DEF b, left, e, tr
    <2>9. ASSUME NEW ps PROVE Contents(ps)' = Contents(ps)
      BY <1>1 DEF Contents, Before
    <2>10. TableRefs(dex)' = TableRefs(dex) /\ (DOMAIN protos)' = DOMAIN protos
      BY <1>1 DEF TableRefs
    <2>11. Contents({p \in DOMAIN protos : Proto(p) \in ToSet(TableRefs(dex))})'
             = Contents({p \in DOMAIN protos : Proto(p) \in ToSet(TableRefs(dex))})
      BY <1>1, <2>9, <2>10
    <2> QED
      BY <1>1, <2>8, <2>10, <2>11 DEF OnlyTablesRemain
  <1>24. Common'
    BY <1>1, <1>2, <1>16 DEF Common, Endings
  <1> QED
    BY <1>16, <1>17, <1>24 DEF IInv, Phase, ClassSteps, MemberLists, Endings

(* What the theorems suppose of a file.                                    *)
Good(f, exact) == Valued(f) /\ FileSurvives(f) /\ (exact => Clean(f))

(* The invariant while any of the files is read.                           *)
FilesInv(exact) == file \in DexFiles /\ IInv(exact)

(* A step that changes nothing.                                            *)
LEMMA EndedStep ==
  ASSUME NEW exact, IInv(exact), UNCHANGED vars
  PROVE  IInv(exact)'
<1> USE DEF vars
<1>1. Common'
  <2>1. Context(ctx)' = Context(ctx) /\ Metadata(metadata)' = Metadata(metadata)
    OBVIOUS
  <2> QED
    BY <2>1 DEF IInv, Common
<1>2. /\ UNCHANGED <<ctx, protos, metadata, held, dex, file, class, members, idx, pc>>
      /\ This' = This /\ cl' = cl
  BY DEF This, cl
<1> HIDE DEF vars
<1>3. /\ (AtTypes)' = AtTypes /\ (AtProtos)' = AtProtos /\ AtFields' = AtFields /\ AtMethods' = AtMethods
      /\ AtClasses' = AtClasses /\ AtMove' = AtMove
  BY <1>2 DEF AtTypes, AtProtos, AtFields, AtMethods, AtClasses, AtMove, Unset, StrsLoaded, TypesLoaded,
     ProtosLoaded, FieldsLoaded, MethodsLoaded
<1>4. AtClass(exact)' = AtClass(exact) /\ AtMember' = AtMember
  BY <1>2 DEF AtClass, AtMember
<1>5. AtReading(exact)' = AtReading(exact) /\ ProtosNamed' = ProtosNamed
  BY <1>2 DEF AtReading, ProtosNamed
<1>6. AtRelease(exact)' = AtRelease(exact)
  BY <1>2 DEF AtRelease
<1>7. Alive' = Alive
  BY <1>2 DEF Alive
<1>8. AtDone(exact)' = AtDone(exact)
  BY <1>2, <1>7 DEF AtDone
<1>9. FailureReleasesAll' = FailureReleasesAll
  BY <1>2 DEF FailureReleasesAll
<1>10. ASSUME NEW ps PROVE Contents(ps)' = Contents(ps)
  BY <1>2 DEF Contents, Before
<1>11. Contents({p \in DOMAIN protos : Proto(p) \in ToSet(TableRefs(dex))})'
         = Contents({p \in DOMAIN protos : Proto(p) \in ToSet(TableRefs(dex))})
  BY <1>2, <1>10
<1>12. OnlyTablesRemain' = OnlyTablesRemain
  BY <1>2, <1>11 DEF OnlyTablesRemain
<1>13. Empty' = Empty
  BY <1>2 DEF Empty
<1> QED
  BY <1>1, <1>2, <1>3, <1>4, <1>5, <1>6, <1>8, <1>9, <1>12, <1>13 DEF IInv, Phase

(* Every step of the reader keeps the invariant.                           *)
LEMMA NextStep ==
  ASSUME NullApart, NEW exact, \A f \in DexFiles : Good(f, exact), FilesInv(exact), [Next]_vars
  PROVE  FilesInv(exact)'
<1>1. file \in DexFiles /\ IInv(exact)
  BY DEF FilesInv
<1>2. Valued(file) /\ FileSurvives(file) /\ (exact => Clean(file))
  BY <1>1 DEF Good
<1>3. file' = file
  BY DEF Next, vars, ReadHeaders, ReadSections, ReadClasses, ReadOdexHeader, NoOdexHeader, ReadHeader,
     ReadStrings, ReadTypes, ReadProtos, ReadFields, ReadMethods, Section, AllocClasses, ReadClass,
     NoDirectory, ReadDirectory, ReadInterfaces, NoClassData, OpenClassData, OpenList, NextList,
     ReadMember, ReadStaticValues, MoveToFile, ReleaseContext, ReleaseFailed, FreeFile, Ended
<1>4. CASE UNCHANGED vars
  BY <1>1, <1>3, <1>4, EndedStep DEF FilesInv
<1>5. CASE ReadHeaders
  BY <1>1, <1>2, <1>3, <1>5, ReadOdexHeaderStep, NoOdexHeaderStep, ReadHeaderStep DEF ReadHeaders, FilesInv
<1>6. CASE ReadSections
  BY <1>1, <1>2, <1>3, <1>6, ReadStringsStep, ReadTypesStep, ReadProtosStep, ReadFieldsStep, ReadMethodsStep,
     AllocClassesStep DEF ReadSections, FilesInv
<1>7. CASE ReadClasses
  BY <1>1, <1>2, <1>3, <1>7, ReadClassStep, NoDirectoryStep, ReadDirectoryStep, ReadInterfacesStep,
     NoClassDataStep, OpenClassDataStep, NextListStep, ReadMemberStep, ReadStaticValuesStep
     DEF ReadClasses, FilesInv
<1>8. CASE MoveToFile
  BY <1>1, <1>2, <1>3, <1>8, MoveToFileStep DEF FilesInv
<1>9. CASE ReleaseContext \/ ReleaseFailed \/ FreeFile
  BY <1>1, <1>3, <1>9, ReleaseContextStep, ReleaseFailedStep, FreeFileStep DEF FilesInv
<1>10. CASE Ended
  BY <1>4, <1>10 DEF Ended
<1> QED
  BY <1>4, <1>5, <1>6, <1>7, <1>8, <1>9, <1>10 DEF Next

(* The invariant has the type invariant in it, and that the program is not *)
(* lost.                                                                   *)
LEMMA InvTypes ==
  ASSUME NEW exact, IInv(exact)
  PROVE  TypeOK /\ NoCrash
<1>1. Common
  BY DEF IInv
<1>2. DOMAIN ctx = DOMAIN NoContext
  BY <1>1 DEF Common, Context, NoContext
<1>3. metadata # NULL => DOMAIN metadata = DOMAIN ZeroOdex
  BY <1>1 DEF Common, Metadata, ZeroOdex
<1>4. pc \in ToSet(Lists) => pc \in MemberLists
  BY DEF Lists, ToSet, MemberLists
<1>5. ASSUME pc \in ToSet(Lists) PROVE members <= Len(This[pc])
  <2>1. AtMember
    BY <1>4, <1>5 DEF IInv, Phase
  <2> QED
    BY <2>1 DEF AtMember, FieldList, MethodList
<1> QED
  BY <1>1, <1>2, <1>3, <1>5 DEF Common, TypeOK, NoCrash, Endings, Steps, Lists, ToSet

(* The exact invariant has in it that all is released.                     *)
LEMMA InvReleases ==
  ASSUME IInv(TRUE)
  PROVE  FailureReleasesAll /\ OnlyTablesRemain
<1>1. CASE pc = "null"
  BY <1>1 DEF IInv, Phase, OnlyTablesRemain
<1>2. CASE pc = "freed"
  BY <1>2 DEF IInv, Phase, FailureReleasesAll
<1> QED
  BY <1>1, <1>2 DEF FailureReleasesAll, OnlyTablesRemain

(* The invariant holds before the first read.                              *)
LEMMA InitHolds ==
  ASSUME NullApart, NEW exact, \A f \in DexFiles : Good(f, exact), Init
  PROVE  FilesInv(exact)
<1>1. Context(NoContext)
  BY DEF NoContext, Context
<1>2. FreeOdexData(NULL) = << >> /\ ContentsOf(<< >>, DOMAIN << >>) = << >>
  BY NoContents DEF FreeOdexData
<1>3. /\ FreeStrs(NoContext) = << >> /\ FreeTypes(NoContext) = << >> /\ FreeProtos(NoContext) = << >>
      /\ FreeRawFields(NoContext) = << >> /\ FreeRawMethods(NoContext) = << >>
      /\ FreeClasses(NoContext) = << >>
  BY NullTables DEF FreeStrs, FreeTypes, FreeProtos, FreeRawFields, FreeRawMethods, FreeClasses, NoContext
<1>4. << >> \in Seq(Tokens) /\ \A x : Occurrences(<< >>, x) = 0
  BY EmptySeq, OccEmpty
<1>5. Parts(NoContext, NULL, << >>)
  BY <1>2, <1>3, <1>4 DEF Parts
<1>6. Owes(Debt(NoContext, NULL, << >>), BagOf(<<EmptyStr>>), exact)
  <2> DEFINE debt == Debt(NoContext, NULL, << >>)
             one == <<EmptyStr>>
             bag == BagOf(one)
  <2>1. debt \in Seq(Tokens) /\ \A x : Occurrences(debt, x) = Weight(NoContext, NULL, << >>, x)
    BY <1>5, DebtWeight
  <2>2. one \in Seq(Tokens) /\ \A x : Occurrences(one, x) \in Nat
    BY EmptyStrToken, EmptyStrApart
  <2>3. \A x : Weight(NoContext, NULL, << >>, x) = Occurrences(one, x)
    BY <1>2, <1>3, <1>4, <2>2 DEF Weight, TablesWeight
  <2>4. IsABag(bag) /\ \A x : Copies(x, bag) = Occurrences(one, x)
    BY <2>2, BagOfFacts
  <2> HIDE DEF debt, one, bag
  <2>5. Owes(debt, bag, exact)
    BY <2>1, <2>2, <2>3, <2>4 DEF Owes
  <2> QED
    BY <2>5 DEF debt, one, bag
<1>7. IsABag(held)
  BY <1>6 DEF Init, Owes
<1>8. Common
  <2>1. Metadata(NULL)
    BY DEF Metadata
  <2>2. IsList(<< >>) /\ Len(<< >>) = 0
    BY EmptyList
  <2>3. Len(file.protos) \in Nat /\ Len(file.classes) \in Nat
    <3>1. Valued(file)
      BY DEF Init, Good
    <3> QED
      BY <3>1 DEF Valued, FileShape, IsList
  <2>4. "odex" \in Steps
    BY DEF Steps
  <2> QED
    BY <1>1, <1>7, <2>1, <2>2, <2>3, <2>4 DEF Init, Common
<1>9. Phase(exact)
  BY <1>5, <1>6 DEF Init, Phase, Empty, AtReading, ProtosNamed, ClassSteps, MemberLists, Endings
<1> QED
  BY <1>8, <1>9 DEF Init, FilesInv, IInv

(* What is held covers the debt in every state, whatever the files hold.   *)
THEOREM ReadDexCovered ==
  ASSUME NullApart, \A f \in DexFiles : Valued(f) /\ FileSurvives(f)
  PROVE  Spec => []FilesInv(FALSE)
<1>1. \A f \in DexFiles : Good(f, FALSE)
  BY DEF Good
<1>2. Init => FilesInv(FALSE)
  BY <1>1, InitHolds
<1>3. FilesInv(FALSE) /\ [Next]_vars => FilesInv(FALSE)'
  BY <1>1, NextStep
<1> QED
  BY <1>2, <1>3, PTL DEF Spec

(* With files in which no structure forgets what was acquired for it, what *)
(* is held is the debt in every state.                                     *)
THEOREM ReadDexExact ==
  ASSUME NullApart, \A f \in DexFiles : Clean(f) /\ FileSurvives(f)
  PROVE  Spec => []FilesInv(TRUE)
<1>1. \A f \in DexFiles : Good(f, TRUE)
  BY DEF Good, Clean, Valued
<1>2. Init => FilesInv(TRUE)
  BY <1>1, InitHolds
<1>3. FilesInv(TRUE) /\ [Next]_vars => FilesInv(TRUE)'
  BY <1>1, NextStep
<1> QED
  BY <1>2, <1>3, PTL DEF Spec

(* The type invariant of reading a file: the context and the members are   *)
(* within the tables that have been read.                                  *)
THEOREM ReadDexTypeCorrect ==
  ASSUME NullApart, \A f \in DexFiles : Valued(f) /\ FileSurvives(f)
  PROVE  Spec => []TypeOK
<1>1. FilesInv(FALSE) => TypeOK
  BY InvTypes DEF FilesInv
<1> QED
  BY <1>1, ReadDexCovered, PTL

(* Reading a file, good or bad, and freeing what was read releases nothing *)
(* that is not held and follows no pointer that was not set.               *)
THEOREM ReadDexNoCrash ==
  ASSUME NullApart, \A f \in DexFiles : Valued(f) /\ FileSurvives(f)
  PROVE  Spec => []NoCrash
<1>1. FilesInv(FALSE) => NoCrash
  BY InvTypes DEF FilesInv
<1> QED
  BY <1>1, ReadDexCovered, PTL

(* Wherever reading a file fails, all that was acquired for it has been    *)
(* released when dxc_read_file returns NULL.                               *)
THEOREM ReadDexFailureReleases ==
  ASSUME NullApart, \A f \in DexFiles : Clean(f) /\ FileSurvives(f)
  PROVE  Spec => []FailureReleasesAll
<1>1. FilesInv(TRUE) => FailureReleasesAll
  BY InvReleases DEF FilesInv
<1> QED
  BY <1>1, ReadDexExact, PTL

(* Once a file that was read is freed, nothing is left but its three       *)
(* tables, with the prototypes that they keep.                             *)
THEOREM ReadDexOnlyTablesRemain ==
  ASSUME NullApart, \A f \in DexFiles : Clean(f) /\ FileSurvives(f)
  PROVE  Spec => []OnlyTablesRemain
<1>1. FilesInv(TRUE) => OnlyTablesRemain
  BY InvReleases DEF FilesInv
<1> QED
  BY <1>1, ReadDexExact, PTL
=============================================================================
