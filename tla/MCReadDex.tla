------------------------------ MODULE MCReadDex ------------------------------
(***************************************************************************)
(* Files for TLC: two classes A and B that share strings, types and        *)
(* prototypes, A with any one feature or any one fault; B has members, and *)
(* the directory of each class may name members of the other.              *)
(***************************************************************************)
EXTENDS Wrapper, DexShape

(* dxc_read_value and dxc_free_value call themselves.                      *)
RECURSIVE MCFreeValue(_), MCReadValue(_, _)
MCFreeValue(v) == FreeValueOf(v, MCFreeValue)
MCReadValue(c, val) == ReadValueOf(c, val, MCReadValue)

Bad == 99   (* an index too large for every section *)

(* The strings are "LA;", "LB;", "I", "V", "f", "g", "m" and "", which is   *)
(* also a type.                                                            *)
sF == 5
sG == 6
sM == 7
sBlank == 8
MCEmptyTexts == {sBlank}
tA == 1
tB == 2
tInt == 3
tVoid == 4
tBlank == 5

StringVal(s) == [type |-> "string", idx |-> s]
RefVals(good) == {[type |-> t, idx |-> IF good THEN 1 ELSE Bad] : t \in RefTypes}
LeafVals == RefVals(TRUE) \cup {[type |-> "scalar"]}
BadVals == RefVals(FALSE) \cup {[type |-> "unreadable"]}
Ann(val) == [type |-> tB, parameters |-> <<[name |-> sG, value |-> StringVal(sF)],
                                           [name |-> sM, value |-> val]>>]
ArrayVal(val) == [type |-> "array", array |-> <<StringVal(sG), val>>]
AnnotationVal(val) == [type |-> "annotation", annotation |-> Ann(val)]
NestedVals == {ArrayVal(StringVal(sM)), AnnotationVal(ArrayVal([type |-> "method", idx |-> 2]))}
PlainAnns == <<Ann(StringVal(sF))>>
BadAnns ==
  {NULL, <<NULL>>, <<Ann(StringVal(sF)), [type |-> Bad, parameters |-> << >>]>>,
   <<[type |-> tA, parameters |-> <<[name |-> Bad, value |-> StringVal(sF)]>>]>>}
    \cup {<<Ann(val)>> : val \in BadVals}

Item(diff) == [diff |-> diff, code |-> << >>]
WithCode(diff, code) == [diff |-> diff, code |-> <<code>>]
(* The list of instance members starts again from index 0.                 *)
MembersOfA(code) ==
  [static_fields |-> <<Item(2)>>, instance_fields |-> <<Item(1)>>,
   direct_methods |-> <<WithCode(2, code)>>, virtual_methods |-> <<Item(1)>>]

End == [opcode |-> "end_sequence"]
Other == [opcode |-> "advance_pc"]
Unreadable == [opcode |-> "unreadable"]
Local(opcode, n, t, s) == [opcode |-> opcode, name |-> n, type |-> t, sig |-> s]
SetFile(n) == [opcode |-> "set_file", name |-> n]
Debug(names, insns) == <<[parameter_names |-> names, insns |-> insns]>>
Code(dbg, insns, tries) == [debug_information |-> dbg, insns |-> insns, tries |-> tries]
PlainDebug ==
  Debug(<<sF, NULL>>, <<Local("start_local_extended", sM, tB, sG), SetFile(sF), Other,
                        Local("start_local", sG, tA, NULL), End>>)
(* Names that are not present, which the C++ wrapper does not survive.     *)
NamelessDebugs ==
  {Debug(<<sF>>, <<SetFile(sG), in, End>>) :
     in \in {Local("start_local", NULL, tA, NULL), Local("start_local", sM, NULL, NULL),
            Local("start_local_extended", sM, tB, NULL), SetFile(NULL)}}
(* Names that are present and empty.                                       *)
BlankDebug ==
  Debug(<<sBlank>>, <<Local("start_local_extended", sBlank, tB, sG), SetFile(sBlank),
                      Local("start_local_extended", sM, tBlank, sBlank),
                      Local("start_local", sBlank, tA, NULL), End>>)
PlainInsns ==
  <<[special |-> "string", idx |-> sM], [special |-> "method", idx |-> 3],
    [special |-> "sparse_switch"], [special |-> "none"]>>
Handlers == <<[type |-> tA, addr |-> 4], [type |-> tB, addr |-> 8]>>
Try(catch_all) == [handlers |-> Handlers, catch_all |-> catch_all]
PlainCode == Code(PlainDebug, PlainInsns, <<Try(<< >>), Try(<<0>>)>>)
BlankCode ==
  Code(BlankDebug, <<[special |-> "string", idx |-> sBlank]>>,
       <<[handlers |-> <<Handlers[1], [type |-> tBlank, addr |-> 8]>>, catch_all |-> << >>]>>)

Codes ==
  {Code(<< >>, << >>, << >>), PlainCode, BlankCode, Code(Debug(<< >>, <<End>>), PlainInsns, << >>)}
    \cup {Code(dbg, PlainInsns, << >>) : dbg \in NamelessDebugs}
    \cup {Code(<< >>, <<[special |-> sp, idx |-> 1]>>, << >>) :
            sp \in {"string", "type", "field", "method", "packed_switch", "fill_data_array"}}
BadInsns == {[special |-> sp, idx |-> Bad] : sp \in {"string", "type", "field", "method"}}
              \cup {[special |-> "unreadable"]}
BadTries ==
  {NULL, [handlers |-> <<Handlers[1], [type |-> Bad, addr |-> 4]>>, catch_all |-> << >>],
   Try(<<NULL>>)}
BadCodes ==
  {NULL, Code(PlainDebug, NULL, << >>),
   Code(Debug(<<sF>>, <<SetFile(sG), Other, SetFile(Bad)>>), PlainInsns, << >>),
   Code(Debug(<<sF>>, <<Other, Other, Local("start_local", sM, tB, NULL), Unreadable>>),
        PlainInsns, << >>)}
    \cup {Code(PlainDebug, PlainInsns \o <<in>>, << >>) : in \in BadInsns}
    \cup {Code(PlainDebug, PlainInsns, <<Try(<< >>), t>>) : t \in BadTries}

Entry1(i, list) == <<[idx |-> i, list |-> list]>>
(* The parameter annotations are those of method 1, the virtual one.       *)
Directory(anns) ==
  [class |-> <<anns>>, fields |-> Entry1(1, PlainAnns), methods |-> Entry1(2, PlainAnns),
   parameters |-> Entry1(1, <<PlainAnns, << >>>>)]
PlainDirectory == Directory(PlainAnns)
(* Field 4 and method 4 are members of B.                                  *)
ForeignDirectory ==
  [PlainDirectory EXCEPT !.fields = @ \o Entry1(4, PlainAnns), !.methods = @ \o Entry1(4, PlainAnns),
                         !.parameters = @ \o Entry1(4, <<PlainAnns>>)]
Directories ==
  {Directory(<<Ann(val)>>) : val \in LeafVals \cup NestedVals}
    \cup {[PlainDirectory EXCEPT !.class = << >>], ForeignDirectory,
          (* members that the class data does not list *)
          [PlainDirectory EXCEPT !.fields = Entry1(3, PlainAnns), !.methods = Entry1(5, PlainAnns),
                                 !.parameters = Entry1(5, <<PlainAnns>>)]}
BadDirectories ==
  {NULL} \cup {Directory(anns) : anns \in BadAnns}
    \cup {[PlainDirectory EXCEPT !.fields = @ \o Entry1(2, anns)] : anns \in {NULL, <<NULL>>}}
    \cup {[PlainDirectory EXCEPT ![part] = Entry1(Bad, PlainAnns)] :
            part \in {"fields", "methods"}}
    \cup {[PlainDirectory EXCEPT !.parameters = Entry1(Bad, <<PlainAnns>>)]}
    \cup {[PlainDirectory EXCEPT !.methods = @ \o Entry1(1, <<Ann([type |-> "unreadable"])>>)]}
    \cup {[PlainDirectory EXCEPT !.parameters = Entry1(2, panns)] :
            panns \in {NULL, <<PlainAnns, NULL>>, <<PlainAnns, <<NULL>>, PlainAnns>>}}

ClassA ==
  [name |-> tA, super_class |-> tB, source_file |-> sF, annotations |-> <<PlainDirectory>>,
   interfaces |-> <<tB, tInt>>, class_data |-> <<MembersOfA(PlainCode)>>,
   static_values |-> << <<StringVal(sM), ArrayVal(StringVal(sF))>> >>]
(* The directory of B names its method 3 only.                             *)
ClassB ==
  [name |-> tB, super_class |-> NULL, source_file |-> NULL,
   annotations |-> <<[class |-> << >>, fields |-> << >>, methods |-> Entry1(3, <<Ann(StringVal(sG))>>),
                      parameters |-> Entry1(3, <<PlainAnns>>)]>>,
   interfaces |-> << >>,
   class_data |-> <<[static_fields |-> <<Item(4)>>, instance_fields |-> << >>,
                     direct_methods |-> <<Item(3)>>, virtual_methods |-> <<Item(4)>>]>>,
   static_values |-> << >>]
EmptyB == [ClassB EXCEPT !.annotations = << >>, !.class_data = << >>]

(* What a class names in a directory and another one defines: a class read  *)
(* later gets it, one read earlier does not.                               *)
ForeignA == [ClassA EXCEPT !.annotations = <<ForeignDirectory>>]
UnnamedA == [ClassA EXCEPT !.annotations = << >>]
NamingB == [ClassB EXCEPT !.annotations = <<PlainDirectory>>]
OtherClassLists ==
  {<<ClassA, EmptyB>>, <<ForeignA, EmptyB>>, <<ClassB, ClassA>>, <<ClassB, ForeignA>>,
   <<UnnamedA, NamingB>>, <<NamingB, UnnamedA>>,
   (* a class that comes twice *)
   <<ForeignA, ClassB, UnnamedA>>, <<NamingB, UnnamedA, UnnamedA>>, <<UnnamedA, ClassA>>}

(* Other indexes, and lists of other lengths.                              *)
OtherMembers ==
  {[MembersOfA(PlainCode) EXCEPT !.static_fields = <<Item(1)>>, !.instance_fields = <<Item(2)>>,
                                 !.direct_methods = << >>, !.virtual_methods = << >>],
   [MembersOfA(PlainCode) EXCEPT !.static_fields = <<Item(1), Item(1)>>, !.instance_fields = << >>,
                                 !.direct_methods = << >>, !.virtual_methods = <<Item(1), Item(1)>>],
   (* members that are listed twice *)
   [MembersOfA(PlainCode) EXCEPT !.static_fields = <<Item(1), Item(0)>>,
                                 !.virtual_methods = <<Item(1), Item(0)>>]}
AloneClasses == {<<[ClassA EXCEPT !.class_data = <<data>>], EmptyB>> : data \in OtherMembers}
BlankClasses ==
  {[ClassA EXCEPT !.source_file = sBlank], [ClassA EXCEPT !.super_class = tBlank]}
Classes ==
  {ClassA} \cup BlankClasses \cup {[ClassA EXCEPT !.annotations = <<dir>>] : dir \in Directories}
    \cup {[ClassA EXCEPT !.class_data = <<data>>] :
            data \in OtherMembers \cup {MembersOfA(code) : code \in Codes}}
    \cup {[ClassA EXCEPT !.static_values = << <<val>> >>] : val \in LeafVals \cup NestedVals}
BadMembers ==
  {[MembersOfA(PlainCode) EXCEPT ![list] = @ \o <<Item(Bad)>>] : list \in ToSet(Lists)}
    \cup {[MembersOfA(PlainCode) EXCEPT !.instance_fields = @ \o <<Item(3)>>],
          [MembersOfA(PlainCode) EXCEPT !.direct_methods = @ \o <<Item(1)>>]}
    \cup {MembersOfA(code) : code \in BadCodes}
BadClasses ==
  {[ClassA EXCEPT !.name = Bad], [ClassA EXCEPT !.super_class = Bad],
   [ClassA EXCEPT !.source_file = Bad], [ClassA EXCEPT !.interfaces = NULL],
   [ClassA EXCEPT !.interfaces = <<tB, Bad>>], [ClassA EXCEPT !.class_data = <<NULL>>],
   [ClassA EXCEPT !.static_values = <<NULL>>]}
    \cup {[ClassA EXCEPT !.annotations = <<dir>>] : dir \in BadDirectories}
    \cup {[ClassA EXCEPT !.class_data = <<data>>] : data \in BadMembers}
    \cup {[ClassA EXCEPT !.static_values = << <<StringVal(sM), val>> >>] : val \in BadVals}

Odex == [header |-> TRUE, deps |-> <<<<1, 2>>>>, aux |-> TRUE]
File ==
  [odex |-> << >>, version |-> TRUE, sizes |-> TRUE, strings |-> <<1, 1, 1, 1, 1, 1, 1, 1>>,
   types |-> <<1, 2, 3, 4, sBlank>>,
   protos |-> <<[return_type |-> tVoid, parameters |-> <<tB, tInt>>],
                [return_type |-> tInt, parameters |-> << >>]>>,
   fields |-> <<[class |-> tA, type |-> tInt, name |-> sF], [class |-> tA, type |-> tB, name |-> sG],
                [class |-> tA, type |-> tInt, name |-> sM],
                [class |-> tB, type |-> tInt, name |-> sF]>>,
   methods |-> <<[class |-> tA, prototype |-> 1, name |-> sM],
                 [class |-> tA, prototype |-> 2, name |-> sF],
                 [class |-> tB, prototype |-> 1, name |-> sG],
                 [class |-> tB, prototype |-> 2, name |-> sM],
                 [class |-> tB, prototype |-> 2, name |-> sBlank]>>,
   classes |-> <<ClassA, ClassB>>]
OdexFile == [File EXCEPT !.odex = <<Odex>>]

GoodFiles ==
  {File, OdexFile, [File EXCEPT !.classes = << >>],
   [OdexFile EXCEPT !.odex[1].deps = << >>]}
    \cup {[File EXCEPT !.classes = <<c, ClassB>>] : c \in Classes}
    \cup {[File EXCEPT !.classes = cs] : cs \in OtherClassLists \cup AloneClasses}
BadHeaders ==
  {[OdexFile EXCEPT !.odex[1].header = FALSE], [OdexFile EXCEPT !.odex[1].aux = FALSE],
   [OdexFile EXCEPT !.odex[1].deps = <<NULL>>], [OdexFile EXCEPT !.odex[1].deps = <<<<1, NULL>>>>]}
    \cup {[f EXCEPT !.version = FALSE] : f \in {File, OdexFile}}
    \cup {[f EXCEPT !.sizes = FALSE] : f \in {File, OdexFile}}
BadSections ==
  {[OdexFile EXCEPT !.strings[5] = NULL], [OdexFile EXCEPT !.types[3] = Bad],
   [OdexFile EXCEPT !.protos[2].return_type = Bad], [OdexFile EXCEPT !.protos[2].parameters = NULL],
   [OdexFile EXCEPT !.protos[1].parameters = <<tB, NULL, tInt>>],
   [OdexFile EXCEPT !.fields[2].class = Bad], [OdexFile EXCEPT !.fields[2].type = Bad],
   [OdexFile EXCEPT !.fields[2].name = Bad], [OdexFile EXCEPT !.methods[2].class = Bad],
   [OdexFile EXCEPT !.methods[2].prototype = Bad], [OdexFile EXCEPT !.methods[2].name = Bad]}
MCDexFiles ==
  GoodFiles \cup BadHeaders \cup BadSections
    \cup {[File EXCEPT !.classes = <<c, ClassB>>] : c \in BadClasses}
    \cup {[OdexFile EXCEPT !.classes = <<ForeignA, c>>] :
            c \in {[ClassB EXCEPT !.name = Bad], [ClassB EXCEPT !.interfaces = <<Bad>>],
                   [ClassB EXCEPT !.class_data[1].direct_methods = @ \o <<Item(0), Item(Bad)>>]}}

(* A debug information that fails at once, at its parameters, at a local or *)
(* with its first array full.                                              *)
BadDebugs ==
  {<<NULL>>, Debug(<<sF, Bad>>, <<End>>), Debug(<< >>, <<Local("start_local", Bad, tB, NULL)>>),
   Debug(<< >>, <<Other, Other, Unreadable>>)}
BadDebugFiles ==
  {[File EXCEPT !.classes[1].class_data = <<MembersOfA(Code(dbg, << >>, << >>))>>] :
     dbg \in BadDebugs}
-----------------------------------------------------------------------------
(* The files satisfy what the theorems about ReadDex suppose: the values in *)
(* a file, with their depth, and of these the arrays and annotations with   *)
(* all that they hold.                                                      *)
OfList(list, ValuesOf(_)) ==
  IF list = NULL THEN {} ELSE UNION {ValuesOf(list[i]) : i \in DOMAIN list}
RECURSIVE Within(_)
OfAnnotation(an) == IF an = NULL THEN {} ELSE OfList(an.parameters, LAMBDA p : Within(p.value))
Within(v) ==
  {v} \cup (CASE v.type = "array" -> OfList(v.array, Within)
              [] v.type = "annotation" -> OfAnnotation(v.annotation)
              [] OTHER -> {})
RECURSIVE DepthOf(_)
DepthOf(v) ==
  LET depths == {DepthOf(u) : u \in Within(v) \ {v}}
  IN  IF depths = {} THEN 0 ELSE 1 + Max(depths)

OfAnnotations(anns) == OfList(anns, OfAnnotation)
OfEntries(entries) == OfList(entries, LAMBDA e : OfAnnotations(e.list))
OfDirectory(dir) ==
  IF dir = NULL THEN {}
  ELSE OfList(dir.class, OfAnnotations) \cup OfEntries(dir.fields) \cup OfEntries(dir.methods)
         \cup OfList(dir.parameters, LAMBDA e : OfList(e.list, OfAnnotations))
OfClass(c) ==
  OfList(c.annotations, OfDirectory)
    \cup OfList(c.static_values, LAMBDA vs : OfList(vs, Within))
ValuesIn(f) == OfList(f.classes, OfClass)
WholeValuesIn(f) ==
  UNION {Within(v) : v \in {u \in ValuesIn(f) : u.type \in {"array", "annotation"}}}

ASSUME FilesValued ==
  /\ FreeValue(ZeroValue) = FreeValueBody(ZeroValue)
  /\ \A f \in MCDexFiles :
       LET V == ValuesIn(f)
       IN  ValuesShape(V, [v \in V |-> DepthOf(v)]) /\ FileShape(f, V)
ASSUME FilesSurvive == \A f \in MCDexFiles : FileSurvives(f)
ASSUME FilesClean == \A f \in MCDexFiles : FileClean(f, ValuesIn(f), WholeValuesIn(f))

(* The debug information of the run that crashes does not survive.         *)
ASSUME BadDebugDies == \A f \in BadDebugFiles : ~FileSurvives(f)
=============================================================================
