------------------------------ MODULE DexShape ------------------------------
(***************************************************************************)
(* The form of what a file says, for every file: which parts are lists,    *)
(* which may be missing, and the values, which hold only values of a       *)
(* smaller depth.  Then the two things that the code relies on without a   *)
(* check: debug information that dxc_free_debug_info survives, and a file  *)
(* in which nothing is acquired that no structure points to.               *)
(***************************************************************************)
EXTENDS DexItems

(* A list is the function of its indexes.                                  *)
IsList(s) == Len(s) \in Nat /\ s = [i \in 1..Len(s) |-> s[i]]

AnnotationShape(an, V) ==
  an # NULL => IsList(an.parameters) /\ \A i \in 1..Len(an.parameters) : an.parameters[i].value \in V
AnnotationsShape(anns, V) ==
  anns # NULL => IsList(anns) /\ \A i \in 1..Len(anns) : AnnotationShape(anns[i], V)
ParameterAnnotationsShape(panns, V) ==
  panns # NULL => IsList(panns) /\ \A i \in 1..Len(panns) : AnnotationsShape(panns[i], V)

(* The values V: those in a value have a smaller depth.                    *)
ValuesShape(V, Depth) ==
  /\ Depth \in [V -> Nat]
  /\ \A v \in V :
       LET below == {u \in V : Depth[u] < Depth[v]}
       IN  /\ v.type \in RefTypes \cup {"array", "annotation", "scalar", "unreadable"}
           /\ v.type = "array" =>
                IsList(v.array) /\ \A i \in 1..Len(v.array) : v.array[i] \in below
           /\ v.type = "annotation" => AnnotationShape(v.annotation, below)

(* ReadValue and FreeValue are as dxc_read_value and dxc_free_value say.   *)
ValueCode(V) ==
  /\ FreeValue(ZeroValue) = FreeValueBody(ZeroValue)
  /\ \A c : \A v \in V : /\ ReadValue(c, v) = ReadValueBody(c, v)
                         /\ FreeValue(ReadValue(c, v).value) = FreeValueBody(ReadValue(c, v).value)

(* The values R can be read whole in the context c.                        *)
Readable(c, R) ==
  \A v \in R :
    /\ v.type # "unreadable"
    /\ v.type \in RefTypes => v.idx \in Indexes(c, v.type)
    /\ v.type = "array" => \A i \in 1..Len(v.array) : v.array[i] \in R
    /\ v.type = "annotation" =>
         /\ v.annotation # NULL /\ v.annotation.type \in 1..Len(c.types)
         /\ \A i \in 1..Len(v.annotation.parameters) :
              /\ v.annotation.parameters[i].name \in 1..Len(c.strs)
              /\ v.annotation.parameters[i].value \in R

DirectoryShape(dir, V) ==
  dir # NULL =>
    /\ dir.class # << >> => AnnotationsShape(dir.class[1], V)
    /\ IsList(dir.fields) /\ \A i \in 1..Len(dir.fields) : AnnotationsShape(dir.fields[i].list, V)
    /\ IsList(dir.methods) /\ \A i \in 1..Len(dir.methods) : AnnotationsShape(dir.methods[i].list, V)
    /\ IsList(dir.parameters)
    /\ \A i \in 1..Len(dir.parameters) : ParameterAnnotationsShape(dir.parameters[i].list, V)

(* An index into a section of n entries, or none.                          *)
Index(n, idx) == idx = NULL \/ idx \in 1..n

(* Debug information with names in 1..ns and types in 1..nt.  An           *)
(* end_sequence ends the instructions.                                     *)
DbgInsnReadable(ns, nt, in) ==
  /\ in.opcode # "unreadable"
  /\ in.opcode \in Locals => Index(ns, in.name) /\ Index(nt, in.type) /\ Index(ns, in.sig)
  /\ in.opcode = "set_file" => Index(ns, in.name)

DebugShape(di) ==
  di # NULL =>
    /\ IsList(di.parameter_names) /\ IsList(di.insns)
    /\ \A i \in 1..Len(di.insns) : di.insns[i].opcode = "end_sequence" => i = Len(di.insns)

(* dxc_free_debug_info survives debug information that is read whole, or   *)
(* that stops at an instruction other than a local before its array is     *)
(* full: it looks for an end_sequence only, and does not look for a local  *)
(* that is missing.                                                        *)
DebugSurvives(ns, nt, di) ==
  LET readable(i) == DbgInsnReadable(ns, nt, di.insns[i])
      begun == {i \in 1..Len(di.insns) :
                  di.insns[i].opcode # "unreadable" /\ \A k \in 1..(i - 1) : readable(k)}
  IN  /\ di # NULL
      /\ \A i \in 1..Len(di.parameter_names) : Index(ns, di.parameter_names[i])
      /\ \A i \in 1..Len(di.insns) : di.insns[i].opcode \in Locals => readable(i)
      /\ (\A i \in 1..Len(di.insns) : readable(i)) =>
           Len(di.insns) > 0 /\ di.insns[Len(di.insns)].opcode = "end_sequence"
      /\ (\E i \in 1..Len(di.insns) : ~readable(i)) =>
           Room(Cardinality(begun)) \in Nat /\ Cardinality(begun) < Room(Cardinality(begun))

CodeShape(code) ==
  code # NULL =>
    /\ code.debug_information # << >> => DebugShape(code.debug_information[1])
    /\ code.insns # NULL =>
         /\ IsList(code.insns)
         /\ \A i \in 1..Len(code.insns) :
              code.insns[i].special \in {"string", "type", "field", "method", "packed_switch",
                                         "sparse_switch", "fill_data_array", "none", "unreadable"}
    /\ IsList(code.tries)
    /\ \A i \in 1..Len(code.tries) : code.tries[i] # NULL => IsList(code.tries[i].handlers)

CodeSurvives(ns, nt, code) ==
  code # NULL => (code.debug_information # << >> =>
                    DebugSurvives(ns, nt, code.debug_information[1]))

(* The list of handlers is freed up to the first with the address of the   *)
(* sentinel.                                                               *)
CodeClean(code) ==
  code # NULL =>
    \A i \in 1..Len(code.tries) :
      code.tries[i] # NULL =>
        \A k \in 1..Len(code.tries[i].handlers) : code.tries[i].handlers[k].addr # LastAddr

MemberLists == {"static_fields", "instance_fields", "direct_methods", "virtual_methods"}
ClassDataShape(data) ==
  data # NULL =>
    \A list \in MemberLists :
      /\ IsList(data[list])
      /\ \A i \in 1..Len(data[list]) :
           /\ data[list][i].diff \in Nat
           /\ data[list][i].code # << >> => CodeShape(data[list][i].code[1])

ClassShape(cl, V) ==
  /\ cl.annotations # << >> => DirectoryShape(cl.annotations[1], V)
  /\ cl.interfaces # NULL => IsList(cl.interfaces)
  /\ cl.class_data # << >> => ClassDataShape(cl.class_data[1])
  /\ cl.static_values # << >> =>
       (cl.static_values[1] # NULL =>
          /\ IsList(cl.static_values[1])
          /\ \A i \in 1..Len(cl.static_values[1]) : cl.static_values[1][i] \in V)

FileShape(f, V) ==
  /\ f.odex # << >> =>
       /\ f.odex[1].header \in BOOLEAN /\ f.odex[1].aux \in BOOLEAN
       /\ f.odex[1].deps # << >> => (f.odex[1].deps[1] # NULL => IsList(f.odex[1].deps[1]))
  /\ f.version \in BOOLEAN /\ f.sizes \in BOOLEAN
  /\ IsList(f.strings) /\ IsList(f.types) /\ IsList(f.protos) /\ IsList(f.fields)
  /\ IsList(f.methods) /\ IsList(f.classes)
  /\ \A i \in 1..Len(f.protos) : f.protos[i].parameters # NULL => IsList(f.protos[i].parameters)
  /\ \A i \in 1..Len(f.classes) : ClassShape(f.classes[i], V)
-----------------------------------------------------------------------------
(* The files that the reader and its release functions get through: their  *)
(* debug information survives.                                             *)
HasDirectory(f, c) ==
  f.classes[c].annotations # << >> /\ f.classes[c].annotations[1] # NULL
HasClassData(f, c) == f.classes[c].class_data # << >> /\ f.classes[c].class_data[1] # NULL

EachCode(f, Holds(_)) ==
  \A c \in 1..Len(f.classes) :
    HasClassData(f, c) =>
      \A list \in MemberLists :
        LET items == f.classes[c].class_data[1][list]
        IN  \A k \in 1..Len(items) : items[k].code # << >> => Holds(items[k].code[1])
FileSurvives(f) ==
  EachCode(f, LAMBDA code : CodeSurvives(Len(f.strings), Len(f.types), code))

(* The files in which no structure forgets what was acquired for it: no    *)
(* parameter of a prototype is a hole, what is read of an array or of an   *)
(* annotation is read whole, no handler has the address of the sentinel,   *)
(* and no member has two entries in the directories.                       *)
Sections(f) ==
  [strs |-> f.strings, types |-> f.types, fields |-> f.fields, methods |-> f.methods]
DirectoryParts == {"fields", "methods", "parameters"}
NamedOnce(f) ==
  \A c, d \in 1..Len(f.classes) : HasDirectory(f, c) /\ HasDirectory(f, d) =>
    \A part \in DirectoryParts :
      LET a == f.classes[c].annotations[1][part]
          b == f.classes[d].annotations[1][part]
      IN  \A k \in 1..Len(a), l \in 1..Len(b) : a[k].idx = b[l].idx => c = d /\ k = l
ParametersClean(n, ps) == ps # NULL => \A k \in 1..Len(ps) : Index(n, ps[k])

FileClean(f, V, R) ==
  /\ \A i \in 1..Len(f.protos) : ParametersClean(Len(f.types), f.protos[i].parameters)
  /\ R \subseteq V /\ Readable(Sections(f), R)
  /\ \A v \in V : v.type \in {"array", "annotation"} => v \in R
  /\ EachCode(f, CodeClean)
  /\ NamedOnce(f)

Valued(f) ==
  \E V, Depth : ValuesShape(V, Depth) /\ ValueCode(V) /\ FileShape(f, V)
Clean(f) ==
  \E V, Depth, R :
    ValuesShape(V, Depth) /\ ValueCode(V) /\ FileShape(f, V) /\ FileClean(f, V, R)
=============================================================================
