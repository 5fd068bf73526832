------------------------------ MODULE DexMemory ------------------------------
(***************************************************************************)
(* What the structures of a file hold, and what the dxc_free_* functions   *)
(* give back.  A structure is a record of its pointers, an array is the    *)
(* sequence of its elements without the sentinel at the end, a pointer     *)
(* that is not set is NULL.  Each Free operator is the sequence of what    *)
(* its function releases: references to strings and prototypes, blocks.    *)
(***************************************************************************)
EXTENDS Integers, Sequences, FiniteSets, SequencesExt, Bags

CONSTANTS
  NULL,
  FreeValue(_)   (* dxc_free_value: FreeValueBody                           *)

Str(s) == <<"str", s>>           (* a reference to the s-th string         *)
Proto(p) == <<"proto", p>>       (* a reference to the p-th prototype      *)
Block(kind) == <<kind, 0>>       (* a block of malloc                      *)
EmptyStr == <<"str", 0>>         (* dxc_empty_str, which nobody allocates  *)
Fault == <<"fault", 0>>          (* an access through NULL or past an end: *)
                                 (* nobody holds it, so freeing it shows   *)

Occurrences(s, r) == Cardinality({i \in DOMAIN s : s[i] = r})
BagOf(s) == [r \in ToSet(s) |-> Occurrences(s, r)]
Copies(r, bag) == IF r \in DOMAIN bag THEN bag[r] ELSE 0

(* What stands before the first of ends.                                   *)
UpTo(s, ends) ==
  IF ends = {} THEN s ELSE SubSeq(s, 1, (CHOOSE i \in ends : \A k \in ends : i <= k) - 1)
Before(a, Stops(_)) == UpTo(a, {i \in DOMAIN a : Stops(a[i])})

(* The loop all arrays are freed with: up to the sentinel, then the block. *)
FreeArray(a, Sentinel(_), Free(_), kind) ==
  IF a = NULL THEN << >>
  ELSE FlattenSeq(UpTo([i \in DOMAIN a |-> Free(a[i])], {i \in DOMAIN a : Sentinel(a[i])}))
         \o <<Block(kind)>>
FreeWhole(a, Free(_), kind) == FreeArray(a, LAMBDA e : FALSE, Free, kind)

(* dxc_free_str and dxc_free_strstr of a pointer that may be NULL.         *)
FreeRef(r) == IF r = NULL THEN << >> ELSE <<r>>
FreeRefs(rs) == FlattenSeq([i \in DOMAIN rs |-> FreeRef(rs[i])])
(* dxc_free_strstr of a list with a single owner.                          *)
FreeStrstr(list) == FreeArray(list, LAMBDA r : r = NULL, FreeRef, "strstr")
-----------------------------------------------------------------------------
(* Values and annotations.                                                 *)

ZeroValue == [type |-> "byte"]
ZeroParameter == [name |-> NULL, value |-> ZeroValue]
ZeroAnnotation == [type |-> NULL, parameters |-> NULL]

(* The types whose value is one string or the parts of a reference.        *)
RefTypes == {"string", "type", "field", "method", "enum"}

FreeParameter(p, Free(_)) == FreeRef(p.name) \o Free(p.value)
FreeAnnotationBy(an, Free(_)) ==
  FreeArray(an.parameters, LAMBDA p : p.name = NULL, LAMBDA p : FreeParameter(p, Free),
            "parameters")
    \o FreeRef(an.type)
FreeAnnotation(an) == FreeAnnotationBy(an, FreeValue)
FreeAnnotations(anns) ==
  FreeArray(anns, LAMBDA an : an.parameters = NULL, FreeAnnotation, "annotations")
FreeParameterAnnotations(panns) ==
  FreeArray(panns, LAMBDA anns : anns = NULL, FreeAnnotations, "parameter_annotations")
FreeValuesBy(vs, Free(_)) == FreeArray(vs, LAMBDA v : v.type = "sentinel", Free, "values")
FreeValues(vs) == FreeValuesBy(vs, FreeValue)

(* dxc_free_value, which frees the values in a value with Free.            *)
FreeValueOf(v, Free(_)) ==
  CASE v.type \in RefTypes -> v.refs
    [] v.type = "array" -> FreeValuesBy(v.array, Free)
    [] v.type = "annotation" -> FreeAnnotationBy(v.annotation, Free) \o <<Block("annotation")>>
    [] v.type \notin RefTypes \cup {"array", "annotation"} -> << >>
FreeValueBody(v) == FreeValueOf(v, FreeValue)
-----------------------------------------------------------------------------
(* Code.  p is what the union of a debug instruction points to.            *)

Locals == {"start_local", "start_local_extended"}
ZeroDbgInsn == [opcode |-> "end_sequence", p |-> NULL]
ZeroInsn == [special |-> "none", refs |-> << >>]
ZeroHandler == [type |-> NULL, addr |-> 0]
ZeroTryBlock == [handlers |-> NULL, catch_all_handler |-> NULL]
ZeroDebugInfo == [parameter_names |-> NULL, insns |-> NULL]
ZeroCode == [debug_information |-> NULL, tries |-> NULL, insns |-> NULL]

FreeDbgInsn(in) ==
  CASE in.opcode \in Locals ->
         IF in.p = NULL THEN <<Fault>> ELSE FreeRefs(in.p) \o <<Block("start_local")>>
    [] in.opcode = "set_file" -> FreeRef(in.p)
    [] in.opcode \notin Locals \cup {"set_file"} -> << >>

(* The loop looks for DBG_END_SEQUENCE only.                               *)
FreeDebugInfo(di) ==
  LET run == Before(di.insns, LAMBDA in : in.opcode = "end_sequence")
  IN  IF di.insns = NULL THEN <<Fault>>
      ELSE FlattenSeq([i \in DOMAIN run |-> FreeDbgInsn(run[i])])
             \o (IF Len(run) = Len(di.insns) THEN <<Fault>> ELSE << >>)
             \o FreeStrstr(di.parameter_names) \o <<Block("debug_insns")>>

FreeHandler(h) == FreeRef(h.type)
LastAddr == -1   (* 0xFFFFFFFFU, which makes a handler the sentinel *)
FreeTryBlock(t) ==
  FreeArray(t.handlers, LAMBDA h : h.addr = LastAddr, FreeHandler, "handlers")
    \o (IF t.catch_all_handler = NULL THEN << >>
        ELSE FreeHandler(t.catch_all_handler) \o <<Block("catch_all")>>)

(* What special points to: references of one instruction, tables of        *)
(* another.                                                                *)
Pointing == {"string", "type", "field", "method", "packed_switch", "sparse_switch",
             "fill_data_array"}
FreeInstruction(in) == IF in.special \in Pointing THEN in.refs ELSE << >>

FreeCode(code) ==
  (IF code.debug_information = NULL THEN << >>
   ELSE FreeDebugInfo(code.debug_information) \o <<Block("debug_info")>>)
    \o FreeArray(code.tries, LAMBDA t : t.handlers = NULL, FreeTryBlock, "tries")
    \o FreeWhole(code.insns, FreeInstruction, "insns")
-----------------------------------------------------------------------------
(* Members and classes.                                                    *)

ZeroField == [name |-> NULL, type |-> NULL, annotations |-> NULL]
ZeroMethod ==
  [name |-> NULL, prototype |-> NULL, annotations |-> NULL, parameter_annotations |-> NULL,
   code_body |-> NULL]
ZeroClass ==
  [name |-> NULL, super_class |-> NULL, source_file |-> NULL, interfaces |-> NULL,
   annotations |-> NULL, static_values |-> NULL, static_fields |-> NULL,
   instance_fields |-> NULL, direct_methods |-> NULL, virtual_methods |-> NULL]

FreeFieldMut(fld) ==   \* annotations are forgotten
  FreeRefs(<<fld.type, fld.name>>)
FreeField(fld) ==
  FreeAnnotations(fld.annotations) \o FreeRefs(<<fld.type, fld.name>>)

FreeMethod(mtd) ==
  (IF mtd.code_body = NULL THEN << >> ELSE FreeCode(mtd.code_body) \o <<Block("code")>>)
    \o FreeAnnotations(mtd.annotations)
    \o FreeParameterAnnotations(mtd.parameter_annotations)
    \o FreeRefs(<<mtd.name, mtd.prototype>>)

FreeFields(flds) == FreeArray(flds, LAMBDA fld : fld.name = NULL, FreeField, "fields")
FreeMethods(mtds) == FreeArray(mtds, LAMBDA mtd : mtd.prototype = NULL, FreeMethod, "methods")

FreeClassMut(cl) ==   \* source_file is forgotten
  FreeAnnotations(cl.annotations) \o FreeValues(cl.static_values)
    \o FreeFields(cl.static_fields) \o FreeFields(cl.instance_fields)
    \o FreeMethods(cl.direct_methods) \o FreeMethods(cl.virtual_methods)
    \o FreeRefs(<<cl.name, cl.super_class>>) \o FreeStrstr(cl.interfaces)
FreeClass(cl) ==
  FreeAnnotations(cl.annotations) \o FreeValues(cl.static_values)
    \o FreeFields(cl.static_fields) \o FreeFields(cl.instance_fields)
    \o FreeMethods(cl.direct_methods) \o FreeMethods(cl.virtual_methods)
    \o FreeRefs(<<cl.name, cl.super_class, cl.source_file>>) \o FreeStrstr(cl.interfaces)
-----------------------------------------------------------------------------
(* The context of a reader, and what a file adds to its classes.           *)

NoContext ==
  [strs |-> NULL, types |-> NULL, protos |-> NULL, fields |-> NULL, methods |-> NULL,
   classes |-> NULL]
ZeroOdex == [deps |-> NULL, dep_shas |-> NULL, id |-> NULL]

FreeRawField(fld) ==
  FreeRefs(<<fld.defining_class, fld.name, fld.type>>) \o FreeAnnotations(fld.annotations)
FreeRawMethod(mtd) ==
  FreeRefs(<<mtd.defining_class, mtd.name, mtd.prototype>>)
    \o FreeAnnotations(mtd.annotations) \o FreeParameterAnnotations(mtd.parameter_annotations)

(* The arrays of the context are freed by their sizes, not to a sentinel.  *)
FreeContext(c) ==
  FreeWhole(c.strs, FreeRef, "strs") \o FreeWhole(c.types, FreeRef, "types")
    \o FreeWhole(c.protos, FreeRef, "protos") \o FreeWhole(c.fields, FreeRawField, "raw_fields")
    \o FreeWhole(c.methods, FreeRawMethod, "raw_methods")
    \o FreeWhole(c.classes, FreeClass, "classes")

FreeOdexData(data) ==
  IF data = NULL THEN << >>
  ELSE FreeArray(data.dep_shas, LAMBDA sha : sha = NULL, FreeRef, "dep_shas")
         \o FreeStrstr(data.deps) \o FreeRef(data.id) \o <<Block("odex")>>

FreeDexFile(dex) ==
  FreeArray(dex.classes, LAMBDA cl : cl.name = NULL, FreeClass, "classes")
    \o FreeOdexData(dex.metadata) \o <<Block("file")>>
=============================================================================
