------------------------------ MODULE DexTree -------------------------------
(***************************************************************************)
(* The part of a DexFile that refers to the constant pools, with for each  *)
(* kind of element the constants pop_* collects from it and the constants  *)
(* write_* looks up for it (src/src/write.c).  A string is a natural       *)
(* number, in mutf8_compare's order; None stands for NULL.  A type         *)
(* descriptor is a string.                                                 *)
(***************************************************************************)
EXTENDS ConstItems, SequencesExt

CONSTANTS
  None,        (* NULL, where a string is optional                         *)
  EmptyStr     (* the string ""                                            *)

Optional(Constant(_), s) == IF s = None THEN << >> ELSE <<Constant(s)>>

(* The constants of a list of elements, element by element.                *)
Each(seq, Constants(_)) == FlattenSeq([i \in DOMAIN seq |-> Constants(seq[i])])
-----------------------------------------------------------------------------
(* pop_*: what is collected.                                               *)

RECURSIVE PopValue(_), PopAnnotation(_)

PopAnnotation(an) ==
  <<Type(an.type)>>
    \o Each(an.parameters, LAMBDA p : <<Str(p.name)>> \o PopValue(p.value))

PopValue(val) ==
  CASE val.type = "string" -> <<Str(val.str)>>
    [] val.type = "type" -> <<Type(val.str)>>
    [] val.type \in {"field", "enum"} -> <<FieldRef(val.class, val.name, val.of)>>
    [] val.type = "method" -> <<MethodRef(val.class, val.name, val.proto)>>
    [] val.type = "array" -> Each(val.elements, PopValue)
    [] val.type = "annotation" -> PopAnnotation(val.annotation)
    [] val.type = "scalar" -> << >>

(* Mutant: annotations of fields are forgotten.                            *)
PopFieldMut(fld) == <<Type(fld.type), Str(fld.name)>>

PopField(fld) ==
  <<Type(fld.type), Str(fld.name)>> \o Each(fld.annotations, PopAnnotation)

PopLocal(local) ==
  Optional(Str, local.name) \o Optional(Type, local.type)

PopDbgInsn(in) ==
  CASE in.opcode = "start_local" -> PopLocal(in)
    [] in.opcode = "start_local_extended" -> Optional(Str, in.sig) \o PopLocal(in)
    [] in.opcode = "set_file" -> Optional(Str, in.name)
    [] OTHER -> << >>

(* Instructions behind the first DBG_END_SEQUENCE are not part of the list. *)
BeforeEnd(insns) ==
  LET end == SelectInSeq(insns, LAMBDA in : in.opcode = "end_sequence")
  IN  SubSeq(insns, 1, end - 1)

(* Mutant: the name of an unnamed parameter is collected too.              *)
PopDebugInformationMut(dbg) ==
  Each(BeforeEnd(dbg.insns), PopDbgInsn)
    \o Each(dbg.parameter_names, LAMBDA s : <<Str(s)>>)

PopDebugInformation(dbg) ==
  Each(BeforeEnd(dbg.insns), PopDbgInsn)
    \o Each(dbg.parameter_names, LAMBDA s : IF s = EmptyStr THEN << >> ELSE <<Str(s)>>)

PopHandler(handler) == Optional(Type, handler)

PopTryBlock(try) == Each(try.handlers, PopHandler) \o Each(try.catch_all, PopHandler)

PopInsn(insn) ==
  CASE insn.special = "string" -> <<Str(insn.str)>>
    [] insn.special = "type" -> <<Type(insn.str)>>
    [] insn.special = "field" -> <<FieldRef(insn.class, insn.name, insn.of)>>
    [] insn.special = "method" -> <<MethodRef(insn.class, insn.name, insn.proto)>>
    [] insn.special = "none" -> << >>

PopCode(code) ==
  Each(code.debug_information, PopDebugInformation)
    \o Each(code.tries, PopTryBlock)
    \o Each(code.insns, PopInsn)

PopMethod(mtd) ==
  <<Str(mtd.name), Proto(mtd.prototype)>>
    \o Each(mtd.code_body, PopCode)
    \o Each(mtd.annotations, PopAnnotation)
    \o Each(mtd.parameter_annotations, LAMBDA anns : Each(anns, PopAnnotation))

MemberFields(cl) == cl.static_fields \o cl.instance_fields
MemberMethods(cl) == cl.direct_methods \o cl.virtual_methods

(* The ids of the fields and methods that the class itself defines.        *)
FieldIds(cl, flds) == Each(flds, LAMBDA f : <<FieldRef(cl.name, f.name, f.type)>>)
MethodIds(cl, mtds) == Each(mtds, LAMBDA m : <<MethodRef(cl.name, m.name, m.prototype)>>)

PopClass(cl) ==
  <<Type(cl.name)>>
    \o Optional(Type, cl.super_class)
    \o Each(cl.interfaces, LAMBDA t : <<Type(t)>>)
    \o Optional(Str, cl.source_file)
    \o Each(cl.annotations, PopAnnotation)
    \o Each(cl.static_values, PopValue)
    \o Each(MemberFields(cl), PopField)
    \o Each(MemberMethods(cl), PopMethod)
    \o FieldIds(cl, MemberFields(cl))
    \o MethodIds(cl, MemberMethods(cl))
-----------------------------------------------------------------------------
(* write_*: what is looked up.                                             *)

RECURSIVE WriteValue(_), WriteAnnotation(_)

WriteAnnotation(an) ==
  <<Type(an.type)>>
    \o Each(an.parameters, LAMBDA p : <<Str(p.name)>>)
    \o Each(an.parameters, LAMBDA p : WriteValue(p.value))

WriteValue(val) ==
  CASE val.type = "string" -> <<Str(val.str)>>
    [] val.type = "type" -> <<Type(val.str)>>
    [] val.type = "field" -> <<FieldRef(val.class, val.name, val.of)>>
    [] val.type = "method" -> <<MethodRef(val.class, val.name, val.proto)>>
    [] val.type = "enum" -> <<FieldRef(val.class, val.name, val.of)>>
    [] val.type = "array" -> Each(val.elements, WriteValue)
    [] val.type = "annotation" -> WriteAnnotation(val.annotation)
    [] val.type = "scalar" -> << >>

WriteAnnotationSet(anns) == Each(anns, WriteAnnotation)

WriteAnnotationDirectory(cl) ==
  LET fields == MemberFields(cl)
      methods == MemberMethods(cl)
  IN  FieldIds(cl, fields)
        \o Each(fields, LAMBDA f : WriteAnnotationSet(f.annotations))
        \o MethodIds(cl, methods)
        \o Each(methods, LAMBDA m : WriteAnnotationSet(m.annotations))
        \o Each(methods, LAMBDA m : Each(m.parameter_annotations, WriteAnnotationSet))
        \o WriteAnnotationSet(cl.annotations)

WriteDalvik(insn) ==
  CASE insn.special = "string" -> <<Str(insn.str)>>
    [] insn.special = "type" -> <<Type(insn.str)>>
    [] insn.special = "field" -> <<FieldRef(insn.class, insn.name, insn.of)>>
    [] insn.special = "method" -> <<MethodRef(insn.class, insn.name, insn.proto)>>
    [] insn.special = "none" -> << >>

WriteDbgInsn(in) ==
  CASE in.opcode \in {"start_local", "start_local_extended"} ->
         Optional(Str, in.name) \o Optional(Type, in.type)
           \o (IF in.opcode = "start_local_extended" THEN Optional(Str, in.sig) ELSE << >>)
    [] in.opcode = "set_file" -> Optional(Str, in.name)
    [] OTHER -> << >>

WriteDebugInfoItem(dbg) ==
  Each(dbg.parameter_names, LAMBDA s : IF s = EmptyStr THEN << >> ELSE <<Str(s)>>)
    \o Each(BeforeEnd(dbg.insns), WriteDbgInsn)

WriteCodeItem(code) ==
  Each(code.debug_information, WriteDebugInfoItem)
    \o Each(code.insns, WriteDalvik)
    \o Each(code.tries, LAMBDA try : Each(try.handlers, LAMBDA h : <<Type(h)>>))

WriteClassData(cl) ==
  FieldIds(cl, MemberFields(cl))
    \o MethodIds(cl, MemberMethods(cl))
    \o Each(MemberMethods(cl), LAMBDA m : Each(m.code_body, WriteCodeItem))

(* A class with members keeps at most one value per static field.          *)
StaticValues(cl) ==
  IF MemberFields(cl) = << >> /\ MemberMethods(cl) = << >>
    THEN cl.static_values
    ELSE SubSeq(cl.static_values, 1,
                Min({Len(cl.static_fields), Len(cl.static_values)}))

WriteClass(cl) ==
  <<Type(cl.name)>>
    \o Optional(Type, cl.super_class)
    \o Each(cl.interfaces, LAMBDA t : <<Type(t)>>)
    \o Optional(Str, cl.source_file)
    \o WriteAnnotationDirectory(cl)
    \o WriteClassData(cl)
    \o Each(StaticValues(cl), WriteValue)
=============================================================================
