------------------------------- MODULE CcTree -------------------------------
(***************************************************************************)
(* The C++ classes of src/dxcut/cc.h as trees, made from the structures of *)
(* a file by the fill_ functions of src/src/cc.cpp and turned into other   *)
(* structures by its copy_ functions.                                      *)
(*                                                                         *)
(* A std::string is the number of its text; it is 0 for "", whether a file  *)
(* has such a string or the code makes one of NULL.  Fill operators take   *)
(* ps, the contents of the prototypes.  Copy operators are readers in the  *)
(* sense of DexItems: they yield a structure and what they allocate for    *)
(* it.  Numbers that nothing points to (flags, addresses, line numbers)    *)
(* are left out.                                                           *)
(***************************************************************************)
EXTENDS DexItems

CONSTANT EmptyTexts   (* the indexes of the strings of a file that are ""   *)
ASSUME EmptyTextsAssumption == EmptyTexts \subseteq Nat \ {0}

Lost == -1                         (* the text behind NULL: ub              *)
List(texts) == <<"list", texts>>   (* a prototype that a copy function made *)

Letters(s) == IF s \in EmptyTexts THEN 0 ELSE s
Text(r) == IF r = NULL THEN Lost ELSE Letters(r[2])
TextOrEmpty(r) == IF r = NULL THEN 0 ELSE Text(r)

IsNull(r) == r = NULL
FillStrArray(list) == LET s == Before(list, IsNull) IN [k \in DOMAIN s |-> Text(s[k])]

FillPrototype(ps, r) == IF r[1] = "list" THEN r[2] ELSE FillStrArray(ps[r[2]])

(* fill_array: as many elements as there are before the sentinel.          *)
Filled(a, Sentinel(_), F(_)) ==
  LET elements == Before(a, Sentinel) IN [i \in DOMAIN elements |-> F(elements[i])]
-----------------------------------------------------------------------------
(* From the structures to the classes.                                     *)

RECURSIVE FillValue(_, _), FillAnnotation(_, _)

FillValues(ps, vs) == Filled(vs, LAMBDA v : v.type = "sentinel", LAMBDA v : FillValue(ps, v))

FillValue(ps, v) ==
  CASE v.type = "method" ->
         [type |-> v.type, texts |-> <<Text(v.refs[1]), Text(v.refs[2])>>,
          prototype |-> FillPrototype(ps, v.refs[3])]
    [] v.type \in RefTypes \ {"method"} ->
         [type |-> v.type, texts |-> [k \in DOMAIN v.refs |-> Text(v.refs[k])]]
    [] v.type = "array" -> [type |-> v.type, array |-> FillValues(ps, v.array)]
    [] v.type = "annotation" ->
         [type |-> v.type, annotation |-> FillAnnotation(ps, v.annotation)]
    [] v.type = "scalar" -> [type |-> v.type]

FillParameter(ps, p) == [name |-> Text(p.name), value |-> FillValue(ps, p.value)]

FillAnnotation(ps, an) ==
  [type |-> Text(an.type),
   parameters |-> Filled(an.parameters, LAMBDA p : p.name = NULL, LAMBDA p : FillParameter(ps, p))]

FillAnnotations(ps, anns) ==
  Filled(anns, LAMBDA an : an.parameters = NULL, LAMBDA an : FillAnnotation(ps, an))

FillField(ps, fld) ==
  [type |-> Text(fld.type), name |-> Text(fld.name),
   annotations |-> FillAnnotations(ps, fld.annotations)]

FillHandler(h) == [type |-> TextOrEmpty(h.type), addr |-> h.addr]

FillTryBlock(t) ==
  [handlers |-> Filled(t.handlers, LAMBDA h : h.addr = LastAddr, FillHandler),
   catch_all |-> IF t.catch_all_handler = NULL THEN << >>
                 ELSE <<FillHandler(t.catch_all_handler)>>]

(* The name, the type and, of an extended local, the signature.            *)
FillDebugInsn(in) ==
  [opcode |-> in.opcode,
   texts |-> CASE in.opcode = "start_local" -> <<Text(in.p[1]), Text(in.p[2])>>
               [] in.opcode = "start_local_extended" ->
                    <<Text(in.p[1]), Text(in.p[2]), Text(in.p[3])>>
               [] in.opcode = "set_file" -> <<Text(in.p)>>
               [] OTHER -> << >>]

(* DBG_END_SEQUENCE is the last instruction that is copied.                *)
FillDebugInfo(di) ==
  [parameter_names |-> FillStrArray(di.parameter_names),
   insns |-> Append(Filled(di.insns, LAMBDA in : in.opcode = "end_sequence", FillDebugInsn),
                    FillDebugInsn(ZeroDbgInsn))]

FillInsn(ps, in) ==
  CASE in.special = "method" ->
         [special |-> in.special, texts |-> <<Text(in.refs[1]), Text(in.refs[2])>>,
          prototype |-> FillPrototype(ps, in.refs[3])]
    [] in.special \in {"string", "type", "field"} ->
         [special |-> in.special, texts |-> [k \in DOMAIN in.refs |-> Text(in.refs[k])]]
    [] OTHER -> [special |-> in.special]

FillCode(ps, code) ==
  [debug_information |-> IF code.debug_information = NULL THEN << >>
                         ELSE <<FillDebugInfo(code.debug_information)>>,
   tries |-> Filled(code.tries, LAMBDA t : t.handlers = NULL, FillTryBlock),
   insns |-> [i \in DOMAIN code.insns |-> FillInsn(ps, code.insns[i])]]

FillMethod(ps, mtd) ==
  [name |-> Text(mtd.name), prototype |-> FillPrototype(ps, mtd.prototype),
   code_body |-> IF mtd.code_body = NULL THEN << >> ELSE <<FillCode(ps, mtd.code_body)>>,
   annotations |-> FillAnnotations(ps, mtd.annotations),
   parameter_annotations |-> Filled(mtd.parameter_annotations, IsNull,
                                    LAMBDA anns : FillAnnotations(ps, anns))]

FillClass(ps, cl) ==
  LET fields(flds) == Filled(flds, LAMBDA fld : fld.name = NULL, LAMBDA fld : FillField(ps, fld))
      methods(mtds) ==
        Filled(mtds, LAMBDA mtd : mtd.prototype = NULL, LAMBDA mtd : FillMethod(ps, mtd))
  IN  [name |-> Text(cl.name), super_class |-> TextOrEmpty(cl.super_class),
       source_file |-> TextOrEmpty(cl.source_file), interfaces |-> FillStrArray(cl.interfaces),
       annotations |-> FillAnnotations(ps, cl.annotations),
       static_values |-> FillValues(ps, cl.static_values),
       static_fields |-> fields(cl.static_fields), instance_fields |-> fields(cl.instance_fields),
       direct_methods |-> methods(cl.direct_methods),
       virtual_methods |-> methods(cl.virtual_methods)]

(* As many hashes as there are names of dependencies; the names are not    *)
(* told apart.                                                             *)
FillMetadata(data) == [deps |-> Before(data.deps, IsNull)]

FillFile(ps, dex) ==
  [classes |-> Filled(dex.classes, LAMBDA cl : cl.name = NULL, LAMBDA cl : FillClass(ps, cl)),
   metadata |-> IF dex.metadata = NULL THEN << >> ELSE <<FillMetadata(dex.metadata)>>]

(* What fill_debug_insn and fill_metadata read without looking for NULL.   *)
NamelessDebug(mtd) ==
  /\ mtd.code_body # NULL
  /\ mtd.code_body.debug_information # NULL
  /\ LET insns == FillDebugInfo(mtd.code_body.debug_information).insns
     IN  \E i \in DOMAIN insns : Lost \in ToSet(insns[i].texts)
MeetsNull(dex) ==
  \/ \E c \in DOMAIN dex.classes :
       LET mtds == dex.classes[c].direct_methods \o dex.classes[c].virtual_methods
       IN  \E m \in DOMAIN mtds : NamelessDebug(mtds[m])
  \/ dex.metadata # NULL /\ dex.metadata.deps = NULL
-----------------------------------------------------------------------------
(* From the classes to structures of their own.                            *)

CopyStr(text) == Done(Str(text), <<Str(text)>>)

CopyStrNullMut(text) == CopyStr(text)   \* "" is kept as a string

(* A string that may be absent is absent if it is "", also one that was    *)
(* read.                                                                   *)
CopyStrNull(text) == IF text = 0 THEN Done(NULL, << >>) ELSE CopyStr(text)

CopyStrArray(texts) == ReadStrstr([k \in DOMAIN texts |-> CopyStr(texts[k])])

(* A list that something shares the way prototypes are shared.             *)
CopyPrototype(texts) ==
  Done(List(texts), <<List(texts)>> \o [k \in DOMAIN texts |-> Str(texts[k])])

(* copy_array: the elements, in a block with room for the sentinel.        *)
CopyArray(a, Copy(_), kind) == ReadArray([i \in DOMAIN a |-> Copy(a[i])], NULL, kind)

(* All of some copies, and the structure that F makes of them.             *)
Together(copies, F(_)) == Fill(InOrder(copies, NULL), F)

CopyTexts(texts) == InOrder([k \in DOMAIN texts |-> CopyStr(texts[k])], NULL)
CopyReference(x) ==
  IF "prototype" \in DOMAIN x
    THEN Together(<<CopyStr(x.texts[1]), CopyStr(x.texts[2]), CopyPrototype(x.prototype)>>,
                  LAMBDA refs : refs)
    ELSE CopyTexts(x.texts)

RECURSIVE CopyValue(_), CopyAnnotation(_)

CopyValue(v) ==
  CASE v.type \in RefTypes ->
         Fill(CopyReference(v), LAMBDA refs : [type |-> v.type, refs |-> refs])
    [] v.type = "array" ->
         Fill(CopyArray(v.array, CopyValue, "values"), LAMBDA vs : [type |-> "array", array |-> vs])
    [] v.type = "annotation" ->
         After(<<Block("annotation")>>,
               Fill(CopyAnnotation(v.annotation),
                    LAMBDA an : [type |-> "annotation", annotation |-> an]))
    [] v.type = "scalar" -> Done(v, << >>)

CopyParameter(p) ==
  Together(<<CopyStr(p.name), CopyValue(p.value)>>, LAMBDA c : [name |-> c[1], value |-> c[2]])

CopyAnnotation(an) ==
  Together(<<CopyStr(an.type), CopyArray(an.parameters, CopyParameter, "parameters")>>,
           LAMBDA c : [type |-> c[1], parameters |-> c[2]])

CopyAnnotations(anns) == CopyArray(anns, CopyAnnotation, "annotations")

CopyField(fld) ==
  Together(<<CopyStr(fld.type), CopyStr(fld.name), CopyAnnotations(fld.annotations)>>,
           LAMBDA c : [type |-> c[1], name |-> c[2], annotations |-> c[3]])

CopyHandler(h) == Fill(CopyStrNull(h.type), LAMBDA t : [type |-> t, addr |-> h.addr])

CopyCatchAll(hs) ==
  IF hs = << >> THEN Done(NULL, << >>) ELSE After(<<Block("catch_all")>>, CopyHandler(hs[1]))

CopyTryBlock(t) ==
  Together(<<CopyArray(t.handlers, CopyHandler, "handlers"), CopyCatchAll(t.catch_all)>>,
           LAMBDA c : [handlers |-> c[1], catch_all_handler |-> c[2]])

(* sig is NULL unless the local is extended: its block is cleared.         *)
CopyDebugInsn(in) ==
  LET texts == InOrder([k \in DOMAIN in.texts |-> CopyStrNull(in.texts[k])], NULL)
      as(p) == [opcode |-> in.opcode, p |-> p]
  IN  CASE in.opcode = "start_local" ->
             After(<<Block("start_local")>>,
                   Fill(texts, LAMBDA refs : as(Append(refs, NULL))))
        [] in.opcode = "start_local_extended" ->
             After(<<Block("start_local")>>, Fill(texts, as))
        [] in.opcode = "set_file" -> Fill(texts, LAMBDA refs : as(refs[1]))
        [] OTHER -> Done(as(NULL), << >>)

CopyDebugInfo(dis) ==
  IF dis = << >> THEN Done(NULL, << >>)
  ELSE After(<<Block("debug_info")>>,
             Together(<<CopyStrArray(dis[1].parameter_names),
                        CopyArray(dis[1].insns, CopyDebugInsn, "debug_insns")>>,
                      LAMBDA c : [parameter_names |-> c[1], insns |-> c[2]]))

CopyInstruction(in) ==
  IF in.special \in {"string", "type", "field", "method"}
    THEN Fill(CopyReference(in), LAMBDA refs : [special |-> in.special, refs |-> refs])
    ELSE Done([special |-> in.special, refs |-> SwitchTables(in.special)],
              SwitchTables(in.special))

CopyCode(codes) ==
  IF codes = << >> THEN Done(NULL, << >>)
  ELSE After(<<Block("code")>>,
             Together(<<CopyDebugInfo(codes[1].debug_information),
                        CopyArray(codes[1].tries, CopyTryBlock, "tries"),
                        CopyArray(codes[1].insns, CopyInstruction, "insns")>>,
                      LAMBDA c : [debug_information |-> c[1], tries |-> c[2], insns |-> c[3]]))

CopyMethod(mtd) ==
  Together(<<CopyStr(mtd.name), CopyPrototype(mtd.prototype), CopyCode(mtd.code_body),
             CopyAnnotations(mtd.annotations),
             CopyArray(mtd.parameter_annotations, CopyAnnotations, "parameter_annotations")>>,
           LAMBDA c : [name |-> c[1], prototype |-> c[2], code_body |-> c[3],
                       annotations |-> c[4], parameter_annotations |-> c[5]])

CopyClass(cl) ==
  Together(<<CopyStr(cl.name), CopyStrNull(cl.super_class), CopyStrArray(cl.interfaces),
             CopyStrNull(cl.source_file), CopyAnnotations(cl.annotations),
             CopyArray(cl.static_values, CopyValue, "values"),
             CopyArray(cl.static_fields, CopyField, "fields"),
             CopyArray(cl.instance_fields, CopyField, "fields"),
             CopyArray(cl.direct_methods, CopyMethod, "methods"),
             CopyArray(cl.virtual_methods, CopyMethod, "methods")>>,
           LAMBDA c : [name |-> c[1], super_class |-> c[2], interfaces |-> c[3],
                       source_file |-> c[4], annotations |-> c[5], static_values |-> c[6],
                       static_fields |-> c[7], instance_fields |-> c[8],
                       direct_methods |-> c[9], virtual_methods |-> c[10]])

CopyMetadata(mds) ==
  IF mds = << >> THEN Done(NULL, << >>)
  ELSE After(<<Block("odex"), Block("id")>>,
             Together(<<CopyArray(mds[1].deps, LAMBDA d : Done(d, <<d>>), "strstr"),
                        CopyArray(mds[1].deps, LAMBDA d : Done(Block("sha"), <<Block("sha")>>),
                                  "dep_shas")>>,
                      LAMBDA c : [deps |-> c[1], dep_shas |-> c[2], id |-> Block("id")]))

CopyFile(ccf) ==
  After(<<Block("file")>>,
        Together(<<CopyArray(ccf.classes, CopyClass, "classes"), CopyMetadata(ccf.metadata)>>,
                 LAMBDA c : [classes |-> c[1], metadata |-> c[2]]))
=============================================================================
