------------------------------ MODULE DexItems ------------------------------
(***************************************************************************)
(* The readers of the items a class is made of.  An item is described by   *)
(* what the file says: indexes into the sections (from 1; one outside of   *)
(* the section is the error it is), sequences of at most one element for   *)
(* an item that may be absent, NULL for an item that is not in the data    *)
(* section.  A reader yields the structure it fills, even if it fails,     *)
(* whether it succeeds and what it acquires.                               *)
(***************************************************************************)
EXTENDS DexMemory

CONSTANTS
  DebugCap,        (* debug instructions allocated at first, 10 in the code  *)
  ReadValue(_, _)  (* dxc_read_value, with a context: ReadValueBody          *)
ASSUME DebugCapAssumption == DebugCap \in Nat \ {0}

Result(value, ok, took) == [value |-> value, ok |-> ok, took |-> took]
Done(value, took) == Result(value, TRUE, took)
Failed(value) == Result(value, FALSE, << >>)

(* The result r with what was acquired before it, of the structure F makes *)
(* of its value, or of one that is F only if r succeeds.                   *)
After(refs, r) == [r EXCEPT !.took = refs \o @]
Fill(r, F(_)) == [r EXCEPT !.value = F(@)]
FillIfRead(r, F(_), Zero) == [r EXCEPT !.value = IF r.ok THEN F(@) ELSE Zero]

(* Reads one after the other, up to the first that fails; what is not read *)
(* stays Zero.                                                             *)
InOrder(reads, Zero) ==
  LET fails == {i \in DOMAIN reads : ~reads[i].ok}
      last == IF fails = {} THEN Len(reads) ELSE CHOOSE i \in fails : \A k \in fails : i <= k
  IN  Result([i \in DOMAIN reads |-> IF i <= last THEN reads[i].value ELSE Zero],
             fails = {},
             FlattenSeq([i \in 1..last |-> reads[i].took]))

ReadArray(reads, Zero, kind) ==
  After(<<Block(kind)>>, InOrder(reads, Zero))

(* A reference to the entry idx of a section, or none.                     *)
ReadRef(section, idx) ==
  IF idx \in DOMAIN section THEN Done(section[idx], <<section[idx]>>) ELSE Failed(NULL)
ReadRefP1(section, idx) == IF idx = NULL THEN Done(NULL, << >>) ELSE ReadRef(section, idx)

ReadStrstr(refs) == ReadArray(refs, NULL, "strstr")

RawFieldRefs(fld) == <<fld.defining_class, fld.type, fld.name>>
RawMethodRefs(mtd) == <<mtd.defining_class, mtd.name, mtd.prototype>>

(* The references that an index into a section of c makes.                 *)
Refs(c, section, idx) ==
  CASE section = "string" -> <<c.strs[idx]>>
    [] section = "type" -> <<c.types[idx]>>
    [] section \in {"field", "enum"} -> RawFieldRefs(c.fields[idx])
    [] section = "method" -> RawMethodRefs(c.methods[idx])
Indexes(c, section) ==
  CASE section = "string" -> DOMAIN c.strs
    [] section = "type" -> DOMAIN c.types
    [] section \in {"field", "enum"} -> DOMAIN c.fields
    [] section = "method" -> DOMAIN c.methods
-----------------------------------------------------------------------------
(* Values and annotations.                                                 *)

ReadValueArrayBy(c, values, Read(_, _)) ==
  ReadArray([i \in DOMAIN values |-> Read(c, values[i])], ZeroValue, "values")
ReadValueArray(c, values) == ReadValueArrayBy(c, values, ReadValue)

ReadParameter(c, p, Read(_, _)) ==
  Fill(InOrder(<<ReadRef(c.strs, p.name), Read(c, p.value)>>, ZeroValue),
       LAMBDA v : [name |-> v[1], value |-> v[2]])

ReadEncodedAnnotationBy(c, an, Read(_, _)) ==
  IF an = NULL \/ an.type \notin DOMAIN c.types THEN Failed(ZeroAnnotation)
  ELSE After(<<c.types[an.type]>>,
             Fill(ReadArray([i \in DOMAIN an.parameters |->
                               ReadParameter(c, an.parameters[i], Read)],
                            ZeroParameter, "parameters"),
                  LAMBDA ps : [type |-> c.types[an.type], parameters |-> ps]))
ReadEncodedAnnotation(c, an) == ReadEncodedAnnotationBy(c, an, ReadValue)

(* dxc_read_value, which reads the values in a value with Read.  The type  *)
(* of the value is set when the rest has been read: a value that fails is  *)
(* a byte, whatever it holds.                                              *)
ReadValueOf(c, val, Read(_, _)) ==
  CASE val.type \in RefTypes /\ val.idx \in Indexes(c, val.type) ->
         Done([type |-> val.type, refs |-> Refs(c, val.type, val.idx)], Refs(c, val.type, val.idx))
    [] val.type = "array" ->
         FillIfRead(ReadValueArrayBy(c, val.array, Read),
                    LAMBDA vs : [type |-> "array", array |-> vs], ZeroValue)
    [] val.type = "annotation" ->
         After(<<Block("annotation")>>,
               FillIfRead(ReadEncodedAnnotationBy(c, val.annotation, Read),
                          LAMBDA an : [type |-> "annotation", annotation |-> an], ZeroValue))
    [] val.type = "scalar" -> Done([type |-> "scalar"], << >>)
    [] val.type = "unreadable" \/ (val.type \in RefTypes /\ val.idx \notin Indexes(c, val.type)) ->
         Failed(ZeroValue)
ReadValueBody(c, val) == ReadValueOf(c, val, ReadValue)

ReadAnnotationList(c, anns) ==
  IF anns = NULL THEN Failed(NULL)
  ELSE ReadArray([i \in DOMAIN anns |-> ReadEncodedAnnotation(c, anns[i])],
                 ZeroAnnotation, "annotations")

(* A parameter without annotations gets an empty list.                     *)
ReadParameterAnnotations(c, panns) ==
  IF panns = NULL THEN Failed(NULL)
  ELSE ReadArray([i \in DOMAIN panns |-> ReadAnnotationList(c, panns[i])], NULL,
                 "parameter_annotations")
-----------------------------------------------------------------------------
(* Debug information.                                                      *)

(* A local that is not valid leaves its opcode and no block; an opcode     *)
(* outside of the data section is not read.                                *)
ReadLocal(opcode, r) ==
  IF r.ok THEN Done([opcode |-> opcode, p |-> r.value], <<Block("start_local")>> \o r.took)
  ELSE Failed([opcode |-> opcode, p |-> NULL])

ReadDbgInsn(c, in) ==
  CASE in.opcode \in Locals ->
         ReadLocal(in.opcode, InOrder(<<ReadRefP1(c.strs, in.name), ReadRefP1(c.types, in.type),
                                        ReadRefP1(c.strs, in.sig)>>, NULL))
    [] in.opcode = "set_file" ->
         Fill(ReadRefP1(c.strs, in.name), LAMBDA name : [opcode |-> "set_file", p |-> name])
    [] in.opcode = "unreadable" -> Failed(ZeroDbgInsn)
    [] in.opcode \notin Locals \cup {"set_file", "unreadable"} ->
         Done([opcode |-> in.opcode, p |-> NULL], << >>)

(* The last of insns ends the sequence or is unreadable.  The array grows  *)
(* when an instruction comes that it has no room for.                      *)
Room(n) ==
  LET sizes == {s \in {DebugCap * 2^k : k \in 0..n} : n <= s}
  IN  CHOOSE s \in sizes : \A t \in sizes : s <= t

ReadDbgInsns(c, insns) ==
  LET ok(i) == ReadDbgInsn(c, insns[i]).ok
      begun == {i \in DOMAIN insns :
                  insns[i].opcode # "unreadable" /\ \A k \in 1..(i - 1) : ok(k)}
      grown(read) == [i \in 1..Room(Cardinality(begun)) |->
                        IF i \in begun THEN read[i] ELSE ZeroDbgInsn]
      cut(read) == IF \A i \in DOMAIN insns : ok(i) THEN read ELSE grown(read)
  IN  Fill(ReadArray([i \in DOMAIN insns |-> ReadDbgInsn(c, insns[i])], ZeroDbgInsn, "debug_insns"),
           cut)

ReadParameterName(c, name) ==
  IF name = NULL THEN Done(EmptyStr, <<EmptyStr>>) ELSE ReadRef(c.strs, name)

ReadDebugSection(c, di) ==
  IF di = NULL THEN Failed(ZeroDebugInfo)
  ELSE Fill(InOrder(<<ReadStrstr([i \in DOMAIN di.parameter_names |->
                                    ReadParameterName(c, di.parameter_names[i])]),
                      ReadDbgInsns(c, di.insns)>>, NULL),
            LAMBDA v : [parameter_names |-> v[1], insns |-> v[2]])
-----------------------------------------------------------------------------
(* Code.                                                                   *)

SwitchTables(special) ==
  CASE special = "packed_switch" -> <<Block("targets")>>
    [] special = "sparse_switch" -> <<Block("keys"), Block("targets")>>
    [] special = "fill_data_array" -> <<Block("data")>>
    [] special = "none" -> << >>

(* An index that is not valid leaves the opcode and no reference.          *)
ReadInsn(c, in) ==
  CASE in.special \in {"string", "type", "field", "method"} ->
         IF in.idx \in Indexes(c, in.special)
         THEN Done([special |-> in.special, refs |-> Refs(c, in.special, in.idx)],
                   Refs(c, in.special, in.idx))
         ELSE Failed([special |-> in.special, refs |-> << >>])
    [] in.special \in {"packed_switch", "sparse_switch", "fill_data_array", "none"} ->
         Done([special |-> in.special, refs |-> SwitchTables(in.special)], SwitchTables(in.special))
    [] in.special = "unreadable" -> Failed(ZeroInsn)

ReadDalvik(c, insns) ==
  IF insns = NULL THEN Failed(NULL)
  ELSE ReadArray([i \in DOMAIN insns |-> ReadInsn(c, insns[i])], ZeroInsn, "insns")

ReadHandler(c, h) ==
  FillIfRead(ReadRef(c.types, h.type), LAMBDA t : [type |-> t, addr |-> h.addr], ZeroHandler)

(* A handler that catches all has an address only, read after its block is *)
(* allocated.                                                              *)
ReadCatchAll(catch_all) ==
  IF catch_all = << >> THEN Done(NULL, << >>)
  ELSE Result(ZeroHandler, catch_all[1] # NULL, <<Block("catch_all")>>)

ReadTryBlock(c, t) ==
  IF t = NULL THEN Failed(ZeroTryBlock)
  ELSE Fill(InOrder(<<ReadArray([i \in DOMAIN t.handlers |-> ReadHandler(c, t.handlers[i])],
                                ZeroHandler, "handlers"),
                      ReadCatchAll(t.catch_all)>>, NULL),
            LAMBDA v : [handlers |-> v[1], catch_all_handler |-> v[2]])

ReadDebug(c, dbg) ==
  IF dbg = << >> THEN Done(NULL, << >>)
  ELSE After(<<Block("debug_info")>>, ReadDebugSection(c, dbg[1]))

ReadCode(c, code) ==
  IF code = NULL THEN Failed(ZeroCode)
  ELSE Fill(InOrder(<<ReadDebug(c, code.debug_information), ReadDalvik(c, code.insns),
                      ReadArray([i \in DOMAIN code.tries |-> ReadTryBlock(c, code.tries[i])],
                                ZeroTryBlock, "tries")>>, NULL),
            LAMBDA v : [debug_information |-> v[1], insns |-> v[2], tries |-> v[3]])
=============================================================================
