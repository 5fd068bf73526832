------------------------------ MODULE MCCodec ------------------------------
(***************************************************************************)
(* Code items, value arrays, debug information, classes and strings on a   *)
(* small scale.                                                            *)
(* Nibbles have 8 values, so a byte of an instruction has 64 and a code    *)
(* unit 4096; leb128 groups have 3 bits and a dx_uint of them 8; a byte of *)
(* an encoded value has 3 bits.                                            *)
(***************************************************************************)
EXTENDS Codec, Bitwise

MCBase == 8
MCBitOr(a, b) == a | b

Row(kind, letter, size) ==
  [kind |-> kind, letter |-> letter, size |-> size, special |-> "none", pos |-> 0, width |-> 0]
With(row, special, pos, width) ==
  [row EXCEPT !.special = special, !.pos = pos, !.width = width]

(* One opcode for each shape of row in dex_opcode_formats.                 *)
MCFormats ==
  [o \in 0..23 |->
     CASE o = 0 -> Row("0", "x", 1)                                 \* nop
       [] o = 1 -> Row("2", "x", 1)                                 \* move
       [] o = 2 -> Row("2", "x", 2)                                 \* move/from16
       [] o = 3 -> Row("2", "x", 3)                                 \* move/16
       [] o = 4 -> Row("1", "x", 1)                                 \* move-result
       [] o = 5 -> With(Row("1", "n", 1), "signed", 0, 1)           \* const/4
       [] o = 6 -> With(Row("1", "s", 2), "signed", 4, 4)           \* const/16
       [] o = 7 -> With(Row("1", "i", 3), "signed", 4, 8)           \* const
       [] o = 8 -> With(Row("1", "h", 2), "signed", 4, 4)           \* const/high16
       [] o = 9 -> With(Row("1", "l", 5), "signed", 4, 16)          \* const-wide
       [] o = 10 -> With(Row("1", "c", 2), "index", 4, 4)           \* const-string
       [] o = 11 -> With(Row("1", "c", 3), "index", 4, 8)           \* const-string/jumbo
       [] o = 12 -> With(Row("2", "c", 2), "index", 4, 4)           \* new-array
       [] o = 13 -> With(Row("5", "c", 3), "index", 4, 4)           \* invoke-virtual
       [] o = 14 -> With(Row("r", "c", 3), "index", 4, 4)           \* invoke-virtual/range
       [] o = 15 -> With(Row("1", "t", 3), "signed", 4, 8)          \* fill-array-data
       [] o = 16 -> With(Row("0", "t", 1), "signed", 0, 2)          \* goto
       [] o = 17 -> With(Row("0", "t", 2), "signed", 4, 4)          \* goto/16
       [] o = 18 -> With(Row("0", "t", 3), "signed", 4, 8)          \* goto/32
       [] o = 19 -> Row("3", "x", 2)                                \* cmpl-float
       [] o = 20 -> With(Row("2", "t", 2), "signed", 4, 4)          \* if-eq
       [] o = 21 -> With(Row("1", "t", 2), "signed", 4, 4)          \* if-eqz
       [] o = 22 -> With(Row("2", "s", 2), "signed", 4, 4)          \* add-int/lit16
       [] o = 23 -> With(Row("2", "b", 2), "signed", 4, 2)]         \* add-int/lit8

(* The ends of what fits a field of each width.                            *)
MCSpecials(f) ==
  CASE f.special = "none" -> {}
    [] f.width = 1 -> {-4, -1, 3}
    [] f.width = 2 -> {-32, -1, 31}
    [] f.width = 4 /\ f.special = "signed" -> {-2048, 2047}
    [] f.width = 4 /\ f.special = "index" -> {0, 4095}
    [] f.special = "signed" -> {-2049, 4096}
    [] OTHER -> {4096}

MCRegisters == {7, 8, 63, 64, 4095}
MCCounts == {0, 2, 5, 6}
MCJunk == {0, MCBase - 1}

(* Every register and one more.  The second register of "2b" is left out:  *)
(* dxc_set_register mixes it with the old one and clears the constant, see *)
(* MCCodecLiteral.cfg.                                                     *)
MCSetIndexes(insn) ==
  IF Fmt(insn).letter = "b" THEN {0, 2} ELSE (0..dxc_num_registers(insn)) \cap 0..5
LiteralIndexes(insn) == 0..dxc_num_registers(insn)

Insn(o) ==
  [opcode |-> o, nib |-> [p \in 2..11 |-> IF o = 0 THEN 0 ELSE p % 8],
   special |-> IF MCFormats[o].special = "none" THEN 0 ELSE 1, table |-> NoTable]
Table(hi, t) == [Insn(0) EXCEPT !.nib[2] = hi, !.table = t]

Tables ==
  {Table(Packed, [NoTable EXCEPT !.first_key = -3, !.targets = <<5, -4097>>]),
   Table(Sparse, [NoTable EXCEPT !.keys = <<-1, 4096>>, !.targets = <<7, -8>>]),
   Table(FillArray, [NoTable EXCEPT !.element_width = 1, !.size = 3, !.data = <<63, 0, 8>>]),
   Table(FillArray, [NoTable EXCEPT !.element_width = 4, !.size = 1, !.data = <<1, 2, 3, 60>>])}

Code(insns, tries) == [kind |-> "code", code |-> [insns |-> insns, tries |-> tries]]
Try(start, handlers, catch_all) ==
  [start_addr |-> start, insn_count |-> 2, handlers |-> handlers, catch_all |-> catch_all]
Handlers(n) == [k \in 1..n |-> [type |-> 30 * k, addr |-> 64 + k]]

TryLists ==
  {<<Try(0, Handlers(1), << >>)>>,
   <<Try(0, << >>, <<200>>)>>,
   <<Try(4096, Handlers(4), <<7>>), Try(3, Handlers(4), << >>)>>,
   <<Try(9, Handlers(2), <<255>>), Try(2, Handlers(1), << >>), Try(9, << >>, <<8>>)>>}

CodeItems ==
  {Code(<<Insn(o), Insn(4)>>, << >>) : o \in DOMAIN MCFormats}
    \cup {Code(<<t, Insn(16)>>, << >>) : t \in Tables}
    \cup {Code(<<Insn(16), t>>, << >>) : t \in Tables}
    \cup {Code(<<Insn(4)>> \o more, tries) : more \in {<< >>, <<Insn(1)>>}, tries \in TryLists}

Val(type, v) == [type |-> type, v |-> v]
Array(vs) == ArrayValue(vs)
Param(name, value) == [name |-> name, value |-> value]
Annotation(params) == AnnotationValue([type |-> 9, parameters |-> params])

(* The ends of each number of bytes.                                       *)
Numbers ==
  {Val("byte", v) : v \in {-4, -1, 0, 3}}
    \cup {Val("short", v) : v \in {-32, -5, -4, -1, 0, 3, 4, 31}}
    \cup {Val("char", v) : v \in {0, 7, 8, 63}}
    \cup {Val(t, v) : t \in {"int", "long"}, v \in {-2048, -33, -32, -5, -4, -1, 0, 3, 4, 31, 32, 2047}}
    \cup {Val("long", v) : v \in {-8388608, 2048, 8388607}}
    \cup {Val(t, v) : t \in IndexTypes, v \in {0, 7, 8, 4095}}
    \cup {Val("float", v) : v \in {0, 1, 2048, 4095}}
    \cup {Val("double", v) : v \in {0, 7, 16777215}}
    \cup {Val("boolean", 0), Val("boolean", 1), Val("null", 0)}

ValueLists ==
  {<<n>> : n \in Numbers}
    \cup {<<n, Val("int", -5), Val("string", 8)>> : n \in Numbers}
    \cup {<< >>, <<Array(<< >>)>>, <<Array(<<Array(<<Val("long", -33)>>), Val("null", 0)>>)>>,
          <<Annotation(<<Param(40, Val("int", -4)), Param(2, Array(<<Val("char", 8)>>)),
                         Param(40, Val("byte", 3))>>), Val("boolean", 1)>>,
          <<Annotation(<< >>), Annotation(<<Param(0, Annotation(<<Param(70, Val("enum", 9))>>))>>)>>}

Op(op, args) == [op |-> op, args |-> args]
Debugs ==
  {[line_start |-> l, parameter_names |-> names, insns |-> insns] :
     l \in {0, 7, 8, 255}, names \in {<< >>, <<0, NoIndex, 254>>},
     insns \in {<< >>,
                <<Op("set_file", <<NoIndex>>), Op("advance_line", <<-4>>), Op("special", << >>),
                  Op("advance_line", <<3>>), Op("advance_line", <<-128>>),
                  Op("advance_line", <<127>>), Op("advance_line", <<4>>),
                  Op("advance_line", <<-5>>)>>,
                <<Op("start_local_extended", <<0, 63, NoIndex, 7>>), Op("advance_pc", <<255>>),
                  Op("start_local", <<64, NoIndex, 6>>), Op("end_local", <<64>>),
                  Op("restart_local", <<8>>), Op("set_file", <<0>>)>>}}

FieldOf(id, flags, type, anns) ==
  [id |-> id, flags |-> flags, type |-> type, annotations |-> anns]
MethodOf(id, flags, code, anns, params) ==
  [id |-> id, flags |-> flags, code |-> code, annotations |-> anns,
   parameter_annotations |-> params]

(* Members in and out of order, with and without values, code and          *)
(* annotations.                                                            *)
Empty == NoClassData @@ [annotations |-> 0, static_values |-> << >>]
Statics == <<FieldOf(70, 9, "int", 0), FieldOf(3, 255, "null", 200), FieldOf(12, 0, "char", 100)>>
Classes ==
  {[Empty EXCEPT !.annotations = a, !.static_values = vs] :
     a \in {0, 40}, vs \in {<< >>, <<Val("int", 4)>>}}
    \cup {[Empty EXCEPT !.static_fields = fs, !.static_values = vs] :
            fs \in {<<Statics[k[1]], Statics[k[2]], Statics[k[3]]>> :
                     k \in {<<1, 2, 3>>, <<2, 3, 1>>, <<3, 2, 1>>}},
            vs \in {SubSeq(<<Val("int", -5), Val("string", 8), Val("char", 7), Val("int", 1)>>, 1, n) :
                     n \in 0..4}}
    \cup {[static_fields |-> Statics, instance_fields |-> <<FieldOf(255, 7, "byte", 17), FieldOf(0, 8, "null", 0)>>,
           direct_methods |-> <<MethodOf(64, 63, 0, 0, 33), MethodOf(8, 64, 255, 50, 0)>> \o more,
           virtual_methods |-> more2, annotations |-> 5,
           static_values |-> <<Val("int", 31)>>] :
            more \in {<< >>, <<MethodOf(7, 0, 7, 50, 33), MethodOf(200, 1, 0, 0, 0)>>},
            more2 \in {<< >>, <<MethodOf(9, 1, 128, 0, 0), MethodOf(1, 1, 64, 20, 21)>>}}

(* Strings of the units A, 0, 0x7F, 0x80, 0x7FF, 0x800 and 0xFFFF.         *)
UnitBytes == {<<65>>, <<192, 128>>, <<127>>, <<194, 128>>, <<223, 191>>, <<224, 160, 128>>, <<239, 191, 191>>}
Short == {<< >>} \cup UnitBytes \cup {u \o v : u, v \in UnitBytes}
StringLists ==
  {<<u, v>> : u, v \in Short} \cup {<<w \o u, w, w \o v, u, v>> : w \in {<<65, 66>>, <<192, 128>>}, u, v \in UnitBytes}

MCItems ==
  CodeItems \cup {[kind |-> "values", values |-> vs] : vs \in ValueLists}
            \cup {[kind |-> "debug", debug |-> d] : d \in Debugs}
            \cup {[kind |-> "class", class |-> cl] : cl \in Classes}
            \cup {[kind |-> "strings", strings |-> s] : s \in StringLists}

LiteralItems == {Code(<<Insn(23), Insn(4)>>, << >>)}

(* After dxc_set_register has reported success the register is the one     *)
(* asked for: "Sets the index'th register used by this instruction."       *)
SetsRegister ==
  [][\A k \in 0..1, reg \in Registers :
       SetRegister(k, reg) /\ ret' # -1 => dxc_get_register(First', k) = reg]_codecVars
=============================================================================
