---------------------------- MODULE Instructions ----------------------------
(***************************************************************************)
(* The instructions of a method: the register functions of                 *)
(* src/src/dalvik.c, the encoding of write_dalvik (src/src/write.c) and    *)
(* the decoding of dxc_read_dalvik (src/src/dalvik.c).                     *)
(*                                                                         *)
(* Words are made of nibbles of Base values.  An instruction consists of   *)
(* code units of four nibbles, numbered from the low nibble of its first   *)
(* unit: 0 and 1 are the opcode, 2 and 3 are hi_byte, 4..7 are param[0]    *)
(* and 8..11 are param[1].                                                 *)
(***************************************************************************)
EXTENDS Integers, Sequences, SequencesExt

CONSTANTS
  Base,          (* values of a nibble: 16 in the code                      *)
  BitOr(_, _),   (* bitwise or of two nibbles                               *)
  Formats        (* opcode -> its row of dex_opcode_formats                 *)

ASSUME BaseAssumption == Base \in Nat /\ Base > 6
ASSUME FormatAssumption ==
  \A o \in DOMAIN Formats :
    /\ Formats[o].kind \in {"0", "1", "2", "3", "5", "r"}
    /\ Formats[o].size \in 1..5
    /\ Formats[o].special \in {"none", "signed", "index"}

(* A number as n nibbles, the lowest first, and back.                      *)
Digits(v, n) ==
  LET rest[k \in 1..n] == IF k = 1 THEN v ELSE rest[k - 1] \div Base
  IN  [k \in 1..n |-> rest[k] % Base]
Number(ds) == FoldRight(LAMBDA d, acc : acc * Base + d, ds, 0)

(* if(v & (1ULL << (size * 4 - 1))): sign extension. *)
SignedNumber(ds) ==
  LET top == ds[Len(ds)]
  IN  FoldRight(LAMBDA d, acc : acc * Base + d, Front(ds),
                IF 2 * top >= Base THEN top - Base ELSE top)

Fmt(insn) == Formats[insn.opcode]
Field(insn, places) == [k \in DOMAIN places |-> insn.nib[places[k]]]

(* The instruction with value v in the nibbles places. *)
Put(insn, places, v) ==
  LET ds == Digits(v, Len(places))
  IN  [insn EXCEPT !.nib = [p \in DOMAIN @ |->
         IF p \in Range(places) THEN ds[CHOOSE k \in DOMAIN places : places[k] = p]
         ELSE @[p]]]

HiByte == <<2, 3>>
Param0 == <<4, 5, 6, 7>>
Param1 == <<8, 9, 10, 11>>
-----------------------------------------------------------------------------
(***************************************************************************)
(* Registers.                                                              *)
(***************************************************************************)
NamedRegisters == [k \in {"0", "1", "2", "3"} |->
                     CASE k = "0" -> 0 [] k = "1" -> 1 [] k = "2" -> 2 [] k = "3" -> 3]

dxc_num_registers(insn) ==
  CASE Fmt(insn).kind = "r" -> Number(Field(insn, HiByte))
    [] Fmt(insn).kind = "5" -> insn.nib[3]
    [] OTHER -> NamedRegisters[Fmt(insn).kind]

(* What a call changes and what it returns. *)
Result(insn, r) == [insn |-> insn, ret |-> r]

(* Mutant: the five registers of a call are counted from zero.             *)
SetNumRegistersMut(insn, n) ==
  LET old == dxc_num_registers(insn)
  IN  CASE Fmt(insn).kind = "r" -> Result(Put(insn, HiByte, n), old)
        [] Fmt(insn).kind = "5" ->
             IF n > 6 THEN Result(insn, -1) ELSE Result(Put(insn, <<3>>, n), old)
        [] OTHER ->
             IF n # old THEN Result(insn, -1) ELSE Result(insn, old)

dxc_set_num_registers(insn, n) ==
  LET old == dxc_num_registers(insn)
  IN  CASE Fmt(insn).kind = "r" -> Result(Put(insn, HiByte, n), old)
        [] Fmt(insn).kind = "5" ->
             IF n > 5 THEN Result(insn, -1) ELSE Result(Put(insn, <<3>>, n), old)
        [] OTHER ->
             IF n # old THEN Result(insn, -1) ELSE Result(insn, old)

(* The nibbles that dxc_get_register reads for register k.                 *)
GetPlaces(f, k) ==
  CASE f.kind = "1" /\ f.letter = "n" -> <<2>>
    [] f.kind = "1" /\ f.letter # "n" -> HiByte
    [] f.kind = "2" /\ f.letter = "x" /\ f.size = 3 -> IF k = 0 THEN Param0 ELSE Param1
    [] f.kind = "2" /\ f.letter = "x" /\ f.size = 2 -> IF k = 0 THEN HiByte ELSE Param0
    [] f.kind = "2" /\ f.letter = "b" -> IF k = 0 THEN HiByte ELSE <<4, 5>>
    [] f.kind = "2" /\ (f.letter \in {"t", "s", "c"} \/ f.size = 1) -> <<2 + k>>
    [] f.kind = "3" -> <<2 + 2 * k, 3 + 2 * k>>
    [] f.kind = "5" -> IF k = 4 THEN <<2>> ELSE <<8 + k>>
    [] f.kind = "r" -> Param1

dxc_get_register(insn, k) ==
  IF k >= dxc_num_registers(insn) THEN -1
  ELSE Number(Field(insn, GetPlaces(Fmt(insn), k))) + (IF Fmt(insn).kind = "r" THEN k ELSE 0)

dxc_register_width(f, k) ==
  CASE f.kind = "r" -> 4
    [] f.kind = "1" -> IF f.letter = "n" THEN 1 ELSE 2
    [] f.kind = "2" /\ f.letter = "x" /\ f.size = 3 -> 4
    [] f.kind = "2" /\ f.letter = "x" /\ f.size = 2 -> IF k = 0 THEN 2 ELSE 4
    [] f.kind = "2" /\ f.letter = "b" -> 2
    [] f.kind = "2" /\ (f.letter \in {"t", "s", "c"} \/ f.size = 1) -> 1
    [] f.kind = "3" -> 2
    [] f.kind = "5" -> 1

(* Mutant: the fifth register is stored behind the first four.             *)
SetPlacesMut(f, k) ==
  IF f.kind = "5" THEN <<8 + (k % 4)>> ELSE GetPlaces(f, k)

(* The nibbles that dxc_set_register clears and then sets for register k.  *)
SetPlaces(f, k) ==
  CASE f.kind = "1" /\ f.letter = "n" -> <<2>>
    [] f.kind = "1" /\ f.letter # "n" -> HiByte
    [] f.kind = "2" /\ f.letter = "x" /\ f.size = 3 -> IF k = 0 THEN Param0 ELSE Param1
    [] f.kind = "2" /\ f.letter = "x" /\ f.size = 2 -> IF k = 0 THEN HiByte ELSE Param0
    [] f.kind = "2" /\ f.letter = "b" -> HiByte
    [] f.kind = "2" /\ (f.letter \in {"t", "s", "c"} \/ f.size = 1) -> <<2 + k>>
    [] f.kind = "3" /\ k = 0 -> HiByte
    [] f.kind = "3" /\ k = 1 -> <<4, 5>>
    [] f.kind = "3" /\ k = 2 -> <<6, 7>>
    [] f.kind = "5" -> IF k = 4 THEN <<2>> ELSE <<8 + k>>
    [] f.kind = "r" -> Param1

(* insn->param[0] = (insn->param[0] & 0x00FF) | reg, register 1 of "2b". *)
SetSecondOf2b(insn, reg) ==
  LET ds == Digits(reg, 2)
  IN  [insn EXCEPT !.nib[4] = BitOr(@, ds[1]), !.nib[5] = BitOr(@, ds[2]),
                   !.nib[6] = 0, !.nib[7] = 0]

dxc_set_register(insn, k, reg) ==
  LET f == Fmt(insn)
      width == dxc_register_width(f, k)
      set == IF f.kind = "2" /\ f.letter = "b" /\ k = 1 THEN SetSecondOf2b(insn, reg)
             ELSE Put(insn, SetPlaces(f, k), reg)
  IN  IF \/ k >= dxc_num_registers(insn)
         \/ width < 4 /\ reg >= Base^width
         \/ f.kind = "r" /\ k # 0
        THEN Result(insn, -1)
        ELSE Result(set, dxc_get_register(insn, k))
-----------------------------------------------------------------------------
(***************************************************************************)
(* Encoding and decoding.                                                  *)
(***************************************************************************)

(* Opcode 0 with a high byte other than 0 is the table of a switch or of   *)
(* an array.                                                               *)
Packed == 1
Sparse == 2
FillArray == 3
NoTable == [first_key |-> 0, keys |-> << >>, targets |-> << >>,
            element_width |-> 0, size |-> 0, data |-> << >>]

hi_byte(insn) == Number(Field(insn, HiByte))
IsTable(insn) == insn.opcode = 0 /\ hi_byte(insn) # 0

dxc_insn_width(insn) ==
  LET t == insn.table
  IN  CASE IsTable(insn) /\ hi_byte(insn) = Packed -> 4 + 2 * Len(t.targets)
        [] IsTable(insn) /\ hi_byte(insn) = Sparse -> 2 + 4 * Len(t.targets)
        [] IsTable(insn) /\ hi_byte(insn) = FillArray ->
             4 + (t.element_width * t.size + 1) \div 2
        [] OTHER -> Fmt(insn).size

IntUnits(v) == LET ds == Digits(v, 8) IN <<SubSeq(ds, 1, 4), SubSeq(ds, 5, 8)>>
Ints(vs) == FlattenSeq([k \in DOMAIN vs |-> IntUnits(vs[k])])

(* Bytes two by two, align(&data, 2). *)
ByteUnits(data) ==
  [u \in 1..(Len(data) + 1) \div 2 |->
     Digits(data[2 * u - 1], 2)
       \o Digits(IF 2 * u > Len(data) THEN 0 ELSE data[2 * u], 2)]

EncodeTable(insn) ==
  LET t == insn.table
      head == Digits(insn.opcode, 2) \o Field(insn, HiByte)
  IN  <<head>> \o
      CASE hi_byte(insn) = Packed ->
             <<Digits(Len(t.targets), 4)>> \o IntUnits(t.first_key) \o Ints(t.targets)
        [] hi_byte(insn) = Sparse ->
             <<Digits(Len(t.targets), 4)>> \o Ints(t.keys) \o Ints(t.targets)
        [] hi_byte(insn) = FillArray ->
             <<Digits(t.element_width, 4)>> \o IntUnits(t.size) \o ByteUnits(t.data)

(* The nibbles of the special value. *)
SpecialPlaces(f) ==
  CASE f.pos = 0 /\ f.width = 1 -> <<3>>
    [] f.pos = 0 /\ f.width = 2 -> HiByte
    [] f.pos = 4 /\ f.width = 2 -> <<6, 7>>
    [] f.pos = 4 /\ f.width > 2 -> [k \in 1..f.width |-> 3 + k]

(* "high byte of first short must be 0" *)
HighByteZero(f) ==
  \/ f.size = 1 /\ f.kind = "0" /\ f.letter = "x"
  \/ f.size \in {2, 3} /\ f.kind = "0" /\ f.letter = "t"
  \/ f.size = 3 /\ f.kind = "2" /\ f.letter = "x"

EncodeNormal(insn) ==
  LET f == Fmt(insn)
      places == SpecialPlaces(f)
      ds == Digits(insn.special, f.width)
      nib(p) == CASE p < 2 -> Digits(insn.opcode, 2)[p + 1]
                  [] f.special # "none" /\ p \in Range(places) ->
                       ds[CHOOSE k \in DOMAIN places : places[k] = p]
                  [] p \in {2, 3} /\ HighByteZero(f) -> 0
                  [] OTHER -> insn.nib[p]
  IN  [u \in 1..f.size |-> [k \in 1..4 |-> nib(4 * (u - 1) + k - 1)]]

EncodeInsn(insn) ==
  IF IsTable(insn) THEN EncodeTable(insn) ELSE EncodeNormal(insn)

(* The units at i of code, continued by junk behind its end. *)
Unit(code, i, junk) == IF i < Len(code) THEN code[i + 1] ELSE <<junk, junk, junk, junk>>
get_int(code, i) == SignedNumber(code[i + 1] \o code[i + 2])
get_ints(code, i, n) == [j \in 1..n |-> get_int(code, i + 2 * (j - 1))]

Decoded(insn, next) == [ok |-> TRUE, insn |-> insn, next |-> next]
Refused == [ok |-> FALSE]

(* The header of an instruction at i: the first three units, whether or    *)
(* not they belong to it.                                                  *)
Raw(code, i, junk) ==
  LET all == Unit(code, i, junk) \o Unit(code, i + 1, junk) \o Unit(code, i + 2, junk)
  IN  [opcode |-> Number(<<all[1], all[2]>>), nib |-> [p \in 2..11 |-> all[p + 1]],
       special |-> 0, table |-> NoTable]

(* Of a table the reader stores the opcode and the table only. *)
DecodeTable(code, i) ==
  LET raw == [Raw(code, i, 0) EXCEPT !.nib = [p \in 2..11 |-> IF p < 4 THEN @[p] ELSE 0]]
      size == Len(code)
      sz == Number(code[i + 2])
      asTable(t) == [raw EXCEPT !.table = t]
  IN  IF i + 2 > size THEN Refused ELSE
      CASE hi_byte(raw) = Packed ->
             IF i + sz * 2 + 4 > size THEN Refused
             ELSE Decoded(asTable([NoTable EXCEPT !.first_key = get_int(code, i + 2),
                                     !.targets = get_ints(code, i + 4, sz)]),
                          i + sz * 2 + 4)
        [] hi_byte(raw) = Sparse ->
             IF i + sz * 4 + 2 > size THEN Refused
             ELSE Decoded(asTable([NoTable EXCEPT !.keys = get_ints(code, i + 2, sz),
                                     !.targets = get_ints(code, i + 2 * sz + 2, sz)]),
                          i + sz * 4 + 2)
        [] hi_byte(raw) = FillArray ->
             LET n == get_int(code, i + 2)
                 end == i + (sz * n + 1) \div 2 + 4
                 byte(j) == LET u == code[i + 5 + (j - 1) \div 2]
                            IN  IF j % 2 = 1 THEN Number(<<u[1], u[2]>>)
                                ELSE Number(<<u[3], u[4]>>)
             IN  IF i + 4 > size \/ end > size THEN Refused
                 ELSE Decoded(asTable([NoTable EXCEPT !.element_width = sz, !.size = n,
                                         !.data = [j \in 1..sz * n |-> byte(j)]]), end)
        [] OTHER -> Refused

DecodeNormal(code, i, junk) ==
  LET raw == Raw(code, i, junk)
      f == Fmt(raw)
      places == SpecialPlaces(f)
      nib(p) == Unit(code, i + p \div 4, junk)[(p % 4) + 1]
      ds == [k \in DOMAIN places |-> nib(places[k])]
      v == CASE f.special = "none" -> 0
             [] f.special = "signed" -> SignedNumber(ds)
             [] f.special = "index" -> Number(ds)
  IN  IF raw.opcode \notin DOMAIN Formats \/ i + f.size > Len(code) THEN Refused
      ELSE Decoded([raw EXCEPT !.special = v], i + f.size)

DecodeInsn(code, i, junk) ==
  IF IsTable(Raw(code, i, junk)) THEN DecodeTable(code, i)
  ELSE DecodeNormal(code, i, junk)

(* What a client sees of an instruction: its registers, its special value, *)
(* its table.                                                              *)
View(insn) ==
  [opcode |-> insn.opcode, kind |-> IF IsTable(insn) THEN hi_byte(insn) ELSE 0,
   regs |-> [k \in 0..dxc_num_registers(insn) - 1 |-> dxc_get_register(insn, k)],
   special |-> insn.special, table |-> insn.table]
=============================================================================
