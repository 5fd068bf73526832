------------------------------- MODULE Codec -------------------------------
(***************************************************************************)
(* What is in a method or a class, edited in memory, written to a file and *)
(* read back: a code item (instructions and try blocks), an array of       *)
(* values, the debug information of a method, the members of a class, or   *)
(* the strings of a file.                                                  *)
(*                                                                         *)
(* item is the object in memory.  A client edits the first instruction of  *)
(* a code item with the functions of src/dxcut/dalvik.h; the writer turns  *)
(* the item into a file; the reader makes the next item from the file,     *)
(* which is edited and written again, and so on.                           *)
(***************************************************************************)
EXTENDS Instructions, DebugItems, ClassItems, ModifiedUtf8

CONSTANTS
  Items,            (* what clients build in memory                         *)
  SetIndexes(_),    (* instruction -> the registers that clients set        *)
  Registers,        (* the register numbers they set them to                *)
  Counts,           (* the numbers of registers they ask for                *)
  Specials(_),      (* format -> the special values that fit it             *)
  Junk,             (* what may lie behind the code of a method             *)
  MaxEdits          (* bound: the edits of an item                          *)

VARIABLES
  item,     (* the object in memory: [kind, code], [kind, values] or ...    *)
  file,     (* what write_... made of it                                    *)
  phase,    (* "edit", "written", "read"                                    *)
  back,     (* what dxc_read_... made of the file                           *)
  ret,      (* what the last register function returned                     *)
  edits     (* the edits so far                                             *)

codecVars == <<item, file, phase, back, ret, edits>>

NoFile == << >>
Nothing == [kind |-> "none"]
-----------------------------------------------------------------------------
(***************************************************************************)
(* The code item.                                                          *)
(***************************************************************************)
(* align(&d, 4): the code begins at a multiple of four.                    *)
Padding(units) == IF Len(units) % 2 = 1 THEN <<Digits(0, 4)>> ELSE << >>

StartAddr(t) == t.start_addr

(* One entry of the list of handlers.                                      *)
EncodeHandlers(t) ==
  LET n == Len(t.handlers)
  IN  write_sleb(IF t.catch_all # << >> THEN -n ELSE n)
        \o FlattenSeq([k \in 1..n |-> write_uleb(t.handlers[k].type)
                                        \o write_uleb(t.handlers[k].addr)])
        \o FlattenSeq([k \in DOMAIN t.catch_all |-> write_uleb(t.catch_all[k])])

(* catch_handler as it is when the k-th try block is written.              *)
HandlersBefore(tries, k) ==
  write_uleb(Len(tries)) \o FlattenSeq([j \in 1..k - 1 |-> EncodeHandlers(tries[j])])

TryUnits(tries, k) ==
  IntUnits(tries[k].start_addr)
    \o <<Digits(tries[k].insn_count, 4), Digits(Len(HandlersBefore(tries, k)), 4)>>

(* units are the code units from the instructions to the last try block,   *)
(* handlers the bytes behind them.                                         *)
write_code_item(code) ==
  LET insns == FlattenSeq([k \in DOMAIN code.insns |-> EncodeInsn(code.insns[k])])
      tries == ByKey(code.tries, StartAddr)
      n == Len(tries)
      rows == FlattenSeq([k \in 1..n |-> TryUnits(tries, k)])
  IN  [tries_size |-> n, insns_size |-> Len(insns),
       units |-> insns \o (IF n = 0 THEN << >> ELSE Padding(insns) \o rows),
       handlers |-> IF n = 0 THEN << >> ELSE HandlersBefore(tries, n + 1)]

(* dxc_read_dalvik: the instructions of code, of which there are as many   *)
(* as fit; "failed" when one leaves it.                                    *)
RECURSIVE dxc_read_dalvik(_, _, _)
dxc_read_dalvik(code, i, junk) ==
  IF i = Len(code) THEN << >>
  ELSE LET one == DecodeInsn(code, i, junk)
           rest == dxc_read_dalvik(code, one.next, junk)
       IN  IF ~one.ok \/ rest = "failed" THEN "failed" ELSE <<one.insn>> \o rest

(* The handlers at the byte hoff.                                          *)
ReadHandlers(bytes, hoff) ==
  LET hsz == read_sleb(bytes, hoff)
      has_catch_all == hsz.v <= 0
      n == IF has_catch_all THEN -hsz.v ELSE hsz.v
      pairs == ReadOperands([k \in 1..2 * n |-> "uleb"], bytes, hsz.next)
  IN  [handlers |-> [k \in 1..n |-> [type |-> pairs.v[2 * k - 1], addr |-> pairs.v[2 * k]]],
       catch_all |-> IF has_catch_all THEN <<read_uleb(bytes, pairs.next).v>> ELSE << >>]

(* The try block at the code unit off.  Handlers lie behind the last one.  *)
ReadTry(f, off, handler_off) ==
  LET hoff == 2 * (handler_off - Len(f.units)) + Number(f.units[off + 4])
      h == ReadHandlers(f.handlers, hoff)
  IN  [start_addr |-> get_int(f.units, off), insn_count |-> Number(f.units[off + 3]),
       handlers |-> h.handlers, catch_all |-> h.catch_all]

(* What follows the code, or junk when nothing of the item does.           *)
dxc_read_code(f, junk) ==
  LET burn == IF f.insns_size % 2 = 1 THEN 1 ELSE 0
      off == f.insns_size + burn
      handler_off == off + 4 * f.tries_size
      fits == f.tries_size = 0 \/ handler_off <= Len(f.units)
      insns == dxc_read_dalvik(SubSeq(f.units, 1, f.insns_size), 0, junk)
  IN  IF insns = "failed" \/ ~fits THEN Nothing
      ELSE [kind |-> "code",
            code |-> [insns |-> insns,
                      tries |-> [k \in 1..f.tries_size |->
                                   ReadTry(f, off + 4 * (k - 1), handler_off)]]]
-----------------------------------------------------------------------------
(***************************************************************************)
(* Editing.                                                                *)
(***************************************************************************)
Editing == phase = "edit" /\ item.kind = "code"
First == item.code.insns[1]

Apply(r) ==
  /\ item' = [item EXCEPT !.code.insns[1] = r.insn]
  /\ ret' = r.ret
  /\ edits < MaxEdits /\ edits' = edits + 1
  /\ UNCHANGED <<file, phase, back>>

SetRegister(k, reg) == Editing /\ Apply(dxc_set_register(First, k, reg))

SetNumRegisters(n) == Editing /\ Apply(dxc_set_num_registers(First, n))

(* insn->special = v, by the client itself.                                *)
AssignSpecial(v) ==
  /\ Editing
  /\ ~IsTable(First)
  /\ Fmt(First).special # "none"
  /\ Apply([insn |-> [First EXCEPT !.special = v], ret |-> ret])

Write ==
  /\ phase = "edit"
  /\ file' = CASE item.kind = "code" -> write_code_item(item.code)
               [] item.kind = "values" -> write_encoded_array(item.values)
               [] item.kind = "debug" -> write_debug_info_item(item.debug)
               [] item.kind = "class" -> write_class(item.class)
               [] item.kind = "strings" ->
                    LET pool == SortedPool(item.strings)
                    IN  [k \in DOMAIN pool |-> write_string_data(pool[k])]
  /\ phase' = "written"
  /\ UNCHANGED <<item, back, ret, edits>>

Read ==
  /\ phase = "written"
  /\ back' \in CASE item.kind = "code" -> {dxc_read_code(file, j) : j \in Junk}
                 [] item.kind = "values" ->
                      {[kind |-> "values", got |-> dxc_read_value_array(file, 0, 0)]}
                 [] item.kind = "debug" ->
                      {[kind |-> "debug", got |-> dxc_read_debug_section(file, 0)]}
                 [] item.kind = "class" ->
                      {[kind |-> "class", got |-> dxc_read_class(file, FieldTypes(item.class))]}
                 [] item.kind = "strings" ->
                      {[kind |-> "strings",
                        got |-> [k \in DOMAIN file |-> read_string_data(file[k])]]}
  /\ phase' = "read"
  /\ UNCHANGED <<item, file, ret, edits>>

(* The object that was read replaces the one that was written.             *)
Reload ==
  /\ phase = "read"
  /\ back.kind = "code"
  /\ item' = back
  /\ file' = NoFile /\ back' = Nothing /\ phase' = "edit"
  /\ UNCHANGED <<ret, edits>>

Finished == phase = "read" /\ item.kind # "code" /\ UNCHANGED codecVars

InitCodec ==
  /\ item \in Items
  /\ file = NoFile /\ phase = "edit" /\ back = Nothing /\ ret = 0 /\ edits = 0

NextCodec ==
  \/ \E k \in IF Editing THEN SetIndexes(First) ELSE {}, reg \in Registers : SetRegister(k, reg)
  \/ \E n \in Counts : SetNumRegisters(n)
  \/ \E v \in IF Editing THEN Specials(Fmt(First)) ELSE {} : AssignSpecial(v)
  \/ Write
  \/ Read
  \/ Reload
  \/ Finished

SpecCodec == InitCodec /\ [][NextCodec]_codecVars
-----------------------------------------------------------------------------
(* Types: the fields of an instruction hold nibbles, a register function   *)
(* returns -1 or a number of four nibbles (a range may go on behind the    *)
(* last register there is), and an instruction that lists its registers    *)
(* has at most the five it has fields for.                                 *)
TypeOKCodec ==
  /\ phase \in {"edit", "written", "read"}
  /\ item.kind \in {"code", "values", "debug", "class", "strings"}
  /\ ret \in -1..Base^4 + Base^2
  /\ item.kind = "code" =>
       \A k \in DOMAIN item.code.insns :
         /\ item.code.insns[k].opcode \in DOMAIN Formats
         /\ \A p \in 2..11 : item.code.insns[k].nib[p] \in 0..Base - 1
         /\ Fmt(item.code.insns[k]).kind = "5" => dxc_num_registers(item.code.insns[k]) <= 5

(* What clients see of a code item, the try blocks in the order of the     *)
(* file.                                                                   *)
CodeView(code, tries) ==
  [insns |-> [k \in DOMAIN code.insns |-> View(code.insns[k])], tries |-> tries]

(* The four lists of members are in the order of the indexes, with the     *)
(* flags, code and annotations of each member; each static field has the   *)
(* value it had, or zero if it had none.                                   *)
ClassIsRead(cl, got) ==
  LET static == got.members.static_fields
      values == got.static_values.v
  IN  /\ \A list \in Range(FieldLists \o MethodLists) :
           LET old == cl[list]
               new == got.members[list]
           IN  /\ Len(new) = Len(old) /\ Range(new) = Range(old)
               /\ \A j, k \in DOMAIN new : j < k => new[j].id < new[k].id
      /\ got.annotations = cl.annotations
      /\ got.next = Len(file.data) /\ got.static_values.next = Len(file.values)
      /\ IF NoMembers(cl) THEN values = cl.static_values
         ELSE /\ Len(values) = Len(static)
              /\ \A j \in DOMAIN cl.static_fields, k \in DOMAIN static :
                   static[k] = cl.static_fields[j] =>
                     values[k] = IF j <= Len(cl.static_values) THEN cl.static_values[j]
                                 ELSE Default(cl.static_fields[j])

(* The strings are there once each, in the order of their UTF-16 units,    *)
(* and each is preceded by the number of its units.                        *)
StringsAreRead(strs, got) ==
  /\ Range(got) = Range(strs)
  /\ \A k \in DOMAIN got : read_uleb(file[k], 0).v = Len(Units(got[k])) % UintBase
  /\ \A j, k \in DOMAIN got : j < k => UnitsBefore(Units(got[j]), Units(got[k]))

(* Whatever was edited before, an object that has been written and read is *)
(* the same object: every register, special value and table of every       *)
(* instruction whatever lies behind the code, every try block with its     *)
(* handlers, every value of an array with its sign (but for the shorts     *)
(* that LosesSign names), every operand of the debug information, every    *)
(* member of a class and every string; the reader stops where the writer   *)
(* did, and dxc_insn_width promises the space that the code takes          *)
(* (write_code_item, dxc_read_code, write_encoded_array,                   *)
(* dxc_read_value_array, write_debug_info_item, dxc_read_debug_section,    *)
(* write_class, dxc_read_class_section, write_string_data,                 *)
(* read_string_data).                                                      *)
WrittenIsRead ==
  phase = "read" =>
    CASE item.kind = "code" ->
           /\ back.kind = "code"
           /\ CodeView(back.code, back.code.tries)
                = CodeView(item.code, ByKey(item.code.tries, StartAddr))
           /\ file.insns_size = FoldLeft(LAMBDA acc, i : acc + dxc_insn_width(i), 0,
                                         item.code.insns)
      [] item.kind = "values" ->
           back.got = Got(InFileOrder(ArrayValue(item.values)).values, Len(file))
      [] item.kind = "debug" -> back.got = Got(item.debug, Len(file))
      [] item.kind = "class" -> ClassIsRead(item.class, back.got)
      [] item.kind = "strings" -> StringsAreRead(item.strings, back.got)

(* The registers of the first instruction behave as the list of registers  *)
(* of RegisterList, in memory and through files: a call sets the register  *)
(* it is asked to set, or none, leaves every other register and the        *)
(* special value alone, and returns what was there.                        *)
Places(k) == GetPlaces(Fmt(First), k)
RegisterIndexes == IF item.kind = "code" THEN 0..dxc_num_registers(First) - 1 ELSE {}

Shape ==
  IF item.kind # "code" THEN [range |-> FALSE, lengths |-> {}]
  ELSE [range |-> Fmt(First).kind = "r",
        lengths |-> CASE Fmt(First).kind = "r" -> 0..Base^2 - 1
                      [] Fmt(First).kind = "5" -> 0..5
                      [] OTHER -> {dxc_num_registers(First)}]

List == INSTANCE RegisterList WITH
  Indexes <- 0..5, Regs <- Registers,
  shape <- Shape,
  limits <- [k \in RegisterIndexes |-> Base^Len(Places(k))],
  regs <- [k \in RegisterIndexes |-> dxc_get_register(First, k)],
  special <- IF item.kind = "code" THEN First.special ELSE 0

RegisterSpec == List!Spec
=============================================================================
