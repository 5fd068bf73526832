----------------------------- MODULE DebugItems -----------------------------
(***************************************************************************)
(* The debug information of a method in the file: write_debug_info_item    *)
(* (src/src/write.c) and dxc_read_debug_section (src/src/debug.c).         *)
(*                                                                         *)
(* An instruction is [op, args]: its opcode and its operands in the order  *)
(* of the file.  Names and types are indexes into the constant pools, and  *)
(* NoIndex stands for NULL (for "" among the names of the parameters).     *)
(***************************************************************************)
EXTENDS EncodedNumbers

NoIndex == UintBase - 1

(* How each operand of an opcode is encoded; an opcode that is not listed  *)
(* moves line and address by itself and has none.                          *)
Operands ==
  [advance_pc |-> <<"uleb">>, advance_line |-> <<"sleb">>,
   start_local |-> <<"uleb", "ulebp1", "ulebp1">>,
   start_local_extended |-> <<"uleb", "ulebp1", "ulebp1", "ulebp1">>,
   end_local |-> <<"uleb">>, restart_local |-> <<"uleb">>, set_file |-> <<"ulebp1">>]

OperandsOf(op) == IF op \in DOMAIN Operands THEN Operands[op] ELSE << >>

WriteOperand(how, x) ==
  CASE how = "uleb" -> write_uleb(x)
    [] how = "sleb" -> write_sleb(x)
    [] how = "ulebp1" -> write_ulebp1(x)

ReadOperand(how, d, off) ==
  CASE how = "uleb" -> read_uleb(d, off)
    [] how = "sleb" -> read_sleb(d, off)
    [] how = "ulebp1" -> read_ulebp1(d, off)

(* line_start, the names, and the instructions through end_sequence.       *)
write_debug_info_item(dbg) ==
  LET insn(i) == <<i.op>> \o FlattenSeq([k \in DOMAIN i.args |->
                                           WriteOperand(OperandsOf(i.op)[k], i.args[k])])
  IN  write_uleb(dbg.line_start) \o write_uleb(Len(dbg.parameter_names))
        \o FlattenSeq([k \in DOMAIN dbg.parameter_names |->
                         write_ulebp1(dbg.parameter_names[k])])
        \o FlattenSeq([k \in DOMAIN dbg.insns |-> insn(dbg.insns[k])])
        \o <<"end_sequence">>

(* The operands hows, one behind the other.                                *)
RECURSIVE ReadOperands(_, _, _), ReadDebugInsns(_, _)
ReadOperands(hows, d, off) ==
  IF hows = << >> THEN Got(<< >>, off)
  ELSE LET first == ReadOperand(Head(hows), d, off)
           rest == ReadOperands(Tail(hows), d, first.next)
       IN  Got(<<first.v>> \o rest.v, rest.next)

ReadDebugInsns(d, off) ==
  IF d[off + 1] = "end_sequence" THEN Got(<< >>, off + 1)
  ELSE LET op == d[off + 1]
           args == ReadOperands(OperandsOf(op), d, off + 1)
           rest == ReadDebugInsns(d, args.next)
       IN  Got(<<[op |-> op, args |-> args.v]>> \o rest.v, rest.next)

dxc_read_debug_section(d, off) ==
  LET line == read_uleb(d, off)
      parameters == read_uleb(d, line.next)
      names == ReadOperands([k \in 1..parameters.v |-> "ulebp1"], d, parameters.next)
      insns == ReadDebugInsns(d, names.next)
  IN  Got([line_start |-> line.v, parameter_names |-> names.v, insns |-> insns.v], insns.next)
=============================================================================
