------------------------------- MODULE Rename -------------------------------
(***************************************************************************)
(* dxc_rename_identifiers (src/src/util.c): the walk over the classes,     *)
(* which finds the references that RenameSearch renames.                   *)
(***************************************************************************)
EXTENDS DexTree, RenameSearch, TLC

CONSTANT DexFiles    (* class lists                                         *)

VARIABLE dex         (* file->classes                                      *)

-----------------------------------------------------------------------------
(* The walk.  A visited reference is a constant; own marks the members a   *)
(* class defines, whose defining class is the class itself.                *)

Visit(c) == [pool |-> c.pool, key |-> c.key, own |-> FALSE]
VisitOwn(c) == [pool |-> c.pool, key |-> c.key, own |-> TRUE]

RECURSIVE VisitValue(_), VisitAnnotation(_)

(* i < !dxc_is_sentinel_parameter(...): the loop ends after one parameter. *)
VisitAnnotation(an) ==
  <<Visit(Type(an.type))>>
    \o Each(SubSeq(an.parameters, 1, Min({1, Len(an.parameters)})),
            LAMBDA p : VisitValue(p.value))

VisitValue(val) ==
  CASE val.type = "type" -> <<Visit(Type(val.str))>>
    [] val.type \in {"field", "enum"} -> <<Visit(FieldRef(val.class, val.name, val.of))>>
    [] val.type = "method" -> <<Visit(MethodRef(val.class, val.name, val.proto))>>
    [] val.type = "array" -> Each(val.elements, VisitValue)
    [] val.type = "annotation" -> VisitAnnotation(val.annotation)
    [] val.type \in {"scalar", "string"} -> << >>

(* rename_field *)
VisitField(cl, fld) ==
  <<VisitOwn(FieldRef(cl.name, fld.name, fld.type))>>
    \o Each(fld.annotations, VisitAnnotation)

VisitDbgInsn(in) ==
  IF in.opcode \in {"start_local", "start_local_extended"} /\ in.type # None
    THEN <<Visit(Type(in.type))>> ELSE << >>

VisitInsn(insn) ==
  CASE insn.special = "type" -> <<Visit(Type(insn.str))>>
    [] insn.special = "field" -> <<Visit(FieldRef(insn.class, insn.name, insn.of))>>
    [] insn.special = "method" -> <<Visit(MethodRef(insn.class, insn.name, insn.proto))>>
    [] insn.special \in {"none", "string"} -> << >>

(* Mutant: the types of handlers are not visited.                          *)
VisitCodeMut(code) ==
  Each(code.debug_information, LAMBDA dbg : Each(BeforeEnd(dbg.insns), VisitDbgInsn))
    \o Each(code.insns, VisitInsn)

VisitCode(code) ==
  Each(code.debug_information, LAMBDA dbg : Each(BeforeEnd(dbg.insns), VisitDbgInsn))
    \o Each(code.tries, LAMBDA try : Each(try.handlers, LAMBDA h : <<Visit(Type(h))>>))
    \o Each(code.insns, VisitInsn)

(* rename_method *)
VisitMethod(cl, mtd) ==
  <<VisitOwn(MethodRef(cl.name, mtd.name, mtd.prototype))>>
    \o Each(mtd.code_body, VisitCode)
    \o Each(mtd.annotations, VisitAnnotation)
    \o Each(mtd.parameter_annotations, LAMBDA anns : Each(anns, VisitAnnotation))

VisitClass(cl) ==
  Each(cl.annotations, VisitAnnotation)
    \o Each(cl.static_values, VisitValue)
    \o Each(MemberFields(cl), LAMBDA f : VisitField(cl, f))
    \o Each(MemberMethods(cl), LAMBDA m : VisitMethod(cl, m))
    \o <<Visit(Type(cl.name))>>
    \o (IF cl.super_class = None THEN << >> ELSE <<Visit(Type(cl.super_class))>>)
    \o Each(cl.interfaces, LAMBDA t : <<Visit(Type(t))>>)
-----------------------------------------------------------------------------
InitRename ==
  /\ dex \in DexFiles
  /\ sites = Each(dex, VisitClass)
  /\ InitTables

NextRename == Next /\ UNCHANGED dex

SpecRename ==
  /\ InitRename /\ [][NextRename]_<<vars, dex>>
  /\ WF_<<vars, dex>>(NextRename)
-----------------------------------------------------------------------------
(* How often c is an element of seq.                                       *)
Times(c, seq) == Cardinality({n \in DOMAIN seq : seq[n] = c})

(* The constants that pop_class collects where a visited reference stands.  *)
(* The type of a field and the prototype of a method that the class itself *)
(* defines are collected apart from the id, and renamed with it.           *)
CollectedAt(s) ==
  <<[pool |-> s.pool, key |-> s.key]>>
    \o (CASE ~s.own -> << >>
          [] s.own /\ s.pool = "fields" -> <<Type(s.key[3])>>
          [] s.own /\ s.pool = "methods" -> <<Proto(SubSeq(s.key, 3, Len(s.key)))>>)

(* Every place of the file that refers to a class, a field or a method is   *)
(* visited, and once: each reference that the writer would collect         *)
(* (pop_class) is found as often as it stands in the file, so that no      *)
(* place keeps an old name although the same name is renamed elsewhere.    *)
AllVisited ==
  pc = "done" =>
    LET visited == FlattenSeq([n \in 1..Len(out) |-> CollectedAt(sites[n])])
        places == SelectSeq(Each(dex, PopClass), LAMBDA c : c.pool # "strs")
    IN  \A c \in ToSet(visited \o places) : Times(c, visited) = Times(c, places)

(* Every search ends, chains included, as long as nothing is renamed to    *)
(* itself: a match leaves the window as it is.                             *)
Termination == <>(pc = "done")
=============================================================================
