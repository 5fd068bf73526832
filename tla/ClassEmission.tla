--------------------------- MODULE ClassEmission ----------------------------
(***************************************************************************)
(* What the order of the class_def items of a written file promises: a     *)
(* class is emitted once, after every class of the file it inherits from.  *)
(* A loader that reads class_defs in order then finds every ancestor that  *)
(* the file defines already loaded.                                        *)
(***************************************************************************)
EXTENDS ClassHierarchy

VARIABLES
  classes,   (* the class list being written                              *)
  emitted    (* the indices of the classes emitted so far                 *)

vars == <<classes, emitted>>

Ready(i) ==
  /\ i \in Winners(classes) \ emitted
  /\ \A t \in Parents(classes, i) : Winner(classes, t) \in emitted \cup {0}

Init == classes \in ClassLists /\ emitted = {}

Emit(i) ==
  /\ Ready(i)
  /\ emitted' = emitted \cup {i}
  /\ UNCHANGED classes

Next == \E i \in 1..Len(classes) : Emit(i)

Spec == Init /\ [][Next]_vars /\ WF_vars(Next)
=============================================================================
