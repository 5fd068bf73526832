----------------------------- MODULE ClassIndex -----------------------------
(***************************************************************************)
(* What the class lookup of an odex file promises (src/src/opt_write.h):   *)
(* the class_def items of the file become known by their descriptor, in    *)
(* the order of the file; once known, a descriptor keeps its class.        *)
(***************************************************************************)
EXTENDS Naturals, Sequences

CONSTANT Descs   (* the class descriptors                                   *)

VARIABLES
  classes,   (* the descriptor of each class_def item, in file order       *)
  index      (* Descs -> the number of the class it finds, 0 for none      *)

vars == <<classes, index>>

Init ==
  /\ classes \in Seq(Descs)
  /\ index = [d \in Descs |-> 0]

Known(c) == index[classes[c]] = c

Add ==
  \E c \in 1..Len(classes) :
    /\ ~Known(c)
    /\ \A b \in 1..c - 1 : Known(b)
    /\ index' = [index EXCEPT ![classes[c]] = c]
    /\ UNCHANGED classes

Spec == Init /\ [][Add]_vars /\ WF_vars(Add)
=============================================================================
