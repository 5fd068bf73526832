----------------------------- MODULE ClassOrder -----------------------------
(***************************************************************************)
(* write_classes (src/src/write.c): the class_def items of a file are      *)
(* emitted by a depth first walk of the class hierarchy with an explicit   *)
(* stack.  cl_type maps a type to the class that defines it and is not yet *)
(* written; a frame of the stack is a type with the index of the next      *)
(* parent to examine, -1 for the super class and 0, 1, ... for interfaces. *)
(* One action per iteration of a loop.                                     *)
(***************************************************************************)
EXTENDS ClassHierarchy, Integers

VARIABLES
  classes,   (* dex->classes                                              *)
  pc,        (* the loop that runs: "fill", "roots", "walk" or "done"     *)
  cl,        (* the cursor of the two loops over classes                  *)
  cl_type,   (* Types -> class not yet written, 0 for NULL                *)
  stck,      (* the frames 0..spos of the array of sz + 1 frames          *)
  written    (* the classes given to write_class, in order                *)

vars == <<classes, pc, cl, cl_type, stck, written>>

sz == Len(classes)

Frame(id) == [id |-> id, index |-> -1]

Init ==
  /\ classes \in ClassLists
  /\ pc = "fill"
  /\ cl = 1
  /\ cl_type = [t \in Types |-> 0]
  /\ stck = << >>
  /\ written = << >>

(* Mutant: a type defined twice keeps its first class.                     *)
FillOneMut ==
  /\ pc = "fill" /\ cl <= sz
  /\ cl_type' = [cl_type EXCEPT ![classes[cl].name] = IF @ = 0 THEN cl ELSE @]
  /\ cl' = cl + 1
  /\ UNCHANGED <<classes, pc, stck, written>>

(* for(...) cl_type[find_type(pool, cl->name)] = cl *)
FillOne ==
  /\ pc = "fill" /\ cl <= sz
  /\ cl_type' = [cl_type EXCEPT ![classes[cl].name] = cl]
  /\ cl' = cl + 1
  /\ UNCHANGED <<classes, pc, stck, written>>

FillEnd ==
  /\ pc = "fill" /\ cl > sz
  /\ pc' = "roots"
  /\ cl' = 1
  /\ UNCHANGED <<classes, cl_type, stck, written>>

(* The outer loop puts the next class on the empty stack. *)
StartRoot ==
  /\ pc = "roots" /\ cl <= sz
  /\ stck' = <<Frame(classes[cl].name)>>
  /\ cl' = cl + 1
  /\ pc' = "walk"
  /\ UNCHANGED <<classes, cl_type, written>>

Finish ==
  /\ pc = "roots" /\ cl > sz
  /\ pc' = "done"
  /\ UNCHANGED <<classes, cl, cl_type, stck, written>>

Top == stck[Len(stck)]
TopClass == cl_type[Top.id]

(* Mutant: the super class is never examined.                              *)
CursorMut == IF Top.index = -1 THEN 0 ELSE Top.index

(* The index examined by an iteration: a class without super class skips  *)
(* from -1 to its first interface.                                        *)
Cursor ==
  IF Top.index = -1 /\ classes[TopClass].super = NoType THEN 0 ELSE Top.index

(* Mutant: while(spos >= 0) goes on with an empty stack.                   *)
PopMut ==
  /\ stck' = SubSeq(stck, 1, Len(stck) - 1)
  /\ pc' = "walk"

Pop ==
  /\ stck' = SubSeq(stck, 1, Len(stck) - 1)
  /\ pc' = IF Len(stck) = 1 THEN "roots" ELSE "walk"

Push(t) ==
  /\ stck' = Append([stck EXCEPT ![Len(stck)].index = Cursor + 1], Frame(t))
  /\ UNCHANGED <<classes, pc, cl, cl_type, written>>

(* Mutant: continue without spos--.                                        *)
SkipTypeMut ==
  /\ pc = "walk"
  /\ TopClass = 0
  /\ UNCHANGED vars

(* if(!cl): the type is external or its class is already written. *)
SkipType ==
  /\ pc = "walk"
  /\ TopClass = 0
  /\ Pop
  /\ UNCHANGED <<classes, cl, cl_type, written>>

VisitSuper ==
  /\ pc = "walk"
  /\ TopClass # 0 /\ Cursor = -1
  /\ Push(classes[TopClass].super)

(* Mutant: the interfaces left are all pushed at once.                     *)
VisitInterfaceMut ==
  /\ pc = "walk"
  /\ TopClass # 0 /\ Cursor >= 0
  /\ LET is == classes[TopClass].interfaces
     IN  /\ Cursor < Len(is)
         /\ stck' = [stck EXCEPT ![Len(stck)].index = Len(is)]
                      \o [k \in 1..Len(is) - Cursor |-> Frame(is[Cursor + k])]
  /\ UNCHANGED <<classes, pc, cl, cl_type, written>>

VisitInterface ==
  /\ pc = "walk"
  /\ TopClass # 0 /\ Cursor >= 0
  /\ Cursor < Len(classes[TopClass].interfaces)
  /\ Push(classes[TopClass].interfaces[Cursor + 1])

(* Mutants: a class is written before its last interface is examined; a    *)
(* written class stays in cl_type.                                         *)
WriteClassEarlyMut ==
  /\ pc = "walk"
  /\ TopClass # 0 /\ Cursor >= 0
  /\ Cursor + 1 >= Len(classes[TopClass].interfaces)
  /\ written' = Append(written, TopClass)
  /\ cl_type' = [cl_type EXCEPT ![Top.id] = 0]
  /\ Pop
  /\ UNCHANGED <<classes, cl>>

WriteClassTwiceMut ==
  /\ pc = "walk"
  /\ TopClass # 0 /\ Cursor >= 0
  /\ Cursor >= Len(classes[TopClass].interfaces)
  /\ written' = Append(written, TopClass)
  /\ Pop
  /\ UNCHANGED <<classes, cl, cl_type>>

(* write_class(ctx, cl); cl_type[id] = NULL; spos-- *)
WriteClass ==
  /\ pc = "walk"
  /\ TopClass # 0 /\ Cursor >= 0
  /\ Cursor >= Len(classes[TopClass].interfaces)
  /\ written' = Append(written, TopClass)
  /\ cl_type' = [cl_type EXCEPT ![Top.id] = 0]
  /\ Pop
  /\ UNCHANGED <<classes, cl>>

Done == pc = "done" /\ UNCHANGED vars

Next ==
  \/ FillOne \/ FillEnd \/ StartRoot \/ Finish
  \/ SkipType \/ VisitSuper \/ VisitInterface \/ WriteClass
  \/ Done

Spec == Init /\ [][Next]_vars /\ WF_vars(Next)
-----------------------------------------------------------------------------
WrittenSet == {written[p] : p \in 1..Len(written)}

TypeOK ==
  /\ classes \in ClassLists
  /\ pc \in {"fill", "roots", "walk", "done"}
  /\ cl \in 1..sz + 1
  /\ cl_type \in [Types -> 0..sz]
  /\ stck \in Seq([id : Types, index : Int])
  /\ pc = "walk" <=> stck # << >>
  /\ written \in Seq(1..sz)

(* No walk leaves the sz + 1 frames that write_classes allocates           *)
(* (calloc(sizeof(IdIndexPair), sz + 1)), whatever the shape of an acyclic *)
(* hierarchy and however often a type is inherited.                        *)
StackFits == Len(stck) <= sz + 1

(* A class is written after each of its parents that the file defines.     *)
ParentsFirst ==
  \A p \in 1..Len(written) : \A t \in Parents(classes, written[p]) :
    Winner(classes, t) # 0 => \E q \in 1..p - 1 : written[q] = Winner(classes, t)

(* No class_def item is emitted twice, although a class is met once as a   *)
(* root and once for each class that inherits from it.                     *)
WrittenOnce ==
  \A p, q \in 1..Len(written) : written[p] = written[q] => p = q

(* When write_classes returns, each type the file defines has its class    *)
(* written: the class that comes last when several define the type.        *)
AllWritten == pc = "done" => WrittenSet = Winners(classes)

(* Each walk ends: the loops of write_classes terminate on an acyclic      *)
(* hierarchy.                                                              *)
Termination == <>(pc = "done")

(***************************************************************************)
(* The inductive invariant behind these properties (ClassOrder_proofs).    *)
(***************************************************************************)

(* i is the last of the first k classes that defines t, 0 if none does.    *)
IsLast(t, i, k) ==
  IF \E j \in 1..k : classes[j].name = t
    THEN /\ i \in 1..k /\ classes[i].name = t
         /\ \A j \in i + 1..k : classes[j].name # t
    ELSE i = 0

FillInv ==
  pc = "fill" => /\ stck = << >> /\ written = << >>
                 /\ \A t \in Types : IsLast(t, cl_type[t], cl - 1)

MarkInv ==
  pc # "fill" =>
    /\ \A t \in Types : IsLast(t, Winner(classes, t), sz)
    /\ \A t \in Types : cl_type[t] \in {0, Winner(classes, t)}
    /\ \A t \in Types : cl_type[t] = 0 /\ Winner(classes, t) # 0
                          => Winner(classes, t) \in WrittenSet
    /\ \A w \in WrittenSet : /\ cl_type[classes[w].name] = 0
                             /\ Winner(classes, classes[w].name) = w

(* The parents of class c that a frame with the given index has passed.    *)
Examined(c, index) ==
  (IF index >= 0 THEN {classes[c].super} \ {NoType} ELSE {})
    \cup {classes[c].interfaces[j] :
            j \in {k \in 1..Len(classes[c].interfaces) : k <= index}}

ExaminedInv ==
  \A f \in 1..Len(stck) :
    /\ stck[f].index >= -1
    /\ cl_type[stck[f].id] # 0 =>
         \A t \in Examined(cl_type[stck[f].id], stck[f].index) :
           cl_type[t] = 0 \/ (f < Len(stck) /\ stck[f + 1].id = t)

RootInv ==
  /\ pc = "roots" => \A i \in 1..cl - 1 : cl_type[classes[i].name] = 0
  /\ pc = "walk" => /\ cl > 1 /\ stck[1].id = classes[cl - 1].name
                    /\ \A i \in 1..cl - 2 : cl_type[classes[i].name] = 0
  /\ pc = "done" => \A i \in 1..sz : cl_type[classes[i].name] = 0

(* Every frame below the top waits for a class it inherits from.           *)
PathInv ==
  \A f \in 1..Len(stck) - 1 :
    /\ cl_type[stck[f].id] # 0
    /\ stck[f + 1].id \in Parents(classes, cl_type[stck[f].id])

(* The walk implements the emission of classes in inheritance order.       *)
Emission == INSTANCE ClassEmission WITH emitted <- WrittenSet
EmissionSpec == Emission!Spec
=============================================================================
