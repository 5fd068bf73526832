-------------------------- MODULE ClassOrder_proofs --------------------------
(***************************************************************************)
(* Proofs about ClassOrder for every list of classes.                      *)
(***************************************************************************)
EXTENDS ClassOrder, FiniteSetTheorems, SequenceTheorems, TLAPS

(* What the type of a class list says of one of its classes.               *)
LEMMA ClassFacts ==
  ASSUME NEW cs \in ClassLists
  PROVE  /\ cs \in Seq(ClassRec)
         /\ Len(cs) \in Nat
         /\ \A i \in 1..Len(cs) :
              /\ cs[i].name \in Types
              /\ cs[i].super \in Types \cup {NoType}
              /\ cs[i].interfaces \in Seq(Types)
              /\ Len(cs[i].interfaces) \in Nat
              /\ \A j \in 1..Len(cs[i].interfaces) : cs[i].interfaces[j] \in Types
              /\ Parents(cs, i) \subseteq Types
<1>1. cs \in Seq(ClassRec)
  BY ClassListsAssumption
<1>2. Len(cs) \in Nat /\ \A i \in 1..Len(cs) : cs[i] \in ClassRec
  BY <1>1
<1>3. ASSUME NEW i \in 1..Len(cs)
      PROVE  /\ cs[i].name \in Types
             /\ cs[i].super \in Types \cup {NoType}
             /\ cs[i].interfaces \in Seq(Types)
  BY <1>2 DEF ClassRec
<1>4. ASSUME NEW i \in 1..Len(cs)
      PROVE  /\ Len(cs[i].interfaces) \in Nat
             /\ \A j \in 1..Len(cs[i].interfaces) : cs[i].interfaces[j] \in Types
  BY <1>3
<1>. QED
  BY <1>1, <1>2, <1>3, <1>4 DEF Parents

Frames == [id : Types, index : Int]

(* The parts of TypeOK a walk relies on, with the frame at the top.        *)
LEMMA TopFacts ==
  ASSUME TypeOK, pc = "walk"
  PROVE  /\ Len(stck) \in Nat /\ Len(stck) >= 1
         /\ Top \in Frames /\ Top.id \in Types /\ Top.index \in Int
         /\ TopClass \in 0..sz
         /\ sz \in Nat
         /\ Cursor \in Int
<1>1. stck \in Seq(Frames) /\ stck # << >>
  BY DEF TypeOK, Frames
<1>2. Len(stck) \in Nat /\ Len(stck) >= 1
  BY <1>1
<1>3. Top \in Frames
  BY <1>1, <1>2 DEF Top
<1>4. Top.id \in Types /\ Top.index \in Int
  BY <1>3 DEF Frames
<1>5. TopClass \in 0..sz
  BY <1>4 DEF TypeOK, TopClass
<1>6. sz \in Nat
  BY ClassFacts DEF TypeOK, sz
<1>7. Cursor \in Int
  BY <1>4 DEF Cursor
<1>. QED
  BY <1>2, <1>3, <1>4, <1>5, <1>6, <1>7

(* Every frame of the stack holds the index of a type of the pool.         *)
LEMMA FrameIds == TypeOK => \A i \in 1..Len(stck) : stck[i].id \in Types
<1>. SUFFICES ASSUME TypeOK, NEW i \in 1..Len(stck) PROVE stck[i].id \in Types
  OBVIOUS
<1>1. stck \in Seq(Frames)
  BY DEF TypeOK, Frames
<1>2. stck[i] \in Frames
  BY <1>1, ElementOfSeq
<1>. QED
  BY <1>2 DEF Frames

(* What a pop leaves of the stack.                                         *)
LEMMA PopFacts ==
  ASSUME TypeOK, pc = "walk", Pop
  PROVE  /\ stck' \in Seq(Frames)
         /\ Len(stck') = Len(stck) - 1
         /\ \A i \in 1..Len(stck') : stck'[i] = stck[i]
         /\ pc' \in {"roots", "walk"}
         /\ pc' = "walk" <=> stck' # << >>
<1>1. stck \in Seq(Frames) /\ Len(stck) \in Nat /\ Len(stck) >= 1
  BY TopFacts DEF TypeOK, Frames
<1>2. stck' = SubSeq(stck, 1, Len(stck) - 1)
  BY DEF Pop
<1>a. \A i \in 1..Len(stck) - 1 : stck[i] \in Frames
  BY <1>1, ElementOfSeq
<1>b. /\ SubSeq(stck, 1, Len(stck) - 1) \in Seq(Frames)
      /\ Len(SubSeq(stck, 1, Len(stck) - 1)) = Len(stck) - 1
      /\ \A i \in 1..Len(stck) - 1 : SubSeq(stck, 1, Len(stck) - 1)[i] = stck[i]
  <2>. DEFINE n == Len(stck) - 1
  <2>1. n \in Int /\ n >= 0 /\ n - 1 + 1 = n
    BY <1>1
  <2>. HIDE DEF n
  <2>2. /\ SubSeq(stck, 1, n) \in Seq(Frames)
        /\ Len(SubSeq(stck, 1, n)) = IF 1 <= n THEN n - 1 + 1 ELSE 0
        /\ \A i \in 1..n - 1 + 1 : SubSeq(stck, 1, n)[i] = stck[1 + i - 1]
    BY <1>a, <2>1, SubSeqProperties DEF n
  <2>3. Len(SubSeq(stck, 1, n)) = n
    BY <2>1, <2>2
  <2>4. \A i \in 1..n : SubSeq(stck, 1, n)[i] = stck[i]
    BY <2>1, <2>2
  <2>. QED
    BY <2>2, <2>3, <2>4 DEF n
<1>3. stck' \in Seq(Frames) /\ Len(stck') = Len(stck) - 1
  BY <1>2, <1>b
<1>4. \A i \in 1..Len(stck') : stck'[i] = stck[i]
  BY <1>2, <1>3, <1>b
<1>5. stck' # << >> <=> Len(stck) # 1
  BY <1>1, <1>3
<1>. QED
  BY <1>3, <1>4, <1>5 DEF Pop

(* What a push of type t does to the stack.                                *)
LEMMA PushFacts ==
  ASSUME TypeOK, pc = "walk", NEW t \in Types, Push(t)
  PROVE  /\ stck' \in Seq(Frames)
         /\ Len(stck') = Len(stck) + 1
         /\ \A i \in 1..Len(stck) - 1 : stck'[i] = stck[i]
         /\ stck'[Len(stck)] = [id |-> Top.id, index |-> Cursor + 1]
         /\ stck'[Len(stck) + 1] = Frame(t)
         /\ stck' # << >>
<1>1. stck \in Seq(Frames) /\ Len(stck) \in Nat /\ Len(stck) >= 1
  BY TopFacts DEF TypeOK, Frames
<1>. DEFINE f == [id |-> Top.id, index |-> Cursor + 1]
           s == [stck EXCEPT ![Len(stck)] = f]
<1>2. stck' = Append(s, Frame(t))
  <2>1. [stck[Len(stck)] EXCEPT !.index = Cursor + 1] = f
    BY TopFacts DEF Top, Frames
  <2>. QED
    BY <2>1 DEF Push
<1>3. Frame(t) \in Frames /\ f \in Frames
  BY TopFacts DEF Frame, Frames
<1>. HIDE DEF f
<1>4. /\ s \in Seq(Frames) /\ Len(s) = Len(stck)
      /\ \A j \in 1..Len(stck) : s[j] = IF j = Len(stck) THEN f ELSE stck[j]
  BY <1>1, <1>3, ExceptSeq
<1>. HIDE DEF s
<1>5. /\ stck' \in Seq(Frames) /\ stck' # << >>
      /\ Len(stck') = Len(stck) + 1
      /\ \A j \in 1..Len(stck) : stck'[j] = s[j]
      /\ stck'[Len(stck) + 1] = Frame(t)
  BY <1>1, <1>2, <1>3, <1>4, AppendProperties
<1>. QED
  BY <1>1, <1>4, <1>5 DEF f

(* write_classes keeps every cursor, mark and frame in its range for every *)
(* list of classes, and its stack is empty exactly outside of a walk: spos *)
(* never runs below the array.                                             *)
THEOREM TypeCorrect == Spec => []TypeOK
<1>1. Init => TypeOK
  <2>. SUFFICES ASSUME Init PROVE TypeOK
    OBVIOUS
  <2>1. sz \in Nat
    BY ClassFacts DEF Init, sz
  <2>. QED
    BY <2>1 DEF Init, TypeOK
<1>2. TypeOK /\ [Next]_vars => TypeOK'
  <2>. SUFFICES ASSUME TypeOK, [Next]_vars PROVE TypeOK'
    OBVIOUS
  <2>0. sz \in Nat /\ stck \in Seq(Frames)
        /\ \A i \in 1..sz : classes[i].name \in Types
    BY ClassFacts DEF TypeOK, sz, Frames
  <2>1. CASE FillOne
    BY <2>0, <2>1 DEF FillOne, TypeOK, sz
  <2>2. CASE FillEnd
    BY <2>0, <2>2 DEF FillEnd, TypeOK, sz
  <2>3. CASE StartRoot
    <3>1. Frame(classes[cl].name) \in Frames
      BY <2>0, <2>3 DEF StartRoot, TypeOK, Frame, Frames
    <3>2. stck' \in Seq(Frames) /\ stck' # << >>
      BY <2>3, <3>1 DEF StartRoot
    <3>. QED
      BY <2>0, <2>3, <3>2 DEF StartRoot, TypeOK, sz, Frames
  <2>4. CASE Finish
    BY <2>4 DEF Finish, TypeOK, sz
  <2>5. CASE SkipType
    <3>1. pc = "walk" /\ Pop
      BY <2>5 DEF SkipType
    <3>. QED
      BY <2>5, <3>1, PopFacts DEF SkipType, TypeOK, sz, Frames
  <2>6. ASSUME NEW t \in Types, pc = "walk", Push(t) PROVE TypeOK'
    BY <2>6, PushFacts DEF Push, TypeOK, sz, Frames
  <2>7. CASE VisitSuper
    <3>1. classes[TopClass].super \in Types
      <4>1. TopClass \in 1..sz /\ Cursor = -1
        BY <2>7, TopFacts DEF VisitSuper
      <4>2. classes[TopClass].super # NoType
        BY <4>1, TopFacts DEF Cursor
      <4>. QED
        BY <4>1, <4>2, ClassFacts DEF TypeOK, sz
    <3>. QED
      BY <2>6, <2>7, <3>1 DEF VisitSuper
  <2>8. CASE VisitInterface
    <3>1. classes[TopClass].interfaces[Cursor + 1] \in Types
      <4>1. TopClass \in 1..sz /\ Cursor \in Int /\ Cursor >= 0
            /\ Cursor < Len(classes[TopClass].interfaces)
        BY <2>8, TopFacts DEF VisitInterface
      <4>2. Len(classes[TopClass].interfaces) \in Nat
        BY <4>1, ClassFacts DEF TypeOK, sz
      <4>3. Cursor + 1 \in 1..Len(classes[TopClass].interfaces)
        BY <4>1, <4>2
      <4>. QED
        BY <4>1, <4>3, ClassFacts DEF TypeOK, sz
    <3>. QED
      BY <2>6, <2>8, <3>1 DEF VisitInterface
  <2>9. CASE WriteClass
    <3>1. pc = "walk" /\ Pop /\ TopClass \in 1..sz
      BY <2>9, TopFacts DEF WriteClass
    <3>2. written' \in Seq(1..sz)
      BY <2>9, <3>1 DEF WriteClass, TypeOK
    <3>3. cl_type' \in [Types -> 0..sz]
      BY <2>0, <2>9, TopFacts DEF WriteClass, TypeOK
    <3>4. stck' \in Seq(Frames) /\ pc' \in {"roots", "walk"}
          /\ (pc' = "walk" <=> stck' # << >>)
      BY <3>1, PopFacts
    <3>5. UNCHANGED <<classes, cl>>
      BY <2>9 DEF WriteClass
    <3>. QED
      BY <3>2, <3>3, <3>4, <3>5 DEF TypeOK, sz, Frames
  <2>10. CASE Done
    BY <2>10 DEF Done, TypeOK, vars, sz
  <2>11. CASE UNCHANGED vars
    BY <2>11 DEF TypeOK, vars, sz
  <2>. QED
    BY <2>1, <2>2, <2>3, <2>4, <2>5, <2>7, <2>8, <2>9, <2>10, <2>11 DEF Next
<1>. QED
  BY <1>1, <1>2, PTL DEF Spec

(***************************************************************************)
(* The order of the class_defs.  MarkInv ties cl_type to what is written,  *)
(* ExaminedInv says that the parents a frame has passed are written or are *)
(* the frame above it: when the last parent of the top frame is passed,    *)
(* nothing is above it, so all of them are written.                        *)
(***************************************************************************)

(* At most one value satisfies the definition of Winner.                   *)
LEMMA WinnerIsLast ==
  ASSUME NEW t \in Types, sz \in Nat, NEW i \in 0..sz, IsLast(t, i, sz)
  PROVE  Winner(classes, t) = i
<1>. DEFINE P(k) == IF \E j \in 1..sz : classes[j].name = t
                      THEN k # 0 /\ classes[k].name = t
                           /\ \A j \in k+1..sz : classes[j].name # t
                      ELSE k = 0
<1>1. P(i)
  BY DEF IsLast
<1>2. ASSUME NEW k \in 0..sz, P(k) PROVE k = i
  <2>1. CASE \E j \in 1..sz : classes[j].name = t
    <3>1. i \in 1..sz /\ classes[i].name = t /\ \A j \in i+1..sz : classes[j].name # t
      BY <2>1 DEF IsLast
    <3>2. k \in 1..sz /\ classes[k].name = t /\ \A j \in k+1..sz : classes[j].name # t
      BY <1>2, <2>1
    <3>. QED
      BY <3>1, <3>2
  <2>2. CASE ~ \E j \in 1..sz : classes[j].name = t
    BY <1>2, <2>2 DEF IsLast
  <2>. QED
    BY <2>1, <2>2
<1>3. Winner(classes, t) = CHOOSE k \in 0..sz : P(k)
  BY DEF Winner, sz
<1>. HIDE DEF P
<1>. QED
  BY <1>1, <1>2, <1>3

(* dex->classes has a length, and each of its classes a type.              *)
LEMMA SizeFacts == TypeOK => sz \in Nat /\ \A i \in 1..sz : classes[i].name \in Types
BY ClassFacts DEF TypeOK, sz

(* Each step keeps the marks.                                              *)
LEMMA MarksKept ==
  ASSUME TypeOK, FillInv, MarkInv, [Next]_vars
  PROVE  FillInv' /\ MarkInv'
<1>. USE SizeFacts
<1>1. CASE FillOne
  <2>1. /\ cl \in 1..sz /\ cl' = cl + 1 /\ UNCHANGED <<classes, pc, stck, written>>
        /\ cl_type' = [cl_type EXCEPT ![classes[cl].name] = cl]
        /\ pc = "fill" /\ classes[cl].name \in Types
    BY <1>1 DEF FillOne, TypeOK
  <2>2. ASSUME NEW t \in Types PROVE IsLast(t, cl_type'[t], cl)
    <3>0. IsLast(t, cl_type[t], cl - 1)
      BY <2>1 DEF FillInv
    <3>1. CASE t = classes[cl].name
      <4>1. cl_type'[t] = cl
        BY <2>1, <3>1 DEF TypeOK
      <4>2. cl \in 1..cl /\ cl + 1..cl = {}
        BY <2>1
      <4>. QED
        BY <3>1, <4>1, <4>2 DEF IsLast
    <3>2. CASE t # classes[cl].name
      <4>1. cl_type'[t] = cl_type[t]
        BY <2>1, <3>2 DEF TypeOK
      <4>2. \A j \in 1..cl : classes[j].name = t => j \in 1..cl - 1
        BY <2>1, <3>2
      <4>3. CASE \E j \in 1..cl : classes[j].name = t
        <5>1. /\ cl_type[t] \in 1..cl - 1 /\ classes[cl_type[t]].name = t
              /\ \A j \in cl_type[t] + 1..cl - 1 : classes[j].name # t
          BY <3>0, <4>2, <4>3 DEF IsLast
        <5>2. \A j \in cl_type[t] + 1..cl : classes[j].name # t
          BY <2>1, <3>2, <5>1
        <5>. QED
          BY <2>1, <4>1, <4>3, <5>1, <5>2 DEF IsLast
      <4>4. CASE ~ \E j \in 1..cl : classes[j].name = t
        <5>1. ~ \E j \in 1..cl - 1 : classes[j].name = t
          BY <2>1, <4>4
        <5>. QED
          BY <3>0, <4>1, <4>4, <5>1 DEF IsLast
      <4>. QED
        BY <4>3, <4>4
    <3>. QED
      BY <3>1, <3>2
  <2>3. (cl - 1)' = cl
    BY <2>1
  <2>4. \A t \in Types : IsLast(t, cl_type[t], cl - 1)'
    BY <2>1, <2>2, <2>3 DEF IsLast
  <2>. QED
    BY <2>1, <2>4 DEF FillInv, MarkInv
<1>2. CASE FillEnd
  <2>1. /\ cl = sz + 1 /\ UNCHANGED <<classes, cl_type, stck, written>>
        /\ pc = "fill" /\ pc' = "roots"
    BY <1>2 DEF FillEnd, TypeOK
  <2>2. written = << >> /\ \A t \in Types : IsLast(t, cl_type[t], sz)
    BY <2>1 DEF FillInv
  <2>3. \A t \in Types : Winner(classes, t) = cl_type[t]
    BY <2>2, WinnerIsLast DEF TypeOK
  <2>. QED
    BY <2>1, <2>2, <2>3 DEF FillInv, MarkInv, WrittenSet, IsLast, sz
<1>3. CASE WriteClass
  <2>1. /\ pc = "walk" /\ Pop /\ TopClass # 0 /\ UNCHANGED <<classes, cl>>
        /\ cl_type' = [cl_type EXCEPT ![Top.id] = 0]
        /\ written' = Append(written, TopClass)
    BY <1>3 DEF WriteClass
  <2>2. Top.id \in Types /\ TopClass \in 1..sz /\ TopClass = cl_type[Top.id]
    BY <2>1, TopFacts DEF TopClass
  <2>3. WrittenSet' = WrittenSet \cup {TopClass}
    <3>1. /\ Len(written) \in Nat /\ Len(written') = Len(written) + 1
          /\ \A p \in 1..Len(written) : written'[p] = written[p]
          /\ written'[Len(written) + 1] = TopClass
      BY <2>1, <2>2 DEF TypeOK
    <3>. QED
      BY <3>1 DEF WrittenSet
  <2>4. pc' # "fill"
    BY <2>1 DEF Pop
  <2>5. TopClass = Winner(classes, Top.id) /\ classes[TopClass].name = Top.id
    BY <2>1, <2>2 DEF MarkInv, IsLast
  <2>6. \A t \in Types : cl_type'[t] = IF t = Top.id THEN 0 ELSE cl_type[t]
    BY <2>1 DEF TypeOK
  <2>7. WrittenSet \subseteq 1..sz
    BY DEF TypeOK, WrittenSet
  <2>8. /\ \A t \in Types : IsLast(t, Winner(classes, t), sz)
        /\ \A t \in Types : cl_type[t] \in {0, Winner(classes, t)}
        /\ \A t \in Types : cl_type[t] = 0 /\ Winner(classes, t) # 0
                              => Winner(classes, t) \in WrittenSet
        /\ \A w \in WrittenSet : /\ cl_type[classes[w].name] = 0
                                 /\ Winner(classes, classes[w].name) = w
    BY <2>1 DEF MarkInv
  <2>9. classes' = classes /\ sz' = sz
    BY <2>1 DEF sz
  <2>10. \A t \in Types : IsLast(t, Winner(classes, t), sz)'
    BY <2>8, <2>9 DEF IsLast
  <2>11. \A t \in Types : cl_type'[t] \in {0, Winner(classes, t)}
    BY <2>6, <2>8
  <2>12. \A t \in Types : cl_type'[t] = 0 /\ Winner(classes, t) # 0
                            => Winner(classes, t) \in WrittenSet'
    BY <2>3, <2>5, <2>6, <2>8
  <2>13. \A w \in WrittenSet' : /\ cl_type'[classes[w].name] = 0
                                /\ Winner(classes, classes[w].name) = w
    BY <2>2, <2>3, <2>5, <2>6, <2>7, <2>8
  <2>. QED
    BY <2>4, <2>9, <2>10, <2>11, <2>12, <2>13 DEF MarkInv, FillInv
<1>4. ASSUME pc # "fill", pc' # "fill", UNCHANGED <<classes, cl_type, written>>
      PROVE  FillInv' /\ MarkInv'
  BY <1>4 DEF FillInv, MarkInv, IsLast, WrittenSet, sz
<1>5. CASE UNCHANGED vars
  BY <1>5 DEF vars, FillInv, MarkInv, IsLast, WrittenSet, sz
<1>6. CASE StartRoot \/ Finish \/ SkipType \/ VisitSuper \/ VisitInterface
  BY <1>4, <1>6 DEF StartRoot, Finish, SkipType, VisitSuper, VisitInterface, Push, Pop
<1>. QED
  BY <1>1, <1>2, <1>3, <1>5, <1>6 DEF Next, Done

(* What a step of the walk examines.                                       *)
LEMMA CursorFacts ==
  ASSUME TypeOK, ExaminedInv, pc = "walk", TopClass # 0
  PROVE  /\ Cursor >= -1
         /\ \A t \in Examined(TopClass, Cursor) : cl_type[t] = 0
         /\ Cursor = -1 => classes[TopClass].super # NoType
<1>. USE TopFacts
<1>1. Top.index >= -1 /\ \A t \in Examined(TopClass, Top.index) : cl_type[t] = 0
  BY DEF ExaminedInv, Top, TopClass
<1>2. CASE Top.index = -1 /\ classes[TopClass].super = NoType
  <2>1. Cursor = 0
    BY <1>2 DEF Cursor
  <2>2. TopClass \in 1..sz
    OBVIOUS
  <2>3. Examined(TopClass, 0) = {}
    BY <1>2, <2>2, ClassFacts DEF Examined, TypeOK, sz
  <2>. QED
    BY <2>1, <2>3
<1>3. CASE ~ (Top.index = -1 /\ classes[TopClass].super = NoType)
  <2>1. Cursor = Top.index
    BY <1>3 DEF Cursor
  <2>. QED
    BY <1>1, <1>3, <2>1
<1>. QED
  BY <1>2, <1>3

(* A frame that was popped or pushed upon still examines parents in order. *)
LEMMA ExaminedKept ==
  ASSUME TypeOK, FillInv, MarkInv, ExaminedInv, [Next]_vars
  PROVE  ExaminedInv'
<1>. USE SizeFacts
<1>1. CASE FillOne \/ FillEnd
  <2>1. stck = << >> /\ stck' = stck
    BY <1>1 DEF FillOne, FillEnd, FillInv, ExaminedInv, TypeOK
  <2>2. Len(stck') = 0
    BY <2>1
  <2>. QED
    BY <2>2 DEF ExaminedInv
<1>2. CASE StartRoot
  <2>1. Len(stck') = 1 /\ stck'[1] = [id |-> classes[cl].name, index |-> -1]
        /\ UNCHANGED <<classes, cl_type>>
    BY <1>2 DEF StartRoot, Frame
  <2>2. Examined(cl_type[stck[1].id], -1)' = {}
    <3>1. classes[cl].name \in Types
      BY <1>2 DEF StartRoot, TypeOK
    <3>. QED
      BY <2>1, <3>1, ClassFacts DEF Examined, TypeOK, sz
  <2>. QED
    BY <2>1, <2>2, SMTT(30) DEF ExaminedInv, Examined
<1>3. CASE Finish \/ UNCHANGED vars
  BY <1>3 DEF Finish, vars, ExaminedInv, Examined
<1>4. ASSUME pc = "walk", Pop, UNCHANGED classes, Top.id \in Types,
             \A t \in Types : cl_type'[t] = IF t = Top.id THEN 0 ELSE cl_type[t]
      PROVE  ExaminedInv'
  <2>. SUFFICES ASSUME NEW f \in 1..Len(stck')
                PROVE  /\ stck'[f].index >= -1
                       /\ cl_type'[stck'[f].id] # 0 =>
                            \A t \in Examined(cl_type'[stck'[f].id], stck'[f].index) :
                              cl_type'[t] = 0 \/ (f < Len(stck') /\ stck'[f + 1].id = t)
    BY <1>4 DEF ExaminedInv, Examined
  <2>1. /\ Len(stck) \in Nat /\ Len(stck') = Len(stck) - 1 /\ stck'[f] = stck[f]
        /\ f \in 1..Len(stck) - 1
        /\ f < Len(stck') => stck'[f + 1] = stck[f + 1]
        /\ f = Len(stck') => stck[f + 1] = Top
        /\ stck[f] \in Frames
    <3>1. stck \in Seq(Frames) /\ Len(stck) \in Nat /\ Len(stck) >= 1
      BY <1>4, TopFacts DEF TypeOK, Frames
    <3>2. Len(stck') = Len(stck) - 1 /\ \A i \in 1..Len(stck') : stck'[i] = stck[i]
      BY <1>4, PopFacts
    <3>3. f \in 1..Len(stck) - 1 /\ f \in 1..Len(stck)
      BY <3>1, <3>2
    <3>4. f < Len(stck') => f + 1 \in 1..Len(stck')
      BY <3>1, <3>2
    <3>5. f = Len(stck') => f + 1 = Len(stck)
      BY <3>1, <3>2
    <3>. QED
      BY <3>1, <3>2, <3>3, <3>4, <3>5, ElementOfSeq DEF Top
  <2>2. /\ stck[f].index >= -1
        /\ cl_type[stck[f].id] # 0 =>
             \A t \in Examined(cl_type[stck[f].id], stck[f].index) :
               cl_type[t] = 0 \/ stck[f + 1].id = t
    <3>1. f \in 1..Len(stck)
      BY <2>1
    <3>. QED
      BY <3>1 DEF ExaminedInv
  <2>3. ASSUME cl_type'[stck'[f].id] # 0,
               NEW t \in Examined(cl_type'[stck'[f].id], stck'[f].index)
        PROVE  cl_type'[t] = 0 \/ (f < Len(stck') /\ stck'[f + 1].id = t)
    <3>1. stck[f].id \in Types /\ cl_type'[stck[f].id] = cl_type[stck[f].id]
          /\ cl_type[stck[f].id] \in 1..sz
      BY <1>4, <2>1, <2>3 DEF Frames, TypeOK
    <3>2. t \in Types
      BY <2>1, <2>3, <3>1, ClassFacts DEF Examined, TypeOK, sz
    <3>3. cl_type[t] = 0 \/ stck[f + 1].id = t
      BY <2>1, <2>2, <2>3, <3>1
    <3>4. CASE f < Len(stck')
      BY <1>4, <2>1, <3>2, <3>3, <3>4
    <3>5. CASE f = Len(stck')
      BY <1>4, <2>1, <3>2, <3>3, <3>5
    <3>. QED
      BY <2>1, <3>4, <3>5
  <2>. QED
    BY <2>1, <2>2, <2>3
<1>5. CASE SkipType
  <2>1. pc = "walk" /\ Pop /\ TopClass = 0 /\ UNCHANGED <<classes, cl_type>>
    BY <1>5 DEF SkipType
  <2>2. Top.id \in Types /\ cl_type[Top.id] = 0
    BY <2>1, TopFacts DEF TopClass
  <2>. QED
    BY <1>4, <2>1, <2>2
<1>6. CASE WriteClass
  <2>1. pc = "walk" /\ Pop /\ cl_type' = [cl_type EXCEPT ![Top.id] = 0]
        /\ UNCHANGED <<classes, cl>>
    BY <1>6 DEF WriteClass
  <2>2. Top.id \in Types
    BY <2>1, TopFacts
  <2>3. \A t \in Types : cl_type'[t] = IF t = Top.id THEN 0 ELSE cl_type[t]
    BY <2>1, <2>2 DEF TypeOK
  <2>. QED
    BY <1>4, <2>1, <2>2, <2>3
<1>7. ASSUME pc = "walk", TopClass # 0, NEW u \in Types, Push(u),
             Examined(TopClass, Cursor + 1) \subseteq Examined(TopClass, Cursor) \cup {u}
      PROVE  ExaminedInv'
  <2>0. UNCHANGED <<classes, cl_type>>
    BY <1>7 DEF Push
  <2>. SUFFICES ASSUME NEW f \in 1..Len(stck')
                PROVE  /\ stck'[f].index >= -1
                       /\ cl_type[stck'[f].id] # 0 =>
                            \A t \in Examined(cl_type[stck'[f].id], stck'[f].index) :
                              cl_type[t] = 0 \/ (f < Len(stck') /\ stck'[f + 1].id = t)
    BY <2>0 DEF ExaminedInv, Examined
  <2>1. /\ Len(stck) \in Nat /\ Len(stck) >= 1 /\ Len(stck') = Len(stck) + 1
        /\ \A i \in 1..Len(stck) - 1 : stck'[i] = stck[i]
        /\ stck'[Len(stck)] = [id |-> Top.id, index |-> Cursor + 1]
        /\ stck'[Len(stck) + 1] = [id |-> u, index |-> -1]
    BY <1>7, PushFacts, TopFacts DEF Frame
  <2>2. CASE f < Len(stck)
    <3>1. stck'[f] = stck[f] /\ f \in 1..Len(stck) /\ f + 1 \in 1..Len(stck)
      BY <2>1, <2>2
    <3>2. stck'[f + 1].id = stck[f + 1].id
      BY <2>1, <2>2, <3>1 DEF Top
    <3>. QED
      BY <2>1, <2>2, <3>1, <3>2 DEF ExaminedInv
  <2>3. CASE f = Len(stck)
    <3>1. stck'[f].id = Top.id /\ stck'[f].index = Cursor + 1 /\ stck'[f + 1].id = u
          /\ f < Len(stck')
      BY <2>1, <2>3
    <3>2. \A t \in Examined(TopClass, Cursor + 1) : cl_type[t] = 0 \/ t = u
      BY <1>7, CursorFacts
    <3>. QED
      BY <1>7, <3>1, <3>2, CursorFacts, TopFacts DEF TopClass
  <2>4. CASE f = Len(stck) + 1
    <3>1. stck'[f].id = u /\ stck'[f].index = -1
      BY <2>1, <2>4
    <3>2. cl_type[u] # 0 => Examined(cl_type[u], -1) = {}
      BY <1>7, ClassFacts DEF Examined, TypeOK, sz
    <3>. QED
      BY <3>1, <3>2
  <2>. QED
    BY <2>1, <2>2, <2>3, <2>4
<1>8. CASE VisitSuper
  <2>1. pc = "walk" /\ TopClass \in 1..sz /\ Cursor = -1
        /\ Push(classes[TopClass].super)
    BY <1>8, TopFacts DEF VisitSuper
  <2>2. classes[TopClass].super \in Types
    <3>1. classes[TopClass].super # NoType
      BY <2>1, CursorFacts
    <3>2. classes[TopClass].super \in Types \cup {NoType}
      BY <2>1, ClassFacts DEF TypeOK, sz
    <3>. QED
      BY <3>1, <3>2
  <2>3. Examined(TopClass, 0) \subseteq {classes[TopClass].super}
    BY <2>1, ClassFacts DEF Examined, TypeOK, sz
  <2>. QED
    BY <1>7, <2>1, <2>2, <2>3
<1>9. CASE VisitInterface
  <2>1. pc = "walk" /\ TopClass \in 1..sz /\ Cursor \in Int /\ Cursor >= 0
        /\ Cursor < Len(classes[TopClass].interfaces)
        /\ Push(classes[TopClass].interfaces[Cursor + 1])
    BY <1>9, TopFacts DEF VisitInterface
  <2>2. classes[TopClass].interfaces[Cursor + 1] \in Types
    BY <2>1, ClassFacts, SMTT(30) DEF TypeOK, sz
  <2>3. Examined(TopClass, Cursor + 1)
          \subseteq Examined(TopClass, Cursor) \cup {classes[TopClass].interfaces[Cursor + 1]}
    <3>1. \A k \in 1..Len(classes[TopClass].interfaces) :
            k <= Cursor + 1 => k <= Cursor \/ k = Cursor + 1
      BY <2>1, ClassFacts DEF TypeOK, sz
    <3>. QED
      BY <2>1, <3>1 DEF Examined
  <2>. QED
    BY <1>7, <2>1, <2>2, <2>3
<1>. QED
  BY <1>1, <1>2, <1>3, <1>5, <1>6, <1>8, <1>9 DEF Next, Done

(* Every class already met as a root is written.                           *)
LEMMA RootsKept ==
  ASSUME TypeOK, FillInv, MarkInv, RootInv, [Next]_vars
  PROVE  RootInv'
<1>. USE SizeFacts
<1>1. CASE FillOne
  BY <1>1 DEF FillOne, RootInv
<1>2. CASE FillEnd
  BY <1>2 DEF FillEnd, RootInv
<1>3. CASE StartRoot
  <2>1. /\ pc = "roots" /\ pc' = "walk" /\ cl \in 1..sz /\ cl' = cl + 1
        /\ UNCHANGED <<classes, cl_type>>
        /\ stck' = <<Frame(classes[cl].name)>>
    BY <1>3 DEF StartRoot, TypeOK
  <2>2. stck'[1].id = classes[cl].name /\ cl' - 1 = cl /\ cl' - 2 = cl - 1
    BY <2>1 DEF Frame
  <2>. QED
    BY <2>1, <2>2 DEF RootInv
<1>4. CASE Finish
  BY <1>4 DEF Finish, RootInv, TypeOK, sz
<1>5. ASSUME pc = "walk", Pop, UNCHANGED <<classes, cl>>,
             cl_type'[Top.id] = 0, \A t \in Types : cl_type[t] = 0 => cl_type'[t] = 0
      PROVE  RootInv'
  <2>1. /\ cl > 1 /\ stck[1].id = classes[cl - 1].name
        /\ \A i \in 1..cl - 2 : cl_type[classes[i].name] = 0
    BY <1>5 DEF RootInv
  <2>2. cl \in 1..sz + 1 /\ sz' = sz
    BY <1>5 DEF TypeOK, sz
  <2>3. \A i \in 1..cl - 2 : cl_type'[classes[i].name] = 0
    BY <1>5, <2>1, <2>2
  <2>4. CASE Len(stck) = 1
    <3>1. pc' = "roots" /\ Top.id = classes[cl - 1].name
      BY <1>5, <2>1, <2>4 DEF Pop, Top
    <3>2. \A i \in 1..cl - 1 : i \in 1..cl - 2 \/ i = cl - 1
      BY <2>2
    <3>. QED
      BY <1>5, <2>3, <3>1, <3>2 DEF RootInv
  <2>5. CASE Len(stck) # 1
    <3>1. pc' = "walk"
      BY <1>5, <2>5 DEF Pop
    <3>2. stck'[1] = stck[1]
      BY <1>5, <2>5, PopFacts, TopFacts
    <3>. QED
      BY <1>5, <2>1, <2>3, <3>1, <3>2 DEF RootInv
  <2>. QED
    BY <2>4, <2>5
<1>6. CASE SkipType
  <2>1. pc = "walk" /\ Pop /\ TopClass = 0 /\ UNCHANGED <<classes, cl, cl_type>>
    BY <1>6 DEF SkipType
  <2>. QED
    BY <1>5, <2>1 DEF TopClass
<1>7. CASE WriteClass
  <2>1. pc = "walk" /\ Pop /\ UNCHANGED <<classes, cl>>
        /\ cl_type' = [cl_type EXCEPT ![Top.id] = 0]
    BY <1>7 DEF WriteClass
  <2>2. Top.id \in Types
    BY <2>1, TopFacts
  <2>3. cl_type'[Top.id] = 0 /\ \A t \in Types : cl_type[t] = 0 => cl_type'[t] = 0
    BY <2>1, <2>2 DEF TypeOK
  <2>. QED
    BY <1>5, <2>1, <2>3
<1>8. ASSUME pc = "walk", NEW u \in Types, Push(u) PROVE RootInv'
  <2>1. UNCHANGED <<classes, pc, cl, cl_type>>
    BY <1>8 DEF Push
  <2>2. stck'[1].id = stck[1].id
    <3>1. Len(stck) \in Nat /\ Len(stck) >= 1
      BY <1>8, TopFacts
    <3>2. CASE Len(stck) = 1
      BY <1>8, <3>2, PushFacts DEF Top
    <3>3. CASE Len(stck) > 1
      BY <1>8, <3>1, <3>3, PushFacts
    <3>. QED
      BY <3>1, <3>2, <3>3, SMTT(30)
  <2>. QED
    BY <1>8, <2>1, <2>2 DEF RootInv, sz
<1>9. CASE VisitSuper
  <2>1. pc = "walk" /\ TopClass \in 1..sz /\ Cursor = -1
        /\ Push(classes[TopClass].super)
    BY <1>9, TopFacts DEF VisitSuper
  <2>2. classes[TopClass].super \in Types
    <3>1. classes[TopClass].super # NoType
      BY <2>1, TopFacts DEF Cursor
    <3>2. classes[TopClass].super \in Types \cup {NoType}
      BY <2>1, ClassFacts DEF TypeOK, sz
    <3>. QED
      BY <3>1, <3>2
  <2>. QED
    BY <1>8, <2>1, <2>2
<1>10. CASE VisitInterface
  <2>1. pc = "walk" /\ TopClass \in 1..sz /\ Cursor \in Int /\ Cursor >= 0
        /\ Cursor < Len(classes[TopClass].interfaces)
        /\ Push(classes[TopClass].interfaces[Cursor + 1])
    BY <1>10, TopFacts DEF VisitInterface
  <2>2. classes[TopClass].interfaces[Cursor + 1] \in Types
    BY <2>1, ClassFacts, SMTT(30) DEF TypeOK, sz
  <2>. QED
    BY <1>8, <2>1, <2>2
<1>11. CASE UNCHANGED vars
  BY <1>11 DEF vars, RootInv, sz
<1>. QED
  BY <1>1, <1>2, <1>3, <1>4, <1>6, <1>7, <1>9, <1>10, <1>11 DEF Next, Done

WalkInv == FillInv /\ MarkInv /\ ExaminedInv /\ RootInv

(* The inductive invariant of the walk.                                    *)
THEOREM WalkInvariant == Spec => []WalkInv
<1>1. Init => WalkInv
  <2>. SUFFICES ASSUME Init PROVE WalkInv
    OBVIOUS
  <2>1. stck = << >> /\ written = << >> /\ pc = "fill" /\ cl = 1
        /\ \A t \in Types : cl_type[t] = 0
    BY DEF Init
  <2>2. Len(stck) = 0
    BY <2>1
  <2>3. \A t \in Types : IsLast(t, 0, 0)
    BY DEF IsLast
  <2>. QED
    BY <2>1, <2>2, <2>3 DEF WalkInv, FillInv, MarkInv, ExaminedInv, RootInv
<1>2. TypeOK /\ WalkInv /\ [Next]_vars => WalkInv'
  BY MarksKept, ExaminedKept, RootsKept DEF WalkInv
<1>. QED
  BY <1>1, <1>2, TypeCorrect, PTL DEF Spec

(* A class is written only when no parent of it is still to be written.    *)
LEMMA WriteFacts ==
  ASSUME TypeOK, WalkInv, WriteClass
  PROVE  /\ TopClass \in Winners(classes) \ WrittenSet
         /\ \A t \in Parents(classes, TopClass) :
              t \in Types /\ Winner(classes, t) \in WrittenSet \cup {0}
         /\ written \in Seq(1..sz) /\ written' = Append(written, TopClass)
         /\ UNCHANGED classes
<1>. USE SizeFacts
<1>1. /\ pc = "walk" /\ TopClass \in 1..sz /\ Cursor \in Int /\ Cursor >= 0
      /\ Cursor >= Len(classes[TopClass].interfaces)
      /\ Top.id \in Types /\ TopClass = cl_type[Top.id]
      /\ written' = Append(written, TopClass)
      /\ UNCHANGED classes
  BY TopFacts DEF WriteClass, TopClass
<1>2. TopClass = Winner(classes, Top.id) /\ classes[TopClass].name = Top.id
  BY <1>1 DEF WalkInv, MarkInv, IsLast
<1>3. TopClass \notin WrittenSet
  <2>1. \A w \in WrittenSet : cl_type[classes[w].name] = 0
    BY <1>1 DEF WalkInv, MarkInv
  <2>. SUFFICES ASSUME TopClass \in WrittenSet PROVE FALSE
    OBVIOUS
  <2>2. cl_type[classes[TopClass].name] = 0
    BY <2>1
  <2>3. cl_type[Top.id] = 0
    BY <1>2, <2>2
  <2>4. cl_type[Top.id] # 0
    BY <1>1
  <2>. QED
    BY <2>3, <2>4
<1>4. TopClass \in Winners(classes)
  BY <1>1, <1>2 DEF Winners, sz
<1>5. \A t \in Parents(classes, TopClass) : t \in Types /\ cl_type[t] = 0
  <2>1. Parents(classes, TopClass) \subseteq Types
    BY <1>1, ClassFacts DEF TypeOK, sz
  <2>2. Len(classes[TopClass].interfaces) \in Nat
    BY <1>1, ClassFacts DEF TypeOK, sz
  <2>3. Parents(classes, TopClass) \subseteq Examined(TopClass, Cursor)
    BY <1>1, <2>2 DEF Parents, Examined
  <2>. QED
    BY <1>1, <2>1, <2>3, CursorFacts DEF WalkInv
<1>6. \A t \in Types : cl_type[t] = 0 => Winner(classes, t) \in WrittenSet \cup {0}
  BY <1>1 DEF WalkInv, MarkInv
<1>. QED
  BY <1>1, <1>3, <1>4, <1>5, <1>6 DEF TypeOK

(* What is written changes only by WriteClass.                             *)
LEMMA OtherSteps ==
  [Next]_vars => WriteClass \/ UNCHANGED <<classes, written>>
BY DEF Next, vars, FillOne, FillEnd, StartRoot, Finish, SkipType, VisitSuper,
       VisitInterface, Push, Done

(* The walk of write_classes gives a class to write_class only after the   *)
(* super class and the interfaces of it that the file defines.             *)
THEOREM ParentsFirstTheorem == Spec => []ParentsFirst
<1>1. Init => ParentsFirst
  BY DEF Init, ParentsFirst
<1>2. TypeOK /\ WalkInv /\ ParentsFirst /\ [Next]_vars => ParentsFirst'
  <2>. SUFFICES ASSUME TypeOK, WalkInv, ParentsFirst, [Next]_vars PROVE ParentsFirst'
    OBVIOUS
  <2>1. CASE WriteClass
    <3>1. /\ Len(written) \in Nat /\ Len(written') = Len(written) + 1
          /\ \A p \in 1..Len(written) : written'[p] = written[p]
          /\ written'[Len(written) + 1] = TopClass
          /\ UNCHANGED classes
      BY <2>1, WriteFacts
    <3>2. \A t \in Parents(classes, TopClass) :
            Winner(classes, t) # 0
              => \E q \in 1..Len(written) : written[q] = Winner(classes, t)
      BY <2>1, WriteFacts DEF WrittenSet
    <3>3. ASSUME NEW p \in 1..Len(written'), NEW t \in Parents(classes, written'[p]),
                 Winner(classes, t) # 0
          PROVE  \E q \in 1..p - 1 : written'[q] = Winner(classes, t)
      <4>1. CASE p = Len(written) + 1
        BY <3>1, <3>2, <3>3, <4>1
      <4>2. CASE p \in 1..Len(written)
        <5>1. \E q \in 1..p - 1 : written[q] = Winner(classes, t)
          BY <3>1, <3>3, <4>2 DEF ParentsFirst
        <5>. QED
          BY <3>1, <4>2, <5>1
      <4>. QED
        BY <3>1, <4>1, <4>2
    <3>. QED
      BY <3>1, <3>3 DEF ParentsFirst
  <2>2. CASE UNCHANGED <<classes, written>>
    BY <2>2 DEF ParentsFirst
  <2>. QED
    BY <2>1, <2>2, OtherSteps
<1>. QED
  BY <1>1, <1>2, TypeCorrect, WalkInvariant, PTL DEF Spec

(* No class is given to write_class twice: cl_type[id] = NULL is enough of *)
(* a mark, although the walk meets a class once per heir.                  *)
THEOREM WrittenOnceTheorem == Spec => []WrittenOnce
<1>1. Init => WrittenOnce
  BY DEF Init, WrittenOnce
<1>2. TypeOK /\ WalkInv /\ WrittenOnce /\ [Next]_vars => WrittenOnce'
  <2>. SUFFICES ASSUME TypeOK, WalkInv, WrittenOnce, [Next]_vars PROVE WrittenOnce'
    OBVIOUS
  <2>1. CASE WriteClass
    <3>1. /\ Len(written) \in Nat /\ Len(written') = Len(written) + 1
          /\ \A p \in 1..Len(written) : written'[p] = written[p]
          /\ written'[Len(written) + 1] = TopClass
      BY <2>1, WriteFacts
    <3>2. \A p \in 1..Len(written) : written[p] # TopClass
      BY <2>1, WriteFacts DEF WrittenSet
    <3>. QED
      BY <3>1, <3>2 DEF WrittenOnce
  <2>2. CASE UNCHANGED <<classes, written>>
    BY <2>2 DEF WrittenOnce
  <2>. QED
    BY <2>1, <2>2, OtherSteps
<1>. QED
  BY <1>1, <1>2, TypeCorrect, WalkInvariant, PTL DEF Spec

(* When write_classes returns, the classes written are those that define   *)
(* their type last: all of them when no type is defined twice.             *)
THEOREM AllWrittenTheorem == Spec => []AllWritten
<1>1. TypeOK /\ WalkInv => AllWritten
  <2>. SUFFICES ASSUME TypeOK, WalkInv, pc = "done" PROVE WrittenSet = Winners(classes)
    BY DEF AllWritten
  <2>1. WrittenSet \subseteq 1..sz /\ sz = Len(classes)
    BY DEF TypeOK, WrittenSet, sz
  <2>2. WrittenSet \subseteq Winners(classes)
    BY <2>1 DEF WalkInv, MarkInv, Winners
  <2>3. ASSUME NEW i \in Winners(classes) PROVE i \in WrittenSet
    <3>1. i \in 1..sz /\ Winner(classes, classes[i].name) = i
      BY <2>1 DEF Winners
    <3>2. cl_type[classes[i].name] = 0 /\ classes[i].name \in Types
      BY <3>1, SizeFacts DEF WalkInv, RootInv
    <3>. QED
      BY <3>1, <3>2 DEF WalkInv, MarkInv
  <2>. QED
    BY <2>2, <2>3
<1>. QED
  BY <1>1, TypeCorrect, WalkInvariant, PTL

(***************************************************************************)
(* The walk implements the emission of classes in inheritance order.       *)
(***************************************************************************)
(* The hierarchy the abstract emission refers to is that of ClassOrder.    *)
LEMMA SameHierarchy ==
  /\ \A t : Emission!Winner(classes, t) = Winner(classes, t)
  /\ \A i : Emission!Parents(classes, i) = Parents(classes, i)
  /\ Emission!Winners(classes) = Winners(classes)
<1>1. \A t : Emission!Winner(classes, t) = Winner(classes, t)
  BY DEF Emission!Winner, Winner
<1>2. \A i : Emission!Parents(classes, i) = Parents(classes, i)
  BY DEF Emission!Parents, Parents
<1>. QED
  BY <1>1, <1>2 DEF Emission!Winners, Winners

(* The walk implements the emission of classes in inheritance order: its   *)
(* initial states are initial there, and each step emits a ready class or  *)
(* changes nothing that the emission sees.                                 *)
THEOREM Refinement == Spec => Emission!Init /\ [][Emission!Next]_(Emission!vars)
<1>1. Init => Emission!Init
  BY DEF Init, Emission!Init, WrittenSet
<1>2. TypeOK /\ WalkInv /\ [Next]_vars => [Emission!Next]_(Emission!vars)
  <2>. SUFFICES ASSUME TypeOK, WalkInv, [Next]_vars
                PROVE  [Emission!Next]_(Emission!vars)
    OBVIOUS
  <2>1. CASE WriteClass
    <3>1. TopClass \in 1..Len(classes)
      BY <2>1, WriteFacts DEF Winners
    <3>2. WrittenSet' = WrittenSet \cup {TopClass}
      <4>1. written \in Seq(1..sz) /\ written' = Append(written, TopClass)
        BY <2>1, WriteFacts
      <4>2. /\ Len(written) \in Nat /\ Len(written') = Len(written) + 1
            /\ \A p \in 1..Len(written) : written'[p] = written[p]
            /\ written'[Len(written) + 1] = TopClass
        BY <4>1
      <4>. QED
        BY <4>2 DEF WrittenSet
    <3>3. Emission!Ready(TopClass)
      BY <2>1, WriteFacts, SameHierarchy DEF Emission!Ready
    <3>4. Emission!Emit(TopClass)
      BY <2>1, <3>2, <3>3, WriteFacts DEF Emission!Emit
    <3>. QED
      BY <3>1, <3>4 DEF Emission!Next
  <2>2. CASE UNCHANGED <<classes, written>>
    BY <2>2 DEF Emission!vars, WrittenSet
  <2>. QED
    BY <2>1, <2>2, OtherSteps
<1>. QED
  BY <1>1, <1>2, TypeCorrect, WalkInvariant, PTL DEF Spec

(***************************************************************************)
(* The size of the stack.  Ranks fall along it, so its frames below the    *)
(* top are different types with a class each: at most sz of them.          *)
(***************************************************************************)
RankOf(cs) == CHOOSE rank \in [Types -> 0..Cardinality(Types)] : Ranks(cs, rank)

(* An acyclic list of classes has a ranking of the types.                  *)
LEMMA RankFacts ==
  ASSUME NEW cs \in ClassLists
  PROVE  /\ \A t \in Types : RankOf(cs)[t] \in Nat
         /\ Ranks(cs, RankOf(cs))
<1>1. \E rank \in [Types -> 0..Cardinality(Types)] : Ranks(cs, rank)
  BY AcyclicAssumption DEF Acyclic
<1>2. RankOf(cs) \in [Types -> 0..Cardinality(Types)] /\ Ranks(cs, RankOf(cs))
  BY <1>1 DEF RankOf
<1>3. Cardinality(Types) \in Nat
  BY TypesFinite, FS_CardinalityType
<1>. QED
  BY <1>2, <1>3

DescentInv ==
  \A g \in 1..Len(stck) : \A f \in 1..g - 1 :
    /\ cl_type[stck[f].id] # 0
    /\ RankOf(classes)[stck[g].id] < RankOf(classes)[stck[f].id]

(* Each step keeps the frames of the stack in descending rank.             *)
LEMMA DescentKept ==
  ASSUME TypeOK, WalkInv, DescentInv, [Next]_vars
  PROVE  DescentInv'
<1>. USE SizeFacts
<1>1. CASE FillOne \/ FillEnd
  <2>1. stck' = << >>
    BY <1>1 DEF FillOne, FillEnd, FillInv, WalkInv
  <2>. QED
    BY <2>1 DEF DescentInv
<1>2. CASE StartRoot
  <2>1. Len(stck') = 1
    BY <1>2 DEF StartRoot
  <2>. QED
    BY <2>1 DEF DescentInv
<1>3. CASE Finish \/ UNCHANGED vars
  BY <1>3 DEF Finish, vars, DescentInv
<1>4. CASE SkipType
  <2>1. pc = "walk" /\ Pop /\ UNCHANGED <<classes, cl_type>>
    BY <1>4 DEF SkipType
  <2>2. Len(stck) \in Nat /\ Len(stck') = Len(stck) - 1
        /\ \A i \in 1..Len(stck') : stck'[i] = stck[i]
    BY <2>1, PopFacts, TopFacts
  <2>3. ASSUME NEW g \in 1..Len(stck'), NEW f \in 1..g - 1
        PROVE  /\ cl_type'[stck'[f].id] # 0
               /\ RankOf(classes')[stck'[g].id] < RankOf(classes')[stck'[f].id]
    <3>1. g \in 1..Len(stck) /\ f \in 1..Len(stck')
      BY <2>2
    <3>. QED
      BY <2>1, <2>2, <3>1 DEF DescentInv
  <2>. QED
    BY <2>3 DEF DescentInv
<1>5. CASE WriteClass
  <2>1. pc = "walk" /\ Pop /\ cl_type' = [cl_type EXCEPT ![Top.id] = 0]
        /\ classes' = classes
    BY <1>5 DEF WriteClass
  <2>2. Len(stck) \in Nat /\ Len(stck) >= 1 /\ Len(stck') = Len(stck) - 1
        /\ \A i \in 1..Len(stck') : stck'[i] = stck[i]
    BY <2>1, PopFacts, TopFacts
  <2>3. \A i \in 1..Len(stck) : stck[i].id \in Types
    BY FrameIds
  <2>4. \A i \in 1..Len(stck) - 1 : stck[i].id # Top.id
    <3>. SUFFICES ASSUME NEW i \in 1..Len(stck) - 1, stck[i].id = Top.id PROVE FALSE
      OBVIOUS
    <3>1. RankOf(classes)[Top.id] < RankOf(classes)[stck[i].id]
      BY <2>2 DEF DescentInv, Top
    <3>2. RankOf(classes)[Top.id] \in Nat
      BY <2>1, RankFacts, TopFacts DEF TypeOK
    <3>. QED
      BY <3>1, <3>2
  <2>5. \A i \in 1..Len(stck) - 1 : cl_type'[stck[i].id] = cl_type[stck[i].id]
    BY <2>1, <2>2, <2>3, <2>4 DEF TypeOK
  <2>6. ASSUME NEW g \in 1..Len(stck'), NEW f \in 1..g - 1
        PROVE  /\ cl_type'[stck'[f].id] # 0
               /\ RankOf(classes')[stck'[g].id] < RankOf(classes')[stck'[f].id]
    <3>1. g \in 1..Len(stck) /\ f \in 1..Len(stck) - 1 /\ f \in 1..Len(stck')
      BY <2>2
    <3>. QED
      BY <2>1, <2>2, <2>5, <3>1 DEF DescentInv
  <2>. QED
    BY <2>6 DEF DescentInv
<1>6. ASSUME pc = "walk", TopClass # 0, NEW u \in Types, Push(u),
             u \in Parents(classes, TopClass)
      PROVE  DescentInv'
  <2>1. UNCHANGED <<classes, cl_type>>
    BY <1>6 DEF Push
  <2>2. /\ Len(stck) \in Nat /\ Len(stck) >= 1 /\ Len(stck') = Len(stck) + 1
        /\ \A i \in 1..Len(stck) - 1 : stck'[i] = stck[i]
        /\ stck'[Len(stck)].id = Top.id
        /\ stck'[Len(stck) + 1].id = u
    <3>1. Len(stck) \in Nat /\ Len(stck) >= 1
      BY <1>6, TopFacts
    <3>2. /\ Len(stck') = Len(stck) + 1
          /\ \A i \in 1..Len(stck) - 1 : stck'[i] = stck[i]
          /\ stck'[Len(stck)] = [id |-> Top.id, index |-> Cursor + 1]
          /\ stck'[Len(stck) + 1] = [id |-> u, index |-> -1]
      BY <1>6, PushFacts DEF Frame
    <3>. QED
      BY <3>1, <3>2
  <2>3. \A i \in 1..Len(stck) : stck'[i].id = stck[i].id
    BY <2>2 DEF Top
  <2>4. TopClass \in 1..sz /\ Top.id \in Types /\ TopClass = cl_type[Top.id]
    BY <1>6, TopFacts DEF TopClass
  <2>5. classes[TopClass].name = Top.id
    BY <1>6, <2>4 DEF WalkInv, MarkInv, IsLast
  <2>6. RankOf(classes)[u] < RankOf(classes)[Top.id]
    BY <1>6, <2>4, <2>5, RankFacts DEF Ranks, TypeOK, sz
  <2>7. \A t \in Types : RankOf(classes)[t] \in Nat
    BY RankFacts DEF TypeOK
  <2>8. \A i \in 1..Len(stck) : stck[i].id \in Types
    BY FrameIds
  <2>9. ASSUME NEW g \in 1..Len(stck'), NEW f \in 1..g - 1
        PROVE  /\ cl_type[stck'[f].id] # 0
               /\ RankOf(classes)[stck'[g].id] < RankOf(classes)[stck'[f].id]
    <3>1. CASE g \in 1..Len(stck)
      <4>1. f \in 1..Len(stck)
        BY <2>2, <3>1
      <4>. QED
        BY <2>3, <3>1, <4>1 DEF DescentInv
    <3>2. CASE g = Len(stck) + 1 /\ f = Len(stck)
      BY <1>6, <2>2, <2>4, <2>6, <3>2
    <3>3. CASE g = Len(stck) + 1 /\ f \in 1..Len(stck) - 1
      <4>1. cl_type[stck[f].id] # 0
            /\ RankOf(classes)[Top.id] < RankOf(classes)[stck[f].id]
        BY <2>2, <3>3 DEF DescentInv, Top
      <4>2. stck[f].id \in Types /\ stck'[f].id = stck[f].id
        BY <2>2, <2>3, <2>8, <3>3
      <4>3. RankOf(classes)[u] < RankOf(classes)[stck[f].id]
        BY <1>6, <2>4, <2>6, <2>7, <4>1, <4>2
      <4>. QED
        BY <2>2, <3>3, <4>1, <4>2, <4>3
    <3>. QED
      BY <2>2, <3>1, <3>2, <3>3
  <2>. QED
    BY <2>1, <2>9 DEF DescentInv
<1>7. CASE VisitSuper
  <2>1. pc = "walk" /\ TopClass \in 1..sz /\ Cursor = -1
        /\ Push(classes[TopClass].super)
    BY <1>7, TopFacts DEF VisitSuper
  <2>2. classes[TopClass].super \in Types
    <3>1. classes[TopClass].super # NoType
      BY <2>1, TopFacts DEF Cursor
    <3>2. classes[TopClass].super \in Types \cup {NoType}
      BY <2>1, ClassFacts DEF TypeOK, sz
    <3>. QED
      BY <3>1, <3>2
  <2>3. classes[TopClass].super \in Parents(classes, TopClass)
    BY <2>2, NoTypeAssumption DEF Parents
  <2>. QED
    BY <1>6, <2>1, <2>2, <2>3
<1>8. CASE VisitInterface
  <2>1. pc = "walk" /\ TopClass \in 1..sz /\ Cursor \in Int /\ Cursor >= 0
        /\ Cursor < Len(classes[TopClass].interfaces)
        /\ Push(classes[TopClass].interfaces[Cursor + 1])
    BY <1>8, TopFacts DEF VisitInterface
  <2>2. Len(classes[TopClass].interfaces) \in Nat
    BY <2>1, ClassFacts DEF TypeOK, sz
  <2>3. Cursor + 1 \in 1..Len(classes[TopClass].interfaces)
    BY <2>1, <2>2
  <2>4. classes[TopClass].interfaces[Cursor + 1] \in Types
    BY <2>1, <2>3, ClassFacts DEF TypeOK, sz
  <2>5. classes[TopClass].interfaces[Cursor + 1] \in Parents(classes, TopClass)
    BY <2>3 DEF Parents
  <2>. QED
    BY <1>6, <2>1, <2>4, <2>5
<1>. QED
  BY <1>1, <1>2, <1>3, <1>4, <1>5, <1>7, <1>8 DEF Next, Done

(* A stack in descending rank has at most sz + 1 frames: its frames but    *)
(* the top one hold different types that the list defines.                 *)
LEMMA DescentFits ==
  ASSUME TypeOK, WalkInv, DescentInv
  PROVE  StackFits
<1>1. sz \in Nat /\ Len(stck) \in Nat
  BY SizeFacts DEF TypeOK
<1>. DEFINE n == Len(stck) - 1
<1>2. CASE Len(stck) = 0
  BY <1>1, <1>2 DEF StackFits
<1>3. CASE Len(stck) >= 1
  <2>1. n \in Nat
    BY <1>1, <1>3
  <2>2. \A i \in 1..Len(stck) : stck[i].id \in Types
    BY FrameIds
  <2>3. \A i \in 1..n : stck[i].id \in Types /\ cl_type[stck[i].id] \in 1..sz
    <3>. SUFFICES ASSUME NEW i \in 1..n
                  PROVE  stck[i].id \in Types /\ cl_type[stck[i].id] \in 1..sz
      OBVIOUS
    <3>1. i \in 1..Len(stck) /\ Len(stck) \in 1..Len(stck) /\ i \in 1..Len(stck) - 1
      BY <1>1, <1>3
    <3>2. cl_type[stck[i].id] # 0
      BY <3>1 DEF DescentInv
    <3>. QED
      BY <1>1, <2>2, <3>1, <3>2 DEF TypeOK
  <2>4. \A i, j \in 1..n : i # j => stck[i].id # stck[j].id
    <3>1. ASSUME NEW j \in 1..n, NEW i \in 1..j - 1, stck[i].id = stck[j].id
          PROVE  FALSE
      <4>1. j \in 1..Len(stck)
        BY <1>1
      <4>2. RankOf(classes)[stck[j].id] < RankOf(classes)[stck[i].id]
        BY <4>1 DEF DescentInv
      <4>3. RankOf(classes)[stck[j].id] \in Nat
        BY <2>2, <4>1, RankFacts DEF TypeOK
      <4>. QED
        BY <3>1, <4>2, <4>3
    <3>. QED
      BY <2>1, <3>1
  <2>5. \A i \in 1..n : classes[cl_type[stck[i].id]].name = stck[i].id
    <3>1. pc # "fill"
      BY <1>3 DEF WalkInv, FillInv
    <3>. QED
      BY <2>3, <3>1 DEF WalkInv, MarkInv, IsLast
  <2>. DEFINE h == [i \in 1..n |-> cl_type[stck[i].id]]
  <2>6. h \in [1..n -> 1..sz]
    BY <2>3
  <2>7. \A i, j \in 1..n : i # j => h[i] # h[j]
    BY <2>4, <2>5
  <2>. HIDE DEF h
  <2>8. IsFiniteSet(1..n) /\ Cardinality(1..n) = n
        /\ IsFiniteSet(1..sz) /\ Cardinality(1..sz) = sz
    <3>1. /\ IsFiniteSet(1..n) /\ Cardinality(1..n) = IF 1 > n THEN 0 ELSE n - 1 + 1
          /\ IsFiniteSet(1..sz) /\ Cardinality(1..sz) = IF 1 > sz THEN 0 ELSE sz - 1 + 1
      <4>. HIDE DEF n
      <4>. QED
        BY <1>1, <2>1, FS_Interval
    <3>. HIDE DEF n
    <3>. QED
      BY <1>1, <2>1, <3>1
  <2>9. ~ (sz < n)
    BY <2>6, <2>7, <2>8, FS_PigeonHole, ZenonT(30)
  <2>. QED
    BY <1>1, <2>9 DEF StackFits
<1>. QED
  BY <1>1, <1>2, <1>3

(* The sz + 1 frames that write_classes allocates are enough for every     *)
(* acyclic hierarchy: spos never leaves the array.                         *)
THEOREM StackFitsTheorem == Spec => []StackFits
<1>1. Init => DescentInv
  <2>1. Init => Len(stck) = 0
    BY DEF Init
  <2>. QED
    BY <2>1 DEF DescentInv
<1>2. TypeOK /\ WalkInv /\ DescentInv /\ [Next]_vars => DescentInv'
  BY DescentKept
<1>3. TypeOK /\ WalkInv /\ DescentInv => StackFits
  BY DescentFits
<1>. QED
  BY <1>1, <1>2, <1>3, TypeCorrect, WalkInvariant, PTL DEF Spec
=============================================================================
