------------------------------ MODULE MCLayout ------------------------------
(***************************************************************************)
(* Lists of data items for TLC.  A payload stands for the bytes of an item *)
(* but for its references; 1 and 3 have the same size and the same         *)
(* checksum, 2 has another one.  As the writer creates them, an item comes *)
(* after the items it refers to and is referred to once.                   *)
(***************************************************************************)
EXTENDS Layout

MCCrc(bytes) == bytes.payload % 2

(* The bytes of an item without its references.                            *)
OwnSize ==
  [t \in Types |->
     CASE t = "string_id" -> 0 [] t = "proto_id" -> 8
       [] t = "annotations_directory" -> 16 [] t = "type_list" -> 6 [] t = "code" -> 18
       [] t \in {"annotation_set", "annotation_set_ref_list", "encoded_array"} -> 4
       [] OTHER -> 5]

Item(type, payload, refs) ==
  [type |-> type, payload |-> payload, refs |-> refs,
   size |-> IF type = "class_def" THEN 32
            ELSE OwnSize[type] + (IF payload = 2 THEN 2 ELSE 0) + 4 * Len(refs)]
Ref(i) == [index |-> i, uleb |-> FALSE]
UlebRef(i) == [index |-> i, uleb |-> TRUE]

(* A class with annotations for two parameters and for the class.          *)
AnnotationLists ==
  {<<Item("annotation", 1, << >>), Item("annotation", p, << >>), Item("annotation_set", 1, s),
     Item("annotation", q, << >>), Item("annotation_set", 1, <<Ref(4)>>),
     Item("annotation_set_ref_list", 1, <<Ref(3), Ref(5)>>),
     Item("annotation", r, << >>), Item("annotation", p, << >>), Item("annotation_set", 1, t),
     Item("annotations_directory", 1, <<Ref(9), Ref(6)>>),
     Item("class_data", 1, << >>), Item("encoded_array", 1, << >>),
     Item("class_def", 1, <<Ref(10), Ref(11), Ref(12)>>)>> :
     p \in 1..2, q \in 1..3, r \in 1..3,
     s \in {<<Ref(1), Ref(2)>>, <<Ref(2), Ref(1)>>}, t \in {<<Ref(7), Ref(8)>>, <<Ref(8), Ref(7)>>}}

(* A class with an interface and two methods with code and debug info.     *)
CodeLists ==
  {<<Item("string_data", 1, << >>), Item("string_id", 1, <<Ref(1)>>),
     Item("type_list", a, << >>), Item("proto_id", 1, <<Ref(3)>>),
     Item("type_list", 1, << >>), Item("annotations_directory", 1, << >>),
     Item("debug_info", 1, << >>), Item("code", 1, <<Ref(7)>>),
     Item("debug_info", b, << >>), Item("code", c, <<Ref(9)>>),
     Item("class_data", d, <<UlebRef(8), UlebRef(10)>>), Item("encoded_array", 1, << >>),
     Item("class_def", 1, <<Ref(5), Ref(6), Ref(11), Ref(12)>>)>> :
     a \in 1..3, b \in 1..3, c \in {1, 3}, d \in 1..2}

MCDataLists == {<< >>} \cup AnnotationLists \cup CodeLists
=============================================================================
