----------------------------- MODULE DexSamples -----------------------------
(***************************************************************************)
(* Classes for TLC.  A feature is one element that refers to constants:    *)
(* the features of a class cover every kind of element and every kind of   *)
(* reference.                                                              *)
(***************************************************************************)
EXTENDS DexTree

(* The strings, in the order of mutf8_compare.                             *)
sEmpty == 1    (* ""    *)
tInt == 2      (* "I"   *)
sIL == 3       (* "IL"  *)
tA == 4        (* "LA;" *)
tB == 5        (* "LB;" *)
tVoid == 6     (* "V"   *)
sVI == 7       (* "VI"  *)
sVL == 8       (* "VL"  *)
tArray == 9    (* "[I"  *)
sF == 10       (* "f"   *)
sG == 11       (* "g"   *)
sM == 12       (* "m"   *)

ShortyChar(t) == IF t \in {tA, tB, tArray} THEN "L" ELSE IF t = tInt THEN "I" ELSE "V"

MCShorty(p) ==
  LET chars == [i \in DOMAIN p |-> ShortyChar(p[i])]
  IN  CASE chars = <<"I">> -> tInt
        [] chars = <<"V">> -> tVoid
        [] chars = <<"I", "L">> -> sIL
        [] chars = <<"V", "I">> -> sVI
        [] chars = <<"V", "L">> -> sVL

StringVal(s) == [type |-> "string", str |-> s]
TypeVal(t) == [type |-> "type", str |-> t]
FieldVal(kind) == [type |-> kind, class |-> tB, name |-> sG, of |-> tInt]
MethodVal == [type |-> "method", class |-> tB, name |-> sM, proto |-> <<tInt, tArray>>]
Ann(v) == [type |-> tB, parameters |-> <<[name |-> sG, value |-> v]>>]

LeafVals == {StringVal(sM), TypeVal(tArray), FieldVal("field"), FieldVal("enum"),
             MethodVal, [type |-> "scalar"]}
Vals == LeafVals
  \cup {[type |-> "array", elements |-> <<StringVal(sF), v>>] : v \in LeafVals}
  \cup {[type |-> "annotation", annotation |-> Ann(v)] : v \in {StringVal(sF), MethodVal}}

Field(type, anns) == [name |-> sF, type |-> type, annotations |-> anns]
Method(proto, code, anns, panns) ==
  [name |-> sM, prototype |-> proto, code_body |-> code, annotations |-> anns,
   parameter_annotations |-> panns]
Code(dbg, tries, insns) == <<[debug_information |-> dbg, tries |-> tries, insns |-> insns]>>

End == [opcode |-> "end_sequence"]
DebugInsns ==
  {[opcode |-> "start_local", name |-> n, type |-> t] : n \in {None, sF}, t \in {None, tArray}}
    \cup {[opcode |-> "start_local_extended", name |-> sF, type |-> tB, sig |-> s] : s \in {None, sG}}
    \cup {[opcode |-> "set_file", name |-> s] : s \in {None, sG}}
    \cup {[opcode |-> "other"]}
Debugs ==
  {[parameter_names |-> <<s>>, insns |-> <<in, End, [opcode |-> "set_file", name |-> sM]>>] :
     s \in {sEmpty, sF}, in \in DebugInsns}

Insns ==
  {[special |-> "string", str |-> sG], [special |-> "type", str |-> tArray],
   [special |-> "field", class |-> tA, name |-> sF, of |-> tB],
   [special |-> "method", class |-> tB, name |-> sG, proto |-> <<tVoid, tA>>],
   [special |-> "none"]}

Codes ==
  {Code(<<d>>, << >>, << >>) : d \in Debugs}
    \cup {Code(<< >>, << >>, <<in>>) : in \in Insns}
    \cup {Code(<< >>, <<[handlers |-> <<tB>>, catch_all |-> c]>>, << >>) :
            c \in {<< >>, <<None>>, <<tArray>>}}

Bare(name) ==
  [name |-> name, super_class |-> None, interfaces |-> << >>, source_file |-> None,
   annotations |-> << >>, static_values |-> << >>, static_fields |-> << >>,
   instance_fields |-> << >>, direct_methods |-> << >>, virtual_methods |-> << >>]

(* The classes obtained from c by one feature.                             *)
Linked(c) ==
  {[c EXCEPT !.super_class = tB], [c EXCEPT !.interfaces = <<tB, tA>>],
   [c EXCEPT !.source_file = sM]}
Annotated(c) ==
  {[c EXCEPT !.annotations = <<Ann(v)>>] : v \in Vals}
    \cup {[c EXCEPT !.instance_fields = <<Field(tInt, <<Ann(v)>>)>>] : v \in LeafVals}
    \cup {[c EXCEPT !.virtual_methods = <<Method(<<tInt>>, << >>, <<Ann(v)>>, << >>)>>] : v \in LeafVals}
    \cup {[c EXCEPT !.direct_methods = <<Method(<<tVoid, tInt>>, << >>, << >>, <<<<Ann(v)>>, << >>>>)>>] :
            v \in LeafVals}
Valued(c) ==
  {[c EXCEPT !.static_fields = <<Field(tInt, << >>), Field(tArray, << >>)>>, !.static_values = <<v>>] : v \in Vals}
    \cup {[c EXCEPT !.static_values = <<v>>] : v \in LeafVals}
    \cup {[c EXCEPT !.static_fields = <<Field(tB, << >>)>>, !.static_values = <<v, StringVal(sM)>>] : v \in LeafVals}
Coded(c) == {[c EXCEPT !.direct_methods = <<Method(<<tVoid, tArray>>, code, << >>, << >>)>>] : code \in Codes}

Features(c) == Linked(c) \cup Annotated(c) \cup Valued(c) \cup Coded(c)
=============================================================================
