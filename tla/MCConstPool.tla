---------------------------- MODULE MCConstPool -----------------------------
(***************************************************************************)
(* Dex files for TLC: two classes A and B with one feature each.  A has    *)
(* any feature; B has links, annotations and code, so that the classes     *)
(* share constants and refer to each other.                                *)
(***************************************************************************)
EXTENDS ConstPool, DexSamples

FewFeatures(c) ==
  Linked(c)
    \cup {[c EXCEPT !.static_fields = <<Field(tArray, <<Ann(v)>>)>>] : v \in LeafVals}
    \cup {[c EXCEPT !.virtual_methods = <<Method(<<tVoid>>, Code(<< >>, << >>, <<in>>), << >>, << >>)>>] :
            in \in Insns}

MCDexFiles ==
  {<<a, b>> : a \in Features(Bare(tA)), b \in FewFeatures(Bare(tB))}
=============================================================================
