------------------------------ MODULE MCRename ------------------------------
(***************************************************************************)
(* Renames for TLC: a class A with any feature, a class B without or with  *)
(* code that refers to a field of A, and tables without chains, with a     *)
(* chain, with a swap and with nothing to rename.  The sources are not in  *)
(* order.                                                                  *)
(***************************************************************************)
EXTENDS Rename, DexSamples

tC == 13   (* "Lc;" *)
tD == 14   (* "Ld;" *)

Pair(source, dest) == [source |-> source, dest |-> dest]
RenameTablesOf(classes, fields, methods) ==
  [p \in {"types", "fields", "methods"} |->
     CASE p = "types" -> classes [] p = "fields" -> fields [] p = "methods" -> methods]

FieldRenames ==
  <<Pair(<<tB, sG, tInt>>, <<tA, sM, tInt>>), Pair(<<tA, sF, tB>>, <<tA, sG, tB>>),
    Pair(<<tA, sF, tInt>>, <<tA, sM, tB>>)>>
FieldChain ==
  <<Pair(<<tB, sG, tInt>>, <<tA, sF, tInt>>), Pair(<<tA, sF, tB>>, <<tA, sG, tB>>),
    Pair(<<tA, sF, tInt>>, <<tA, sM, tB>>)>>
KeptChain ==
  <<Pair(<<tA, sF, tB>>, <<tA, sF, tInt>>), Pair(<<tA, sF, tInt>>, <<tA, sM, tArray>>)>>
MethodRenames ==
  <<Pair(<<tB, sM, tInt, tArray>>, <<tB, sF, tA>>), Pair(<<tA, sM, tVoid, tArray>>, <<tA, sF, tB, tA, tA>>)>>

MCRenameTables ==
  {RenameTablesOf(<< >>, << >>, << >>),
   RenameTablesOf(<<Pair(<<tB>>, <<tD>>), Pair(<<tA>>, <<tC>>)>>, FieldRenames, MethodRenames),
   RenameTablesOf(<<Pair(<<tArray>>, <<tC>>), Pair(<<tB>>, <<tArray>>), Pair(<<tA>>, <<tB>>)>>,
          FieldChain, << >>),
   RenameTablesOf(<<Pair(<<tB>>, <<tD>>), Pair(<<tA>>, <<tC>>)>>, FieldChain, MethodRenames),
   RenameTablesOf(<<Pair(<<tB>>, <<tA>>), Pair(<<tArray>>, <<tC>>), Pair(<<tA>>, <<tB>>)>>,
          KeptChain, MethodRenames)}

FieldUser ==
  [Bare(tB) EXCEPT !.virtual_methods =
     <<Method(<<tVoid>>, Code(<< >>, << >>, <<[special |-> "field", class |-> tA, name |-> sF, of |-> tB]>>),
              << >>, << >>)>>]

(* A handler that catches all has no type.                                 *)
Proper(cl) ==
  \A m \in ToSet(cl.direct_methods) : \A code \in ToSet(m.code_body) :
    \A try \in ToSet(code.tries) : try.catch_all \in {<< >>, <<None>>}

MCDexFiles ==
  {<<a, b>> : a \in {c \in Features(Bare(tA)) : Proper(c)}, b \in {Bare(tB), FieldUser}}

(* An annotation with two parameters.                                      *)
TwoParameters ==
  [type |-> tB, parameters |-> <<[name |-> sF, value |-> StringVal(sF)],
                                 [name |-> sG, value |-> TypeVal(tInt)]>>]
AnnotatedDexFiles == {<<[Bare(tA) EXCEPT !.annotations = <<TwoParameters>>]>>}
=============================================================================
