----------------------------- MODULE ConstPool ------------------------------
(***************************************************************************)
(* The constant pools of PoolClosure with the classes of DexTree: what     *)
(* pop_class collects from a class and what write_class looks up for it.   *)
(***************************************************************************)
EXTENDS DexTree, PoolClosure

Popped(cl) == ToSet(PopClass(cl))

Written(cl) == ToSet(WriteClass(cl))

Fitting(cl) == StaticValues(cl) = cl.static_values
=============================================================================
