----------------------------- MODULE ConstKeys ------------------------------
(***************************************************************************)
(* The keys of constants: the strings compare_* goes through, in their     *)
(* order.  A string is a natural number, in mutf8_compare's order.         *)
(***************************************************************************)
EXTENDS Integers, Sequences

(* The order of the keys of a pool: string by string, a prefix first.      *)
Less(a, b) ==
  \E n \in 0..Len(a) :
    /\ n < Len(b)
    /\ \A i \in 1..n : a[i] = b[i]
    /\ n < Len(a) => a[n + 1] < b[n + 1]
=============================================================================
