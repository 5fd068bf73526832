---------------------------- MODULE MCClassOrder ----------------------------
(***************************************************************************)
(* Class lists for TLC.  The types a, b, c are defined by the file, e is   *)
(* external.  UniqueLists: three classes, in both directions of the list   *)
(* order, every acyclic hierarchy with up to two interfaces for the first  *)
(* class and one for the others.  DoubleLists: the type a defined twice.   *)
(***************************************************************************)
EXTENDS ClassOrder, TLC

CONSTANTS a, b, c, e, none

MCTypes == {a, b, c, e}

Interfaces(n, T) ==
  {s \in UNION {[1..k -> T] : k \in 0..n} :
     \A i, j \in DOMAIN s : i # j => s[i] # s[j]}

(* The classes that define t and inherit from types of lower rank.         *)
Class(t, n, rank) ==
  LET lower == {u \in MCTypes : rank[u] < rank[t]}
  IN {[name |-> t, super |-> s, interfaces |-> is] :
        s \in lower \cup {none}, is \in Interfaces(n, lower)}

MCRanks == {r \in [MCTypes -> 0..3] : \A t, u \in MCTypes : t # u => r[t] # r[u]}

UniqueLists ==
  UNION {Class(a, 2, r) \X Class(b, 1, r) \X Class(c, 1, r) : r \in MCRanks}
DoubleLists ==
  UNION {Class(a, 1, r) \X Class(b, 1, r) \X Class(a, 1, r) : r \in MCRanks}

MCClassLists == UniqueLists \cup DoubleLists
=============================================================================
