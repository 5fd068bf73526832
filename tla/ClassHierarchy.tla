--------------------------- MODULE ClassHierarchy ---------------------------
(***************************************************************************)
(* The classes of a DexFile as the writer sees them: a list of records in  *)
(* the order of dex->classes, each with the type it defines, its super     *)
(* class and its interfaces.  Types stand for the indices find_type        *)
(* returns into the (sorted, duplicate free) type pool; a type that no     *)
(* class of the list defines is external (java.lang.Object, ...).          *)
(***************************************************************************)
EXTENDS Naturals, Sequences, FiniteSets

CONSTANTS
  Types,       (* indices of the type pool                                *)
  NoType,      (* a class without super class: cl->super_class == NULL    *)
  ClassLists   (* the class lists to be written                           *)

ClassRec == [name : Types, super : Types \cup {NoType}, interfaces : Seq(Types)]

ASSUME NoTypeAssumption == NoType \notin Types
ASSUME TypesFinite == IsFiniteSet(Types)

ASSUME ClassListsAssumption == ClassLists \subseteq Seq(ClassRec)

(* The types class i of cs inherits from, its super class first.           *)
Parents(cs, i) ==
  ({cs[i].super} \ {NoType}) \cup {cs[i].interfaces[j] : j \in 1..Len(cs[i].interfaces)}

(* cl_type[t] once every class was entered: the last class that defines t, *)
(* 0 (NULL) for an external type.                                          *)
Winner(cs, t) ==
  CHOOSE i \in 0..Len(cs) :
    IF \E j \in 1..Len(cs) : cs[j].name = t
      THEN i # 0 /\ cs[i].name = t /\ \A j \in i+1..Len(cs) : cs[j].name # t
      ELSE i = 0

(* The classes that are written: all of them when no type is defined twice. *)
Winners(cs) == {i \in 1..Len(cs) : Winner(cs, cs[i].name) = i}

(* The dex format forbids a class to inherit from itself, directly or not: *)
(* types can be ranked so that inheritance goes down.                      *)
Ranks(cs, rank) ==
  \A i \in 1..Len(cs) : \A t \in Parents(cs, i) : rank[t] < rank[cs[i].name]

Acyclic(cs) ==
  \E rank \in [Types -> 0..Cardinality(Types)] : Ranks(cs, rank)

(* write_classes has no check of its own, so an acyclic hierarchy is an    *)
(* assumption on the DexFile it is given.                                  *)
ASSUME AcyclicAssumption == \A cs \in ClassLists : Acyclic(cs)
=============================================================================
