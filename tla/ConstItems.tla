----------------------------- MODULE ConstItems -----------------------------
(***************************************************************************)
(* The constants of a file and what they are made of (src/src/write.c).  A *)
(* constant is the name of its pool and its key: the strings compare_*     *)
(* goes through, in their order.                                           *)
(***************************************************************************)
EXTENDS ConstKeys

CONSTANT
  Shorty(_)    (* getShorty: prototype -> its shorty descriptor            *)

Pools == {"strs", "types", "protos", "fields", "methods"}

Str(s) == [pool |-> "strs", key |-> <<s>>]
Type(t) == [pool |-> "types", key |-> <<t>>]
Proto(p) == [pool |-> "protos", key |-> p]
FieldRef(class, name, type) == [pool |-> "fields", key |-> <<class, name, type>>]
MethodRef(class, name, proto) == [pool |-> "methods", key |-> <<class, name>> \o proto]
-----------------------------------------------------------------------------
(* write_constant_pool: the lookups of the id item of a constant, in the   *)
(* order in which the item stores their indices.                           *)
IdItem(pool, key) ==
  CASE pool = "strs" -> << >>
    [] pool = "types" -> <<Str(key[1])>>
    [] pool = "protos" -> <<Str(Shorty(key)), Type(key[1])>>
                            \o [i \in 1..Len(key) - 1 |-> Type(key[i + 1])]
    [] pool = "fields" -> <<Type(key[1]), Type(key[3]), Str(key[2])>>
    [] pool = "methods" -> <<Type(key[1]), Proto(SubSeq(key, 3, Len(key))), Str(key[2])>>

(* The keys a pool can hold: a prototype has a return type and a shorty    *)
(* descriptor, a method a prototype.                                       *)
Prototypes == {k \in Seq(Nat) : Len(k) >= 1 /\ Shorty(k) \in Nat}

KeysOf(pool) ==
  CASE pool \in {"strs", "types"} -> {k \in Seq(Nat) : Len(k) = 1}
    [] pool = "protos" -> Prototypes
    [] pool = "fields" -> {k \in Seq(Nat) : Len(k) = 3}
    [] pool = "methods" ->
         {k \in Seq(Nat) : Len(k) >= 3 /\ SubSeq(k, 3, Len(k)) \in Prototypes}

IsConstant(c) ==
  /\ c.pool \in Pools
  /\ c.key \in KeysOf(c.pool)
  /\ c = [pool |-> c.pool, key |-> c.key]
=============================================================================
