---------------------------- MODULE RegisterList ----------------------------
(***************************************************************************)
(* What the register functions of src/dxcut/dalvik.h promise: an           *)
(* instruction has a list of registers and at most one special value; to   *)
(* set one register changes that one, and to resize the list keeps those   *)
(* that stay.  The registers of a range are consecutive and move together. *)
(***************************************************************************)
EXTENDS Integers, FiniteSets

CONSTANTS
  Indexes,   (* the indexes that clients use                               *)
  Regs,      (* the register numbers that clients use                      *)
  Counts     (* the lengths that clients ask for                           *)

VARIABLES
  shape,     (* of the format: is it a range, the lengths it allows        *)
  limits,    (* of each register: the first number that is too large       *)
  regs,      (* 0..count - 1 -> register                                   *)
  special,   (* the constant, target or constant pool entry                *)
  ret        (* what the last call returned                                *)

vars == <<shape, limits, regs, special, ret>>

Refuse == ret' = -1 /\ UNCHANGED <<shape, limits, regs, special>>

Settable(k, r) ==
  /\ k \in DOMAIN regs
  /\ r < limits[k]
  /\ shape.range => k = 0

(* "Sets the index'th register used by this instruction.  Returns the      *)
(* value of the previous register at this index."                          *)
Set(k, r) ==
  IF Settable(k, r)
    THEN /\ ret' = regs[k]
         /\ regs' = IF shape.range THEN [j \in DOMAIN regs |-> r + j]
                    ELSE [regs EXCEPT ![k] = r]
         /\ UNCHANGED <<shape, limits, special>>
    ELSE Refuse

(* The registers that are new may be any.                                  *)
Resize(n) ==
  IF n \in shape.lengths
    THEN /\ DOMAIN regs' = 0..n - 1
         /\ \A j \in DOMAIN regs' \cap DOMAIN regs : regs'[j] = regs[j]
         /\ ret' = Cardinality(DOMAIN regs)
         /\ UNCHANGED <<shape, special>>
    ELSE Refuse

Assign == UNCHANGED <<shape, limits, regs, ret>>

Init == TRUE

Next ==
  \/ \E k \in Indexes, r \in Regs : Set(k, r)
  \/ \E n \in Counts : Resize(n)
  \/ Assign

Spec == Init /\ [][Next]_vars
=============================================================================
