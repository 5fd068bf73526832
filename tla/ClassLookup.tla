----------------------------- MODULE ClassLookup -----------------------------
(***************************************************************************)
(* The class lookup of an odex file, built by write_aux (src/src/          *)
(* opt_write.h): an open addressing table of 2^k entries, at most half     *)
(* full.  The virtual machine starts at the entry that the hash of a       *)
(* descriptor selects and walks until it meets the descriptor or an entry  *)
(* that is free.  One action per iteration of a loop.                      *)
(*                                                                         *)
(* classes is the list of descriptors of the class_def items.  A mask with *)
(* entries - 1 is % entries, entries being a power of two.                 *)
(***************************************************************************)
EXTENDS Integers, Sequences, FiniteSets

CONSTANTS
  Descs,        (* class descriptors                                        *)
  Hash,         (* Descs -> class_name_hash of the descriptor               *)
  DescOff,      (* Descs -> offset of its bytes in the dex file             *)
  class_off,    (* offset of the first class_def item                       *)
  ClassLists    (* the lists of class descriptors that a file can have      *)

(* class_def items follow a header of 0x70 bytes; a string is stored once; *)
(* write_classes writes one class for a type (ClassOrder!WrittenOnce and   *)
(* AllWritten).                                                            *)
ASSUME HashAssumption == Hash \in [Descs -> Nat]
ASSUME OffsetAssumption ==
  /\ class_off \in Nat \ {0}
  /\ DescOff \in [Descs -> Nat]
  /\ \A d, e \in Descs : DescOff[d] = DescOff[e] => d = e
ASSUME ListAssumption ==
  \A s \in ClassLists :
    /\ s \in Seq(Descs)
    /\ \A j, k \in 1..Len(s) : s[j] = s[k] => j = k

VARIABLES
  classes,   (* the descriptors of the class_def items                     *)
  pc,        (* "size", "next", "probe" or "done"                          *)
  entries,   (* the number of entries of the table                         *)
  i,         (* the class to insert, from 0                                *)
  pos,       (* the entry examined                                         *)
  tab        (* 0..entries - 1 -> entry                                    *)

vars == <<classes, pc, entries, i, pos, tab>>

class_sz == Len(classes)
Free == [hash |-> 0, desc_off |-> 0, def_off |-> 0]

(* The words that an insertion stores for class c. *)
Entry(c) == [hash |-> Hash[classes[c + 1]], desc_off |-> DescOff[classes[c + 1]],
             def_off |-> class_off + 32 * c]

(* Mutant: the entry is tested by its hash, which may be 0.                *)
UsedMut(p) == tab[p].hash # 0
Used(p) == tab[p].def_off # 0

Home(d) == Hash[d] % entries

Init ==
  /\ classes \in ClassLists
  /\ pc = "size"
  /\ entries = 1
  /\ i = 0
  /\ pos = 0
  /\ tab = << >>

(* Mutant: the table may be full.                                          *)
TooSmallMut == class_sz > entries

TooSmall == 2 * class_sz > entries

(* while(2 * class_sz > entries) entries = entries << 1 *)
Double ==
  /\ pc = "size" /\ TooSmall
  /\ entries' = 2 * entries
  /\ UNCHANGED <<classes, pc, i, pos, tab>>

(* calloc(entries * 3, sizeof(dx_uint)) *)
Alloc ==
  /\ pc = "size" /\ ~TooSmall
  /\ tab' = [p \in 0..entries - 1 |-> Free]
  /\ pc' = "next"
  /\ UNCHANGED <<classes, entries, i, pos>>

NextClass ==
  /\ pc = "next" /\ i < class_sz
  /\ pos' = Home(classes[i + 1])
  /\ pc' = "probe"
  /\ UNCHANGED <<classes, entries, i, tab>>

(* Mutant: the walk does not go round at the end of the table.             *)
AdvanceStuckMut == IF pos = entries - 1 THEN pos ELSE pos + 1

Advance == (pos + 1) % entries

Collide ==
  /\ pc = "probe" /\ Used(pos)
  /\ pos' = Advance
  /\ UNCHANGED <<classes, pc, entries, i, tab>>

Store ==
  /\ pc = "probe" /\ ~Used(pos)
  /\ tab' = [tab EXCEPT ![pos] = Entry(i)]
  /\ i' = i + 1
  /\ pc' = "next"
  /\ UNCHANGED <<classes, entries, pos>>

Finish ==
  /\ pc = "next" /\ i = class_sz
  /\ pc' = "done"
  /\ UNCHANGED <<classes, entries, i, pos, tab>>

Next == Double \/ Alloc \/ NextClass \/ Collide \/ Store \/ Finish

Spec == Init /\ [][Next]_vars /\ WF_vars(Next)
-----------------------------------------------------------------------------
Slots == 0..entries - 1

TypeOK ==
  /\ classes \in ClassLists
  /\ pc \in {"size", "next", "probe", "done"}
  /\ entries \in Nat \ {0}
  /\ i \in 0..class_sz
  /\ pc = "probe" => i < class_sz
  /\ pos \in Nat
  /\ pc # "size" => /\ 2 * class_sz <= entries
                    /\ tab \in [Slots -> [hash : Nat, desc_off : Nat, def_off : Nat]]
  /\ pc = "probe" => pos \in Slots

(* The steps from entry h to entry p, going round at the end of the table. *)
Dist(h, p) == IF p >= h THEN p - h ELSE p - h + entries

(* q comes before p on the walk of a lookup for d.                         *)
Before(d, q, p) == Dist(Home(d), q) < Dist(Home(d), p)

(* A lookup finds every class inserted so far: the walk from the home of   *)
(* its descriptor meets its entry, and before it neither a free entry,     *)
(* where the walk would give up, nor an entry with its descriptor.  The    *)
(* walk for a descriptor that is not there ends: some entry is free.       *)
Findable ==
  pc # "size" =>
    /\ \A c \in 0..i - 1 : \E p \in Slots :
         /\ tab[p] = Entry(c)
         /\ \A q \in Slots : Before(classes[c + 1], q, p) =>
              Used(q) /\ tab[q].desc_off # DescOff[classes[c + 1]]
    /\ \E p \in Slots : ~Used(p)

(* What the lookup of d finds: the number of the class, 0 for none.        *)
Found(d) ==
  LET at(k) == (Home(d) + k) % entries
      stops == {k \in Slots : ~Used(at(k)) \/ tab[at(k)].desc_off = DescOff[d]}
      last == CHOOSE k \in stops : \A j \in stops : k <= j
  IN  IF pc = "size" \/ stops = {} THEN 0
      ELSE IF Used(at(last)) THEN ((tab[at(last)].def_off - class_off) \div 32) + 1
      ELSE 0

(***************************************************************************)
(* The inductive invariant behind Findable (ClassLookup_proofs).           *)
(***************************************************************************)

(* Every entry in use was stored for a class before i, one for each.       *)
EntriesInv ==
  pc # "size" =>
    /\ \A p \in Slots : Used(p) => \E c \in 0..i - 1 : tab[p] = Entry(c)
    /\ Cardinality({p \in Slots : Used(p)}) = i

(* The walk of a lookup meets earlier classes only before it gets there.   *)
WalkInv ==
  pc # "size" =>
    \A c \in 0..i - 1 : \E p \in Slots :
      /\ tab[p] = Entry(c)
      /\ \A q \in Slots : Before(classes[c + 1], q, p) =>
           \E b \in 0..c - 1 : tab[q] = Entry(b)

(* The insertion has passed entries in use only.                           *)
ProbeInv ==
  pc = "probe" =>
    \A q \in Slots : Before(classes[i + 1], q, pos) => Used(q)

IndInv == TypeOK /\ EntriesInv /\ WalkInv /\ ProbeInv
=============================================================================
