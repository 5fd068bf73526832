---------------------------- MODULE RenameSearch ----------------------------
(***************************************************************************)
(* The renames of dxc_rename_identifiers (src/src/util.c), without the     *)
(* walk that finds the references.  The tables are sorted by exchange,     *)
(* source and destination together; then every reference is searched:      *)
(* fields and methods first as a whole, then the classes that the result   *)
(* names.  One action per iteration of a loop.  A search goes on after a   *)
(* match, with the new name in the window that is left.                    *)
(***************************************************************************)
EXTENDS ConstKeys, SequencesExt

CONSTANT RenameTables   (* table -> the pairs of a source and a destination *)

Tables == {"fields", "methods", "types"}

(* What a table compares: a class, name and type; a class, name and        *)
(* prototype; a descriptor.                                                *)
Keys(p) ==
  {k \in Seq(Nat) : CASE p = "types" -> Len(k) = 1
                      [] p = "fields" -> Len(k) = 3
                      [] p = "methods" -> Len(k) >= 3}

Pairs(p) == [source : Keys(p), dest : Keys(p)]

(* A caller names each source once, and renames nothing to itself.         *)
ASSUME RenameTablesAssumption ==
  \A tabs \in RenameTables :
    /\ DOMAIN tabs = Tables
    /\ \A p \in Tables :
         /\ tabs[p] \in Seq(Pairs(p))
         /\ \A m, n \in 1..Len(tabs[p]) :
              /\ tabs[p][m].source # tabs[p][m].dest
              /\ tabs[p][m].source = tabs[p][n].source => m = n

VARIABLES
  given,       (* the arrays of the caller                                 *)
  sites,       (* the references of the file, in the order of the walk     *)
  tables,      (* the copies of the arrays in the RenameContext            *)
  pc,          (* the table to sort, "visit", "search" or "done"           *)
  i, j,        (* the entries that the sort compares, from 1               *)
  site,        (* the reference being renamed, an index into sites         *)
  key,         (* its present value                                        *)
  part,        (* the position of the class searched, 0 for the whole key  *)
  lo, hi,      (* the window of the binary search                          *)
  out          (* the references renamed so far                            *)

vars == <<given, sites, tables, pc, i, j, site, key, part, lo, hi, out>>

(* A reference; own marks the members a class defines, whose defining      *)
(* class is the class itself.                                              *)
Sites == {s \in [pool : Tables, key : Seq(Nat), own : BOOLEAN] : s.key \in Keys(s.pool)}

(* Mutant: rename_field does not rename the class of the field's type.     *)
ClassPartsMut(s, k) ==
  CASE s.pool = "types" -> {1}
    [] s.pool = "fields" -> IF s.own THEN {} ELSE {1, 3}
    [] s.pool = "methods" -> (IF s.own THEN {} ELSE {1}) \cup 3..Len(k)

(* The positions of the classes in a key that are renamed on their own:    *)
(* the defining class of an own member is renamed once, as cl->name.       *)
ClassParts(s, k) ==
  CASE s.pool = "types" -> {1}
    [] s.pool = "fields" -> IF s.own THEN {3} ELSE {1, 3}
    [] s.pool = "methods" -> (IF s.own THEN {} ELSE {1}) \cup 3..Len(k)

InitTables ==
  /\ given \in RenameTables
  /\ tables = given
  /\ pc = "fields"
  /\ i = 1 /\ j = 2
  /\ site = 1
  /\ key = << >> /\ part = 0
  /\ lo = 0 /\ hi = 0
  /\ out = << >>

Init == sites \in Seq(Sites) /\ InitTables
-----------------------------------------------------------------------------
(* The exchange sorts.                                                     *)
After == [fields |-> "methods", methods |-> "types", types |-> "visit"]

(* Mutant: the destinations stay where they are.                           *)
SwapMut(t, a, b) == [t EXCEPT ![a].source = t[b].source, ![b].source = t[a].source]

Swap(t, a, b) == [t EXCEPT ![a] = t[b], ![b] = t[a]]

Compare ==
  /\ pc \in Tables /\ j <= Len(tables[pc])
  /\ tables' = IF Less(tables[pc][j].source, tables[pc][i].source)
                 THEN [tables EXCEPT ![pc] = Swap(@, i, j)] ELSE tables
  /\ j' = j + 1
  /\ UNCHANGED <<given, sites, pc, i, site, key, part, lo, hi, out>>

(* Mutant: the inner loop begins one entry too late.                       *)
NextEntryMut ==
  /\ pc \in Tables /\ j > Len(tables[pc]) /\ i <= Len(tables[pc])
  /\ i' = i + 1
  /\ j' = i + 3
  /\ UNCHANGED <<given, sites, tables, pc, site, key, part, lo, hi, out>>

NextEntry ==
  /\ pc \in Tables /\ j > Len(tables[pc]) /\ i <= Len(tables[pc])
  /\ i' = i + 1
  /\ j' = i + 2
  /\ UNCHANGED <<given, sites, tables, pc, site, key, part, lo, hi, out>>

EndSort ==
  /\ pc \in Tables /\ i > Len(tables[pc])
  /\ pc' = After[pc]
  /\ i' = 1 /\ j' = 2
  /\ UNCHANGED <<given, sites, tables, site, key, part, lo, hi, out>>
-----------------------------------------------------------------------------
(* The searches.                                                           *)
Searched(p, s) == IF p = 0 THEN tables[s.pool] ELSE tables["types"]

StartSite ==
  /\ pc = "visit" /\ site <= Len(sites)
  /\ key' = sites[site].key
  /\ part' = IF sites[site].pool = "types" THEN 1 ELSE 0
  /\ lo' = 0 /\ hi' = Len(Searched(part', sites[site]))
  /\ pc' = "search"
  /\ UNCHANGED <<given, sites, tables, i, j, site, out>>

Finish ==
  /\ pc = "visit" /\ site > Len(sites)
  /\ pc' = "done"
  /\ UNCHANGED <<given, sites, tables, i, j, site, key, part, lo, hi, out>>

md == lo + (hi - lo) \div 2
Val == IF part = 0 THEN key ELSE <<key[part]>>
Probe == Searched(part, sites[site])[md + 1]

(* No return: the window stays, and the new value is searched in it.       *)
Match ==
  /\ pc = "search" /\ lo < hi
  /\ Val = Probe.source
  /\ key' = IF part = 0 THEN Probe.dest ELSE [key EXCEPT ![part] = Probe.dest[1]]
  /\ UNCHANGED <<given, sites, tables, pc, i, j, site, part, lo, hi, out>>

GoLeft ==
  /\ pc = "search" /\ lo < hi
  /\ Less(Val, Probe.source)
  /\ hi' = md
  /\ UNCHANGED <<given, sites, tables, pc, i, j, site, key, part, lo, out>>

(* Mutant: lo = md.                                                        *)
GoRightMut ==
  /\ pc = "search" /\ lo < hi
  /\ Less(Probe.source, Val)
  /\ lo' = md
  /\ UNCHANGED <<given, sites, tables, pc, i, j, site, key, part, hi, out>>

GoRight ==
  /\ pc = "search" /\ lo < hi
  /\ Less(Probe.source, Val)
  /\ lo' = md + 1
  /\ UNCHANGED <<given, sites, tables, pc, i, j, site, key, part, hi, out>>

(* A class that is renamed keeps its own members.                          *)
Settled ==
  IF part = 0 /\ sites[site].own THEN [key EXCEPT ![1] = sites[site].key[1]] ELSE key

(* From the first to the last; rename_strstr goes through a prototype from *)
(* its end, which makes no difference, as a class is renamed on its own.   *)
NextPart ==
  LET parts == {p \in ClassParts(sites[site], key) : p > part}
  IN  /\ pc = "search" /\ lo >= hi
      /\ parts # {}
      /\ key' = Settled
      /\ part' = Min(parts)
      /\ lo' = 0 /\ hi' = Len(tables["types"])
      /\ UNCHANGED <<given, sites, tables, pc, i, j, site, out>>

EndSite ==
  /\ pc = "search" /\ lo >= hi
  /\ {p \in ClassParts(sites[site], key) : p > part} = {}
  /\ out' = Append(out, Settled)
  /\ site' = site + 1
  /\ pc' = "visit"
  /\ UNCHANGED <<given, sites, tables, i, j, key, part, lo, hi>>

Done == pc = "done" /\ UNCHANGED vars

Next ==
  \/ Compare \/ NextEntry \/ EndSort
  \/ StartSite \/ Finish
  \/ Match \/ GoLeft \/ GoRight \/ NextPart \/ EndSite
  \/ Done

Spec == Init /\ [][Next]_vars
-----------------------------------------------------------------------------
Sorted(t) == \A m, n \in 1..Len(t) : m < n => Less(t[m].source, t[n].source)

TypeOK ==
  /\ given \in RenameTables
  /\ sites \in Seq(Sites)
  /\ pc \in Tables \cup {"visit", "search", "done"}
  /\ DOMAIN tables = Tables
  /\ \A p \in Tables : tables[p] \in Seq(Pairs(p)) /\ Len(tables[p]) = Len(given[p])
  /\ pc \in {"visit", "search", "done"} => \A p \in Tables : Sorted(tables[p])
  /\ i \in Nat \ {0} /\ j \in Nat /\ j > i
  /\ pc \in Tables => i <= Len(tables[pc]) + 1 /\ j <= Len(tables[pc]) + 2
  /\ site \in 1..Len(sites) + 1
  /\ pc = "search" =>
       /\ site <= Len(sites)
       /\ key \in Keys(sites[site].pool)
       /\ part \in 0..Len(key)
       /\ part = 0 => sites[site].pool # "types"
       /\ lo \in Nat /\ hi \in Nat /\ lo <= hi /\ hi <= Len(Searched(part, sites[site]))
  /\ out \in Seq(Seq(Nat)) /\ Len(out) = site - 1

(* What util.h promises for a reference: the replacement of the field or   *)
(* method, then the replacement of each class in it.                       *)
Apply(p, k) ==
  LET hits == {m \in 1..Len(given[p]) : given[p][m].source = k}
  IN  IF hits = {} THEN k ELSE given[p][CHOOSE m \in hits : TRUE].dest

Documented(s) ==
  LET whole == IF s.pool = "types" THEN s.key ELSE Apply(s.pool, s.key)
      member == IF s.own THEN [whole EXCEPT ![1] = s.key[1]] ELSE whole
  IN  [n \in 1..Len(member) |->
         IF n \in ClassParts(s, member) THEN Apply("types", <<member[n]>>)[1] ELSE member[n]]

(* "Class references to the type source_classes[i] will be replaced with   *)
(* references to the type dest_classes[i]" (util.h), and likewise fields   *)
(* and methods.                                                            *)
RenamedAsDocumented ==
  \A n \in 1..Len(out) : out[n] = Documented(sites[n])

(* The promise is kept when no destination is itself a source.             *)
ChainFree ==
  \A p \in Tables : \A m, n \in 1..Len(given[p]) : given[p][m].dest # given[p][n].source

RenamedWithoutChains == ChainFree => RenamedAsDocumented

(* No member moves to another class, which dxc_rename_identifiers reports  *)
(* for the members that a class defines.                                   *)
ClassesKept ==
  \A p \in {"fields", "methods"} : \A n \in 1..Len(given[p]) :
    given[p][n].dest[1] = given[p][n].source[1]

(* A reference to a member still names the member that a class defines,    *)
(* although both are renamed apart, the class after its members; even when *)
(* the tables contain chains.                                              *)
LinksKept ==
  ClassesKept =>
    \A m, n, c \in 1..Len(out) :
      /\ sites[m].own /\ ~sites[n].own
      /\ sites[m].pool = sites[n].pool /\ sites[m].key = sites[n].key
      /\ sites[c].pool = "types" /\ sites[c].key = <<sites[m].key[1]>>
      => out[n] = [out[m] EXCEPT ![1] = out[c][1]]

(***************************************************************************)
(* The inductive invariant behind RenamedWithoutChains                     *)
(* (RenameSearch_proofs).                                                  *)
(***************************************************************************)

(* A copy holds the pairs of its array, each source once.                  *)
SamePairs(t, g) ==
  /\ \A n \in 1..Len(g) : \E m \in 1..Len(t) : t[m] = g[n]
  /\ \A m \in 1..Len(t) : \E n \in 1..Len(g) : t[m] = g[n]
  /\ \A m, n \in 1..Len(t) : t[m].source = t[n].source => m = n

CopyInv == \A p \in Tables : SamePairs(tables[p], given[p])

(* The entries before i are in place, entry i is the least of i..j - 1.    *)
SortInv ==
  /\ pc # "fields" => Sorted(tables["fields"])
  /\ ~(pc \in {"fields", "methods"}) => Sorted(tables["methods"])
  /\ pc \in Tables =>
       LET t == tables[pc]
       IN  \A m, n \in 1..Len(t) :
             m < n /\ (m < i \/ (m = i /\ n < j)) => Less(t[m].source, t[n].source)

(* What is searched is in the window, if it is in the table.               *)
WindowInv ==
  pc = "search" =>
    LET t == Searched(part, sites[site])
    IN  \A n \in 1..Len(t) : t[n].source = Val => lo < n /\ n <= hi

Whole(s) == IF s.pool = "types" THEN s.key ELSE Apply(s.pool, s.key)
Member(s) == IF s.own THEN [Whole(s) EXCEPT ![1] = s.key[1]] ELSE Whole(s)

(* The search will end with the replacement of the key, or of the class at *)
(* part; the classes before it are replaced, those behind it are not.      *)
StageInv ==
  pc = "search" =>
    LET s == sites[site]
    IN  IF part = 0 THEN Apply(s.pool, key) = Whole(s)
        ELSE /\ part \in ClassParts(s, Member(s))
             /\ Len(key) = Len(Member(s))
             /\ Apply("types", <<key[part]>>) = Apply("types", <<Member(s)[part]>>)
             /\ \A n \in 1..Len(key) :
                  /\ n < part => key[n] = Documented(s)[n]
                  /\ n > part => key[n] = Member(s)[n]

ResultInv == ChainFree => WindowInv /\ StageInv /\ RenamedAsDocumented

IndInv == TypeOK /\ CopyInv /\ SortInv /\ ResultInv
=============================================================================
