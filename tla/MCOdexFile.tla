----------------------------- MODULE MCOdexFile -----------------------------
(***************************************************************************)
(* Odex files for TLC.  With up to four classes the table has 8 entries    *)
(* and three of the descriptors start at the last one; with five classes   *)
(* it has 16 and two start at the last one.  "Lxky;" has the hash 0.       *)
(***************************************************************************)
EXTENDS OdexFile

(* LO; LG; LW; LF; Lxky; *)
Names ==
  <<<<76, 79, 59>>, <<76, 71, 59>>, <<76, 87, 59>>, <<76, 70, 59>>,
    <<76, 120, 107, 121, 59>>>>

MCDescs == 1..5
MCHash == <<39799, 39551, 40047, 39520, 0>>
ASSUME HashesOfNames == \A d \in MCDescs : MCHash[d] = class_name_hash(Names[d])

MCDescOff == <<205, 209, 213, 217, 221>>

MCClassLists ==
  {s \in UNION {[1..n -> MCDescs] : n \in 0..5} :
     \A j, k \in DOMAIN s : s[j] = s[k] => j = k}

Sha(x) == [k \in 1..20 |-> x]
Dep(name, x) == [name |-> name, sha |-> Sha(x)]

Data(deps, format, lookup, maps) ==
  [odex_version |-> IF format = FORMAT_OLD THEN 35 ELSE 36, flags |-> 5, dex_mod_time |-> 70000, dex_crc |-> 3, vm_version |-> 2,
   deps |-> deps, aux_format |-> format, has_class_lookup |-> lookup,
   has_register_maps |-> maps]

DepLists == {<< >>, <<Dep(<<47>>, 9)>>, <<Dep(<<47, 97>>, 1), Dep(<< >>, 2)>>}
OneDep == <<Dep(<<47>>, 9)>>

(* Every list in one file, the longest ones in some; short lists with and  *)
(* without the table, in both formats, after dex files of both sizes.      *)
MCInputs ==
  {<<s, Data(OneDep, FORMAT_NEW, TRUE, FALSE), 116>> :
     s \in {s \in MCClassLists : Len(s) < 5 \/ s[1] = 3}}
  \cup
  {<<s, Data(d, f, l, FALSE), sz>> :
     s \in {s \in MCClassLists : Len(s) < 2}, d \in DepLists,
     f \in {FORMAT_NEW, FORMAT_OLD}, l \in BOOLEAN, sz \in {116, 120}}

(* The files of a writer with register maps and chunks that the reader     *)
(* does not know, in any order.                                            *)
Maps == Chunk(AUX_REGISTER_MAPS, Zeros(5))
Unknown == Chunk(7, Zeros(16))
Lookup == Chunk(AUX_CLASS_LOOKUP, Zeros(20))

WholeForeign ==
  LET m(l, r) == Data(<< >>, FORMAT_NEW, l, r)
      f(d, aux) == [meta |-> d, file |-> Pack(d, 120, write_deps(d), aux \o Uint(AUX_END))]
  IN  {f(m(FALSE, TRUE), Maps), f(m(TRUE, TRUE), Maps \o Lookup),
       f(m(TRUE, TRUE), Lookup \o Unknown \o Maps), f(m(FALSE, FALSE), Unknown),
       [f(m(TRUE, TRUE), Maps \o Lookup) EXCEPT !.file.crc = NoChecksum]}

(* Names that end before their length does: at a zero inside, or, with the *)
(* length 0, anywhere in the sha.                                          *)
CStringForeign ==
  LET m(name, sha) == Data(<<[name |-> name, sha |-> sha]>>, FORMAT_NEW, FALSE, FALSE)
      head == Uint(70000) \o Uint(3) \o Uint(2) \o Uint(1)
      f(d, entry) == [meta |-> d, file |-> Pack(d, 120, head \o entry, Uint(AUX_END))]
      endsInSha == [Sha(9) EXCEPT ![3] = 0]
  IN  {f(m(<<47>>, Sha(9)), Uint(5) \o <<47, 0, 97, 47, 0>> \o Sha(9)),
       f(m(<<9, 9>>, endsInSha), Uint(0) \o endsInSha)}

(* Files whose checksum is right and whose dependencies are not: too short *)
(* a section, a count that is too large, a length that is too large or too *)
(* small by one.                                                           *)
BadDeps ==
  LET d == Dep(<<47>>, 9)
      head(n) == Uint(1) \o Uint(2) \o Uint(3) \o Uint(n)
      entry(n) == Uint(n) \o d.name \o <<0>> \o d.sha
  IN  {Uint(1) \o Uint(2) \o Uint(3), head(1), head(2) \o entry(2),
       head(1) \o entry(3), head(1) \o entry(1)}
BrokenForeign ==
  LET d == Data(<< >>, FORMAT_NEW, FALSE, FALSE)
  IN  {[meta |-> d, file |-> [Pack(d, 120, b, Uint(AUX_END)) EXCEPT !.damage = "deps"]]
         : b \in BadDeps}

MCForeign == WholeForeign \cup CStringForeign \cup BrokenForeign

(* Every byte of the files with at most one dependency and no table; of    *)
(* the others the checksum, one byte of the dex file and the ends of the   *)
(* tail.                                                                   *)
MCPlaces(f) ==
  IF Len(f.tail) <= 52 THEN 0..f.size - 1 ELSE {39, 40, f.deps_off, f.size - 1}

(* Zero, small and large bytes; lengths and places below, at and above     *)
(* those of the files, inside them and behind their end.                   *)
MCValues == {0, 1, 15, 16, 17, 41, 42, 47, 116, 120, 156, 160, 255, 300}
=============================================================================
