------------------------------ MODULE OdexFile ------------------------------
(***************************************************************************)
(* The part of an odex file around its dex file: written by the end of     *)
(* dxc_write_file (src/src/write.c) with write_deps and write_aux          *)
(* (src/src/opt_write.h), read by the beginning of dxc_read_buffer         *)
(* (src/src/file.c) with dxc_read_deps_table and dxc_read_aux_table        *)
(* (src/src/aux.c).  The class lookup is the table of ClassLookup.         *)
(*                                                                         *)
(*     header (40) | dex file | dependencies, padded to 8 | aux data       *)
(*                                                                         *)
(* The header is a record, the dex file a length and whether its magic,    *)
(* version and checksum are right; tail holds the bytes after it.  A       *)
(* checksum is represented by the bytes it covers.  Sums of offsets do not *)
(* wrap: files are below 16 MB, so that a sum stays below 2^32 when any    *)
(* one byte of an offset or a length in it is changed.                     *)
(***************************************************************************)
EXTENDS ClassLookup, SequencesExt

CONSTANTS
  WordBits,    (* width of the hash: 32 in the code                         *)
  Inputs,      (* <<classes, OdexData, size of the dex file>> to write      *)
  Foreign,     (* [meta, file] of odex files from other writers             *)
  Places(_),   (* of a file, the bytes that damage may meet                 *)
  Values       (* the values that a damaged byte or number may take         *)

AUX_CLASS_LOOKUP == 1129073488
AUX_REGISTER_MAPS == 1380794704
AUX_END == 1095061060
FORMAT_NEW == 0
FORMAT_OLD == 1

OdexData ==
  [odex_version : {35, 36}, flags : Nat, dex_mod_time : Nat, dex_crc : Nat, vm_version : Nat,
   deps : Seq([name : Seq(1..255), sha : [1..20 -> 0..255]]),
   aux_format : {FORMAT_NEW, FORMAT_OLD}, has_class_lookup : BOOLEAN,
   has_register_maps : BOOLEAN]

(* A dex file has a header of 112 bytes.  Register maps are an error that  *)
(* write_aux reports as not implemented.                                   *)
ASSUME InputsAssumption ==
  \A x \in Inputs :
    /\ x[2] \in OdexData /\ ~x[2].has_register_maps
    /\ x[3] \in Nat /\ x[3] >= 112

ASSUME ValuesAssumption == Values \subseteq Nat

VARIABLES
  meta,    (* the OdexData that the file holds                             *)
  dex_sz,  (* dex_file_size                                                *)
  file,    (* the file, NoFile before it is written                        *)
  rd,      (* the reader: at, pos of the next read, deps left to read      *)
  read     (* the OdexData that the reader fills                           *)

odexVars == <<meta, dex_sz, file, rd, read>>
allVars == <<vars, odexVars>>

(* ret = ret * 31 + *s++, modulo 2^WordBits *)
class_name_hash(s) == FoldLeft(LAMBDA ret, c : (ret * 31 + c) % (2^WordBits), 1, s)

(* write_uint and read_uint: little endian. *)
Uint(v) == <<v % 256, (v \div 256) % 256, (v \div 65536) % 256, v \div 16777216>>
UintIn(s, k) == s[k] + 256 * s[k + 1] + 65536 * s[k + 2] + 16777216 * s[k + 3]

Zeros(n) == [k \in 1..n |-> 0]
PadTo8(n) == (8 - (n % 8)) % 8
-----------------------------------------------------------------------------
(***************************************************************************)
(* The writer.                                                             *)
(***************************************************************************)

(* Mutant: the length is stored without the terminating zero.              *)
DepBytesMut(dep) == Uint(Len(dep.name)) \o dep.name \o <<0>> \o dep.sha

(* A dependency: its length with the terminating zero, its name, its sha. *)
DepBytes(dep) == Uint(Len(dep.name) + 1) \o dep.name \o <<0>> \o dep.sha

write_deps(m) ==
  Uint(m.dex_mod_time) \o Uint(m.dex_crc) \o Uint(m.vm_version)
    \o Uint(Len(m.deps)) \o FlattenSeq([k \in DOMAIN m.deps |-> DepBytes(m.deps[k])])

TableBytes ==
  FlattenSeq([k \in 1..entries |->
    LET e == tab[k - 1] IN Uint(e.hash) \o Uint(e.desc_off) \o Uint(e.def_off)])

(* A chunk of the new format: code, size, data, and zeros up to a multiple *)
(* of 8.                                                                   *)
Chunk(code, data) ==
  Uint(code) \o Uint(Len(data)) \o data \o Zeros(PadTo8(Len(data)))

write_aux(m) ==
  LET lookup == Uint(8 + entries * 12) \o Uint(entries) \o TableBytes
  IN  IF m.aux_format = FORMAT_OLD
        THEN Uint(0) \o (IF m.has_class_lookup THEN lookup ELSE << >>)
        ELSE (IF m.has_class_lookup THEN Chunk(AUX_CLASS_LOOKUP, lookup) ELSE << >>)
               \o Uint(AUX_END)

(* The header and the sections as dxc_write_file lays them out.  dex is    *)
(* the dex file in it.  damage is not part of the file: it tells what      *)
(* happened to it after it was written, if anything did.                   *)
Pack(m, sz, deps, aux) ==
  LET padded == deps \o Zeros(PadTo8(sz + Len(deps)))
      tail == padded \o aux
  IN  [version |-> m.odex_version, dex_off |-> 40, dex_len |-> sz,
       deps_off |-> 40 + sz, deps_len |-> Len(deps),
       aux_off |-> 40 + sz + Len(padded), aux_len |-> Len(aux),
       flags |-> m.flags, crc |-> tail,
       dex |-> [off |-> 40, len |-> sz, ok |-> TRUE],
       tail |-> tail, size |-> 40 + sz + Len(tail), damage |-> "none"]

NoFile == [size |-> 0]

(* crc == 0xFFFFFFFF, which is no checksum of any bytes: not checked.  Any *)
(* other number is not the checksum of the bytes that are there.           *)
NoChecksum == <<-1>>
WrongSum == <<-2>>

(* A magic, or digits after it, that the reader does not know.             *)
UnknownVersion == -1

Closed == [at |-> "closed", off |-> 0, left |-> 0]

(* calloc(1, sizeof(OdexData)) *)
EmptyData ==
  [odex_version |-> 0, flags |-> 0, dex_mod_time |-> 0, dex_crc |-> 0, vm_version |-> 0,
   deps |-> << >>, aux_format |-> 0, has_class_lookup |-> FALSE,
   has_register_maps |-> FALSE]

InitOdex ==
  /\ rd = Closed
  /\ read = EmptyData
  /\ \/ Init /\ file = NoFile
        /\ \E x \in Inputs : classes = x[1] /\ meta = x[2] /\ dex_sz = x[3]
     \/ /\ classes = << >> /\ pc = "done" /\ entries = 1 /\ i = 0 /\ pos = 0
        /\ tab = [p \in 0..0 |-> Free]
        /\ \E f \in Foreign : meta = f.meta /\ file = f.file /\ dex_sz = f.file.dex_len

(* The loops of write_aux, run if(dex->metadata->has_class_lookup). *)
BuildTable ==
  /\ file = NoFile /\ meta.has_class_lookup
  /\ Next
  /\ UNCHANGED odexVars

WriteOdex ==
  /\ file = NoFile
  /\ meta.has_class_lookup => pc = "done"
  /\ file' = Pack(meta, dex_sz, write_deps(meta), write_aux(meta))
  /\ UNCHANGED <<vars, meta, dex_sz, rd, read>>
-----------------------------------------------------------------------------
(***************************************************************************)
(* Damage, once in the life of a file: a writer that stops in the middle   *)
(* leaves a prefix of it, a medium changes a byte.  A file without a       *)
(* checksum is spared: nothing tells its reader, which follows the chunks  *)
(* out of the buffer.                                                      *)
(***************************************************************************)
Written == file # NoFile /\ rd = Closed /\ file.damage = "none" /\ file.crc # NoChecksum

Cut ==
  /\ Written
  /\ \E n \in Places(file) \cap 0..file.size - 1 :
       file' = [file EXCEPT !.size = n, !.damage = "cut",
                            !.tail = SubSeq(@, 1, n - file.deps_off)]
  /\ UNCHANGED <<vars, meta, dex_sz, rd, read>>

(* A byte behind the dex file. *)
CorruptTail ==
  /\ Written
  /\ \E n \in Places(file) : \E v \in Values \cap 0..255 :
       LET k == n - file.deps_off + 1
       IN  /\ k \in DOMAIN file.tail /\ v # file.tail[k]
           /\ file' = [file EXCEPT !.tail[k] = v, !.damage = "tail"]
  /\ UNCHANGED <<vars, meta, dex_sz, rd, read>>

(* A byte of the dex file: of its magic, its version, its checksum, or one *)
(* that this checksum covers.                                              *)
CorruptDex ==
  /\ Written
  /\ Places(file) \cap file.dex_off..file.deps_off - 1 # {}
  /\ file' = [file EXCEPT !.dex.ok = FALSE, !.damage = "dex"]
  /\ UNCHANGED <<vars, meta, dex_sz, rd, read>>

(* The header has the magic and the version and then eight words.  Changed *)
(* bytes of a word leave a number of Values or, in the checksum, one that  *)
(* is not checked or not right.                                            *)
CorruptHeader ==
  /\ Written
  /\ \E n \in Places(file) :
       \/ /\ n \in 0..7
          /\ \E v \in {UnknownVersion, 35, 36} \ {file.version} :
               file' = [file EXCEPT !.version = v, !.damage = "version"]
       \/ /\ n \in 36..39
          /\ \E s \in {NoChecksum, WrongSum} :
               file' = [file EXCEPT !.crc = s, !.damage = "crc"]
       \/ \E v \in Values :
          \/ /\ n \in 8..11 /\ v # file.dex_off
             /\ file' = [file EXCEPT !.dex_off = v, !.damage = "dex_off"]
          \/ /\ n \in 12..15 /\ v # file.dex_len
             /\ file' = [file EXCEPT !.dex_len = v, !.damage = "dex_len"]
          \/ /\ n \in 16..19 /\ v # file.deps_off
             /\ file' = [file EXCEPT !.deps_off = v, !.damage = "deps_off"]
          \/ /\ n \in 20..23 /\ v # file.deps_len
             /\ file' = [file EXCEPT !.deps_len = v, !.damage = "deps_len"]
          \/ /\ n \in 24..27 /\ v # file.aux_off
             /\ file' = [file EXCEPT !.aux_off = v, !.damage = "aux_off"]
          \/ /\ n \in 28..31 /\ v # file.aux_len
             /\ file' = [file EXCEPT !.aux_len = v, !.damage = "aux_len"]
          \/ /\ n \in 32..35 /\ v # file.flags
             /\ file' = [file EXCEPT !.flags = v, !.damage = "flags"]
  /\ UNCHANGED <<vars, meta, dex_sz, rd, read>>

Corrupt == CorruptTail \/ CorruptDex \/ CorruptHeader
-----------------------------------------------------------------------------
(***************************************************************************)
(* The reader.                                                             *)
(***************************************************************************)
(* -1 for a byte in front of the tail or behind the file. *)
ByteAt(off) ==
  LET k == off - (file.dex.off + file.dex.len) + 1
  IN  IF k \in DOMAIN file.tail THEN file.tail[k] ELSE -1
Bytes(off, n) == [k \in 1..n |-> ByteAt(off + k - 1)]

(* The C string at off: up to the first zero.  Where there is none the     *)
(* code reads on behind the buffer, the model stops at its end.            *)
CString(off) ==
  Bytes(off, Min({n \in 0..Len(file.tail) : ByteAt(off + n) \in {0, -1}}))

UintAt(off) == UintIn(Bytes(off, 4), 1)

DepsEnd == file.deps_off + file.deps_len

Reject ==
  /\ rd' = [rd EXCEPT !.at = "rejected"]
  /\ UNCHANGED read

(* The checks of dxc_read_buffer before the checksum. *)
HeaderFails ==
  \/ file.size < 112
  \/ file.version \notin {35, 36}
  \/ file.dex_off + file.dex_len > file.size
  \/ file.dex_len < 112
  \/ file.deps_off # 0 /\ file.deps_off + file.deps_len > file.size
  \/ file.aux_off # 0 /\ file.aux_off + file.aux_len > file.size
  \/ file.aux_off < file.deps_off

(* The bytes that the checksum covers. *)
Covered ==
  LET start == IF file.deps_off # 0 THEN file.deps_off ELSE file.aux_off
      end == IF file.aux_off # 0 THEN file.aux_off + file.aux_len
             ELSE IF file.deps_off # 0 THEN DepsEnd ELSE 0
  IN  Bytes(start, end - start)

WrongChecksum == file.crc # NoChecksum /\ Covered # file.crc

OpenOdex ==
  /\ file # NoFile /\ rd.at = "closed"
  /\ IF HeaderFails \/ WrongChecksum THEN Reject
     ELSE /\ rd' = [rd EXCEPT !.at = IF file.deps_off # 0 THEN "deps" ELSE "aux"]
          /\ read' = [read EXCEPT !.odex_version = file.version, !.flags = file.flags]
  /\ UNCHANGED <<vars, meta, dex_sz, file>>

(* The fields of the dependencies section before the list. *)
OpenDeps ==
  /\ rd.at = "deps"
  /\ IF file.deps_len < 16 THEN Reject
     ELSE LET off == file.deps_off
          IN  /\ read' = [read EXCEPT !.dex_mod_time = UintAt(off),
                                      !.dex_crc = UintAt(off + 4),
                                      !.vm_version = UintAt(off + 8)]
              /\ rd' = [at |-> "dep", off |-> off + 16, left |-> UintAt(off + 12)]
  /\ UNCHANGED <<vars, meta, dex_sz, file>>

ReadDep ==
  /\ rd.at = "dep" /\ rd.left > 0
  /\ IF rd.off + 4 > DepsEnd THEN Reject
     ELSE LET ln == UintAt(rd.off)
              name == rd.off + 4
              nul == name + ln - 1
          IN  IF name + ln + 20 > DepsEnd \/ ByteAt(nul) # 0 THEN Reject
              ELSE /\ read' = [read EXCEPT !.deps = Append(@,
                                 [name |-> CString(name),
                                  sha |-> Bytes(name + ln, 20)])]
                   /\ rd' = [rd EXCEPT !.off = name + ln + 20, !.left = @ - 1]
  /\ UNCHANGED <<vars, meta, dex_sz, file>>

DepsRead ==
  /\ rd.at = "dep" /\ rd.left = 0
  /\ rd' = [rd EXCEPT !.at = IF file.aux_off # 0 THEN "aux" ELSE "dex"]
  /\ UNCHANGED <<vars, meta, dex_sz, file, read>>

(* if(!*aux): the old format is only marked. *)
OpenAux ==
  /\ rd.at = "aux"
  /\ IF UintAt(file.aux_off) = 0
       THEN /\ read' = [read EXCEPT !.aux_format = FORMAT_OLD,
                                    !.has_class_lookup = TRUE]
            /\ rd' = [rd EXCEPT !.at = "dex"]
       ELSE /\ rd' = [rd EXCEPT !.at = "chunk", !.off = file.aux_off]
            /\ UNCHANGED read
  /\ UNCHANGED <<vars, meta, dex_sz, file>>

(* Mutant: size = (size + 7) & ~7, without the header of the chunk.        *)
ChunkStepMut(size) == ((size + 7) \div 8) * 8

(* size = (size + 8 + 7) & ~7 *)
ChunkStep(size) == ((size + 8 + 7) \div 8) * 8

ReadChunk ==
  /\ rd.at = "chunk"
  /\ LET code == UintAt(rd.off)
     IN  /\ code # AUX_END
         /\ read' = [read EXCEPT !.aux_format = FORMAT_NEW,
                                 !.has_class_lookup = @ \/ code = AUX_CLASS_LOOKUP,
                                 !.has_register_maps = @ \/ code = AUX_REGISTER_MAPS]
         /\ rd' = [rd EXCEPT !.off = @ + ChunkStep(UintAt(rd.off + 4))]
  /\ UNCHANGED <<vars, meta, dex_sz, file>>

AuxRead ==
  /\ rd.at = "chunk" /\ UintAt(rd.off) = AUX_END
  /\ rd' = [rd EXCEPT !.at = "dex"]
  /\ UNCHANGED <<vars, meta, dex_sz, file, read>>

(* The magic, the version and the checksum of what lies at dex_off and is  *)
(* dex_len long.                                                           *)
DexFound == file.dex_off = file.dex.off /\ file.dex_len = file.dex.len /\ file.dex.ok

CheckDex ==
  /\ rd.at = "dex"
  /\ IF DexFound THEN rd' = [rd EXCEPT !.at = "accepted"] /\ UNCHANGED read ELSE Reject
  /\ UNCHANGED <<vars, meta, dex_sz, file>>

Over == rd.at \in {"accepted", "rejected"} /\ UNCHANGED allVars

ReadOdex ==
  OpenOdex \/ OpenDeps \/ ReadDep \/ DepsRead \/ OpenAux \/ ReadChunk \/ AuxRead \/ CheckDex

NextOdex == BuildTable \/ WriteOdex \/ Cut \/ Corrupt \/ ReadOdex \/ Over

(* The damage is not owed to anyone; the program goes on.                  *)
SpecOdex ==
  /\ InitOdex /\ [][NextOdex]_allVars
  /\ WF_allVars(BuildTable) /\ WF_allVars(WriteOdex) /\ WF_allVars(ReadOdex)
-----------------------------------------------------------------------------
TypeOKOdex ==
  /\ file = NoFile => TypeOK
  /\ rd.at \in {"closed", "deps", "dep", "aux", "chunk", "dex", "accepted", "rejected"}
  /\ rd.at = "dep" => rd.off \in file.deps_off + 16..DepsEnd
  /\ rd.at = "chunk" => /\ rd.off \in file.aux_off..file.aux_off + file.aux_len - 4
                        /\ (rd.off - file.dex.off) % 8 = 0
  /\ rd.left \in Nat
  /\ read.deps \in Seq([name : Seq(1..255), sha : Seq(0..255)])

(* Damage that dxc_read_buffer need not notice: the checksum covers the    *)
(* dependencies and the aux data and not the header.  The version may turn *)
(* into the other one, the checksum into the number that is never checked, *)
(* the length of the dependencies may grow.                                *)
Unnoticed == {"version", "flags", "deps_len", "crc"}

(* The reader takes every file that nobody damaged, and finds the OdexData *)
(* it was written from.  It refuses a prefix that an interrupted write     *)
(* left, a file with a byte changed in the dex file or behind it, and one  *)
(* with another place of a section or another length of the dex file or    *)
(* the aux data in its header.  The damage that it may not notice shows in *)
(* no field but the one that was changed.  The old format has no mark for  *)
(* a class lookup: it is always taken as present.                          *)
ReadsBack ==
  /\ rd.at = "rejected" => file.damage # "none"
  /\ rd.at = "accepted" =>
       /\ file.damage \in {"none"} \cup Unnoticed
       /\ read = [meta EXCEPT
            !.odex_version = IF file.damage = "version" THEN file.version ELSE @,
            !.flags = IF file.damage = "flags" THEN file.flags ELSE @,
            !.has_class_lookup = @ \/ meta.aux_format = FORMAT_OLD]

(* The class lookup is what ClassIndex promises, where one is written.     *)
Lookups ==
  INSTANCE ClassIndex
    WITH classes <- IF meta.has_class_lookup THEN classes ELSE << >>,
         index <- [d \in Descs |-> Found(d)]
LookupSpec == Lookups!Spec

(* Writing and reading an odex file ends, with collisions in the table and *)
(* whatever the chunks of the aux data.                                    *)
Termination == <>(rd.at \in {"accepted", "rejected"})
=============================================================================
