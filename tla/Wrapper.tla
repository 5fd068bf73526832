------------------------------ MODULE Wrapper ------------------------------
(***************************************************************************)
(* ccDexFile (src/src/cc.cpp) around the reader and the writer:            *)
(* read_buffer fills the C++ tree from the DexFile that ReadDex reads,     *)
(* which is then freed; write_file makes a DexFile of its own from the     *)
(* tree, writes it and frees it, as often as a client asks.                *)
(***************************************************************************)
EXTENDS ReadDex, CcTree

VARIABLES
  wrapper,   (* "empty", "filled", "lost", "copied", "crashed"              *)
  cc,        (* the tree of the ccDexFile                                   *)
  out,       (* the DexFile that write_file works on                        *)
  copies     (* the bag of what it has acquired and not released            *)

wrapperVars == <<wrapper, cc, out, copies>>
wVars == <<vars, wrapperVars>>

(* What freeing refs releases, through the lists of prototypes: strings by *)
(* their texts, and blocks.                                                *)
Through(ps, refs) ==
  FlattenSeq([k \in DOMAIN refs |->
    CASE refs[k][1] \in {"proto", "list"} -> CopyPrototype(FillPrototype(ps, refs[k])).took
      [] refs[k][1] = "str" -> <<Str(Text(refs[k]))>>
      [] refs[k][1] \notin {"proto", "list", "str"} -> <<refs[k]>>])

(* read_buffer: fill_cc of what dxc_read_buffer returned, if not NULL.      *)
FillCc ==
  /\ pc = "done" /\ wrapper = "empty"
  /\ IF MeetsNull(dex) THEN wrapper' = "lost" /\ cc' = cc
     ELSE wrapper' = "filled" /\ cc' = FillFile(protos, dex)
  /\ UNCHANGED <<vars, out, copies>>

(* DexFile* dxf = copy() *)
CopyCc ==
  /\ pc = "freed" /\ wrapper = "filled"
  /\ \E r \in {CopyFile(cc)} : out' = r.value /\ copies' = copies (+) BagOf(r.took)
  /\ wrapper' = "copied"
  /\ UNCHANGED <<vars, cc>>

FreeCopyMut ==   \* write_file forgets that it has freed the copy
  /\ wrapper = "copied"
  /\ LET all == BagOf(Through(<< >>, FreeDexFile(out)))
     IN  IF all \sqsubseteq copies
         THEN wrapper' = "filled" /\ copies' = copies (-) all /\ out' = out
         ELSE wrapper' = "crashed" /\ UNCHANGED <<copies, out>>
  /\ UNCHANGED <<vars, cc>>

(* dxc_write_file(dxf, fout); dxc_free_file(dxf)                           *)
FreeCopy ==
  /\ wrapper = "copied"
  /\ LET all == BagOf(Through(<< >>, FreeDexFile(out)))
     IN  IF all \sqsubseteq copies
         THEN wrapper' = "filled" /\ copies' = copies (-) all /\ out' = NULL
         ELSE wrapper' = "crashed" /\ UNCHANGED <<copies, out>>
  /\ UNCHANGED <<vars, cc>>

WrapperInit == Init /\ wrapper = "empty" /\ cc = NULL /\ out = NULL /\ copies = EmptyBag

Reader == wrapper # "lost" /\ Next /\ UNCHANGED wrapperVars
WrapperEnded == wrapper = "lost" /\ UNCHANGED wVars

WrapperNext == Reader \/ FillCc \/ CopyCc \/ FreeCopy \/ WrapperEnded

WrapperSpec == WrapperInit /\ [][WrapperNext]_wVars
-----------------------------------------------------------------------------
(* Types of the variables of the wrapper: a tree exists only of a file     *)
(* that was read to its end, and a copy only while write_file runs.        *)
TypeOKWrapper ==
  /\ wrapper \in {"empty", "filled", "lost", "copied", "crashed"}
  /\ cc # NULL <=> wrapper \in {"filled", "copied", "crashed"}
  /\ out # NULL <=> wrapper \in {"copied", "crashed"}
  /\ cc # NULL => pc \in {"done", "freed"}
  /\ IsABag(copies)

(* What a DexFile says where an absent string and "" are the same: for the *)
(* super class and the source file of a class, the type of a handler and   *)
(* the names of debug information.                                         *)
OrAbsent(r) == IF TextOrEmpty(r) = 0 THEN NULL ELSE r
DebugOrAbsent(in) ==
  CASE in.opcode \in Locals -> [in EXCEPT !.p = [k \in DOMAIN @ |-> OrAbsent(@[k])]]
    [] in.opcode = "set_file" -> [in EXCEPT !.p = OrAbsent(@)]
    [] in.opcode \notin Locals \cup {"set_file"} -> in
TryOrAbsent(t) ==
  [t EXCEPT !.handlers = [k \in DOMAIN @ |-> [@[k] EXCEPT !.type = OrAbsent(@)]]]
CodeOrAbsent(code) ==
  [code EXCEPT
     !.tries = [k \in DOMAIN @ |-> TryOrAbsent(@[k])],
     !.debug_information =
        IF @ = NULL THEN NULL
        ELSE [@ EXCEPT !.insns = [k \in DOMAIN @ |-> DebugOrAbsent(@[k])]]]
MethodOrAbsent(mtd) ==
  [mtd EXCEPT !.code_body = IF @ = NULL THEN NULL ELSE CodeOrAbsent(@)]
ClassOrAbsent(c) ==
  [c EXCEPT !.super_class = OrAbsent(@), !.source_file = OrAbsent(@),
            !.direct_methods = [k \in DOMAIN @ |-> MethodOrAbsent(@[k])],
            !.virtual_methods = [k \in DOMAIN @ |-> MethodOrAbsent(@[k])]]
FileOrAbsent(d) == [d EXCEPT !.classes = [k \in DOMAIN @ |-> ClassOrAbsent(@[k])]]

(* The DexFile that ccDexFile::write_file writes is the one that           *)
(* ccDexFile::read_buffer has read, apart from strings "" that may be      *)
(* absent and are written as absent: it holds each string, each list and   *)
(* each block of it as often, and filled in again both give the same tree. *)
WrittenAsRead ==
  wrapper = "copied" =>
    LET kept == FileOrAbsent(dex)
    IN  /\ FillFile(<< >>, out) = FillFile(protos, kept)
        /\ copies = BagOf(Through(protos, FreeDexFile(kept)))

(* dxc_free_file releases all that copy() allocates, and no more, every    *)
(* time a client writes.                                                   *)
CopyReleased ==
  /\ wrapper # "crashed"
  /\ wrapper = "filled" => copies = EmptyBag
=============================================================================
