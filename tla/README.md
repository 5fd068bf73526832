# dxcut in TLA+

dxcut is a C library (with a C++ wrapper) that reads the dex and odex files of
the Dalvik virtual machine into a tree (`DexFile`), lets a program edit the
tree, and writes it back. It is sequential: no threads, no persistent state, no
tests. What makes it hard is elsewhere: several independent walks over one tree
that must agree, two computations of the same offsets, orders that a format
demands and an algorithm provides indirectly, reference counts, and cleanup
after a failure in the middle of a structure.

## Inventory

| part | state | operations | correct when |
|---|---|---|---|
| class order of the writer (`write.c`, `write_classes`) | `cl_type` (type to unwritten class), a stack of frames, the classes written | one walk per class, a frame per type | each class is written once, after the classes it inherits from; the walk ends inside the allocated stack |
| constant pools (`write.c`, `pop_*`, `make_unique`, `find_*`) | five arrays | collect, close, sort, search | every lookup finds the constant meant; pools stay sorted; ids are in the order of the dex format |
| layout (`write.c`, `dxc_write_file`) | data items, offsets, sections, the buffer | plan, resolve, merge, build the map, copy | every reference leads to the item meant; items are where the plan says; merging is complete; bytes are freed once |
| item encoders (`write.c`, `write_*`) | one data item | append encoded integers, values, instructions | what is decoded is what was encoded; each reference has its item |
| renaming (`util.c`) | sorted tables of renames, the tree | sort, walk, search | every reference is visited and renamed once as documented |
| strings (`common.c`) | reference counts | create, copy, free | a string is freed with its last reference, not before |
| reader (`file.c`, `strings.c`, `types.c`, `protos.c`, `fields.c`, `methods.c`, `classes.c`, `code.c`, `debug.c`, `values.c`, `annotations.c`, `read.c`) | a read context with tables of constants, the tree | read each section, fail, clean up | a tree or NULL; after a failure nothing is leaked or freed twice |
| odex data (`aux.c`, `opt_write.h`) | dependencies, class lookup table | read, write | every class is found by the lookup |
| instructions (`dalvik.c`, `dalvik.h`) | format tables | decode, get and set registers | a register read is the one set |
| C++ wrapper (`cc.cpp`) | a second tree | deep copies | both trees denote the same file |

The parts interact by calls only. `dxc_write_file` calls `pop_class` for each
class, closes the pools, writes the id items, calls `write_classes` (which calls
`write_class` and through it all item encoders, each of which searches the pools
and appends data items), and lays the data items out. The tree is shared by
pointer between reader, editor, renaming and writer; its strings are shared by
reference count.

What is hard here: the order of steps (a pool that is extended after it was
sorted, an offset that is read before it is final), the agreement of
independent walks (collecting and writing, reading and writing, renaming
definitions and renaming references), limits (stack of the walk, 16 bit
indices, 28 bit offsets, reference counts), and partial failure while reading.
`PROJECT.json` lists these hazards at their lines.

## Modules

| module | models | kind |
|---|---|---|
| `ClassHierarchy` | classes of a file as the writer sees them | data and assumptions |
| `ClassEmission` | what the order of class definitions promises | abstract specification |
| `ClassOrder` | `write_classes` | detailed specification, implements `ClassEmission` |
| `ClassOrder_proofs` | theorems about `ClassOrder` | proofs |
| `ConstKeys` | the order of the keys of constants | operators |
| `ConstItems` | constants and their id items | operators |
| `DexTree` | the tree, `pop_*` and the lookups of `write_*` | operators |
| `PoolClosure` | `dxc_write_file` up to the data items, for any collected and looked-up constants | specification |
| `PoolClosure_proofs` | theorems about `PoolClosure` | proofs |
| `ConstPool` | `PoolClosure` with the walks of `DexTree` | instance of the specification |
| `Layout` | `dxc_write_file` from the data items to the buffer | specification |
| `LayoutInv` | its inductive invariant | invariant |
| `Layout_proofs` | theorems about `Layout` | proofs |
| `RenameSearch` | the sorts and the searches of `dxc_rename_identifiers`, for any references | specification |
| `RenameSearch_proofs` | theorems about `RenameSearch` | proofs |
| `Rename` | `dxc_rename_identifiers`: the references of a tree | specification, composes `DexTree` and `RenameSearch` |
| `DexMemory` | what each `dxc_free_*` releases | operators |
| `DexItems` | the readers of values, annotations, debug information and code | operators |
| `ReadDex` | `dxc_read_buffer` and `dxc_free_file` | specification |
| `DexShape` | which parts of a file are lists or may be missing, and what the theorems suppose of a file | operators |
| `DexOwing_proofs` | what each read of `DexItems` and `ReadDex` owes to the release functions; the inductive invariant of `ReadDex` and its steps up to the classes | proofs |
| `ReadDex_proofs` | the other steps, and the theorems about `ReadDex` | proofs |
| `CcTree` | `fill_*` and `copy_*` of `cc.cpp` | operators |
| `Wrapper` | `ccDexFile` around `ReadDex` | specification, composes `ReadDex` and `CcTree` |
| `ClassIndex` | what the class lookup of an odex file promises | abstract specification |
| `ClassLookup` | the table that `write_aux` builds | detailed specification |
| `OdexFile` | writing, damaging and reading the odex parts of a file | specification, composes `ClassLookup` with the reader, implements `ClassIndex` |
| `OdexFile_proofs` | theorems about `ClassLookup` and `OdexFile`, down to the bytes, and the refinement | proofs |
| `RegisterList` | what the register functions promise | abstract specification |
| `Instructions` | registers, encoding and decoding of instructions | operators |
| `EncodedNumbers` | leb128 and encoded values | operators |
| `DebugItems` | debug information in the file | operators |
| `ClassItems` | annotation directory, class data and static values of a class | operators |
| `ModifiedUtf8` | strings in the file and their order | operators |
| `Codec` | items edited, written, read, edited again | specification, implements `RegisterList` |
| `Common_proofs` | induction, iteration of a function, the order of keys | lemmas |
| `DexSamples` | small trees | inputs for TLC |
| `MC*` | instances | model checking |

### ClassOrder

One action per iteration of a loop of `write_classes`: `FillOne` enters a class
in `cl_type`, `StartRoot` begins a walk, and an iteration of the walk is one of
`SkipType` (`!cl`), `VisitSuper`, `VisitInterface` and `WriteClass`. `stck` is
the used part of the array; `Len(stck)` is `spos + 1`. Types are indices of the
type pool, which `ConstPool` shows to be free of duplicates. The classes are any
list with an acyclic hierarchy, with types defined twice, interfaces listed
twice and classes outside of the file. That the hierarchy is acyclic is an
assumption (`AcyclicAssumption`): the dex format demands it, the code does not
check it, and a cyclic hierarchy overruns the stack.

### PoolClosure and ConstPool

`Populate` is `pop_class` on one class, `CloseMethods` to `CloseStrs` are the
five blocks of `dxc_write_file` that make a pool unique and add the parts of
its constants to other pools, `WriteConstantPool` writes the id items, and
`WriteClassItem` does every lookup of `write_class`. A string is a number in
the order of `mutf8_compare`, a constant is the sequence of strings that its
comparison goes through. A pool is an array in the code; before `make_unique`
sorts it nothing depends on the order of its entries or on how often one is in it, so
`pool` is a set and `array` what `make_unique` leaves. `find_pool` is modelled as its
binary search, round by round, not as a membership test.

`PoolClosure` has two parameters for the tree: what `pop_class` collects from a
class (`Collected`) and what `write_class` looks up for it (`LookedUp`). `ConstPool`
instantiates them with the walks of `DexTree`, `PopX` and `WriteX`, which are
translated separately, function by function, since their agreement is what
`LookupsHit` is about.

### Layout

State: the data items (type, payload, size, references), their planned offsets,
the sections (`type_map`), the map and the buffer (`at`, `file_sz`). `offsets`
has the three meanings it has in the code: -1 (not placed), the index of the
item that an item duplicates, and an offset. `qsort` does not say what happens to
items with equal checksums: `SortSection` takes any order of them. `Crc` is a
constant, so that different items with one checksum can be given to TLC.
`MapSection` and `MapEnd` are the iterations of the loop that makes the map, `CopyItem`
and `CopyEnd` those of the loop that copies. Items have at least one byte and
refer to items of the types that the writers refer to (`RefersTo`, `DataAssumption`).

### RenameSearch and Rename

`RenameSearch` is what happens to a list of references (`sites`): the copies of the tables
are sorted by exchange, an iteration of the loops an action (`Compare`, `NextEntry`,
`EndSort`), and each reference is renamed by the binary searches of the code, an iteration
an action, with the behaviour that a match does not end the loop. `key` is the
reference, `part` is 0 while a field or a method is searched as a whole and then
the position of the class that is searched. `NextPart` goes through the classes of a
prototype from the first to the last, the code from the last to the first: each class
is renamed on its own, so the result is the same.

`Rename` says which references there are: the walk over the tree (`VisitClass` and
below) gives `sites` its value. So each behaviour of `SpecRename` is one of `RenameSearch`'s `Spec`,
as long as what the walk visits are references (`TypeOK`, which run `rename` checks of
`sites`), and the theorems about `RenameSearch` hold for it.

`LinksKept` is about tables whose renames of members leave these in their class
(`ClassesKept`). For a member that a class defines and that a rename moves, the code
writes a message and keeps the class, while references to it follow the rename.

### ReadDex

A read acquires references and blocks in an order given by the file and by the
place where it stops; the cleanup releases what it finds in the structures. The
two walks are translated apart: `DexItems` and the actions say what a reader
stores (`value`), whether it succeeds (`ok`) and what it acquires (`took`);
`DexMemory` says what the `dxc_free_*` functions find in a structure. The bag
`held` is what has been acquired and not released, so `held[Str(i)]` is the
counter of string `i`, apart from its width. A release of something that is not
held, or through a pointer that is not set, ends in `crashed`.

`dxc_read_value` and `dxc_free_value` call themselves for the values in a value. `ReadValueBody`
and `FreeValueBody` are their bodies (`ReadValueOf` and `FreeValueOf` with the call as a parameter); the constants `ReadValue` and `FreeValue`
stand for the functions and `MCReadDex` ties the knot (the prover does not handle
recursive operators).

`ctx` is `read_context`, `dex` the `DexFile`, `protos` the lists of the
prototypes (shared, counted, and freed with their last reference), `pc` the step.
Each section is one action, since it only adds to the context. The
classes are read in the steps of `dxc_read_class_section`: `ReadClass`, the
directory, the interfaces, the four lists one `ReadMember` per member, and the
static values. The directory puts the annotations into the raw fields and
methods of the context, which all classes share, and `ReadMember` takes them out; an
annotation that no member took is released with the context. A directory may name any index of a
section, `dxc_read_annotation_directory` checks the bound only: what the directory of one class leaves for
a member of another is taken by that member if its class is read later. `MembersDelivered` says so (`LeftFor`):
a member gets the list that the directory of its own class has for it, if this has one, or else
the last that an earlier class left there, and no list is given twice. The run has both orders of the two classes, directories that
name members of the other class, a class that comes twice and members that are listed twice. `MoveToFile` hands the
classes over and copies the three tables, `ReleaseContext` is the `free_context`
of a read that succeeded, `ReleaseFailed` that of one that did not, and `FreeFile` is
the caller's `dxc_free_file`.

A file is what the readers tell apart: indexes (from 1, `Bad` for one
that is too large), optional parts (a sequence of at most one), and `NULL` or
"unreadable" for what is outside of the data section. `DebugCap` is the
size that the array of debug instructions starts with (10 in `debug.c`).

### CcTree and Wrapper

`ccDexFile::read_buffer` reads a `DexFile`, fills a tree of C++ objects from it and
frees it; `write_file` makes a new `DexFile` from the tree, writes it and frees it.
`CcTree` has the two walks, `fill_*` and `copy_*`, function by function. A text of
the tree is the number of its string, 0 for the empty one, which a file may hold, too (`EmptyTexts`); a prototype is the list of
its texts, so the sharing of the `DexFile` is lost on the way, as in the code, and the
copy has lists of its own (`List`). The copies say what they acquire (`took`) with
the operators of `DexItems`, and `FreeCopy` releases what `DexMemory` finds in the
result: `CopyReleased` is about these two walks, `WrittenAsRead` about fill and copy.

What the wrapper writes is not always what it has read. A `std::string` does not tell NULL from "", and
`copy_str_null` (`cc.cpp:469`) makes NULL of both: a source file, super class, handler type or debug
name that is "" in the file is absent in the one written (`FileOrAbsent`). `WrittenAsRead` claims that nothing else
changes. For a debug name this means that `fill_debug_insn` does not survive the file written (below), although it did survive the
one read.

`fill_debug_insn` reads names through pointers that are NULL where a debug information does
not give them. What the program does then is not defined; `Wrapper` ends such a
file in the state "lost" (`MeetsNull`), and claims nothing more for it.

### ClassLookup and OdexFile

`ClassLookup` is the part of `write_aux` with `has_class_lookup`: `Double` and
`Alloc` find the size of the table, `NextClass`, `Collide` and `Store` are the
iterations over classes and entries. Its lookup is the one that the table is made for
(start at the home of the hash, stop at the descriptor or at a free entry), which is
not part of the repository. `ClassIndex` states what the table means: classes
become known one after the other, and a class that is known stays known.

`OdexFile` adds the rest of the file behind the dex part: `write_deps`,
`write_aux`, the header and the padding, byte by byte, since the reader follows
lengths that the writer computed. The reader has an action for the header, for the
fields of the dependencies, for each dependency, for each chunk of the aux data and for
the dex file, of which only its place, its length and whether its own magic, version and checksum
are right are kept (`CheckDex`). A name is the C string that `dxc_induct_str` takes (`CString`), whatever
the length in front of it.

A write that stops leaves a prefix of any length (`Cut`), and a medium may change a
byte anywhere: behind the dex file (`CorruptTail`), in it (`CorruptDex`) or in a field of the
header (`CorruptHeader`). The checksum of an odex file covers the dependencies and the aux data
and not the header (`file.c:309`), so not all of it is noticed. `Unnoticed` names the four
fields that may pass: the version (35 for 36 and back), the flags, the length of the dependencies
(a larger one up to the end of the file is as good) and the checksum itself
(0xFFFFFFFF is never compared). `ReadsBack` says that damage to any other byte is refused,
and that damage to one of these four is refused or changes nothing but that version or
those flags in what is read. The checksum is the bytes that it covers: a checksum that no
two files share.

### Codec

An item (a code item, an array of values, debug information, the members of a class, the
strings of a pool) is written and read; a code item is also edited in memory before, and
what was read is edited and written again. An instruction is its
nibbles, so that the fields of the formats and the shifts of `dxc_set_register`, `write_dalvik`
and `dxc_read_dalvik` meet in one place. `Formats` is a table with the columns of
`dex_opcode_formats` that the code looks at; the run has a row of each shape that
the code tells apart. The widths (`Base`, `LebBits`, `UintBits`, `ByteBits`) are
constants and small in the run. The reader takes three units of each instruction,
whether they belong to it or not: `Junk` is what lies behind the last one.

The members of a class are sorted by index when they are written, and three things go with
them: the annotations that the directory refers to, by index; the static values, by
position; and the indexes themselves, of which the file has the differences. `ClassItems`
translates the three of `write.c` apart, and the reader takes the types of fields from the table
of fields (`FieldTypes`). `WrittenIsRead` demands that each member comes back once with all
that belongs to it, and each static field with its value or the default of its type.
`ModifiedUtf8` compares strings as `mutf8_compare` does, byte by byte with one exception;
`Units` decodes them, and `WrittenIsRead` demands of the strings of a file the order of their
UTF-16 units (`UnitsBefore`) and the right number of units.

`RegisterList` is what `dalvik.h` promises: a list of registers and a special value, a call
that changes one register or none. `Codec` implements it with the fields that the
registers share with the special value, across writing and reading.

## Runs

| run | shows | bounds |
|---|---|---|
| `class_order` | order, completeness, stack bound, termination, refinement | three classes, four types (three of them may be defined); enough for a diamond, a class met as root, super class and interface, and a type defined twice |
| `const_pool` | lookups and pools | lists of one and two classes from `DexSamples`, which has each kind of element with a constant of its own, each optional part present and absent |
| `layout` | offsets, references, merging, map, buffer | up to two items of a type, with a chain of references through three sections; all orders of equal checksums |
| `rename` | renaming, completeness, termination | tables of up to three entries for each kind, with swaps and chains, in orders that the sort has to change |
| `rename_chains` | a violation: chains | the tables of `rename` |
| `rename_parameters` | a violation: annotation parameters | an annotation with two parameters |
| `read_dex` | acquiring and releasing, annotations reach their members, the wrapper writes what it has read | two classes that share strings, types and prototypes; the first has every kind of item, and in each file one feature more or less or one fault; members of both in the directory of either; strings that are ""; 126 files |
| `odex` | every class is found, undamaged files are read as written, damaged ones refused or, in four fields of the header, read with no other change, termination, refinement | lists of up to five descriptors with equal hashes, equal homes and a home at the end of the table; hashes of 16 bits; up to two dependencies; both formats; files with chunks of other kinds; files of up to 52 bytes behind the dex file cut or damaged at any byte, the others at the checksum, the start of the dex file, the start of the dependencies and the last byte |
| `codec` | written is read, registers are a list | nibbles of 8 values, leb groups of 3 bits, numbers of 8 bits, bytes of 3 bits; numbers at every limit of sign and width; nesting up to the limit; classes with fields and methods out of order, fewer values than fields, each kind of annotation present and absent; strings with units of one, two and three bytes and the null unit, prefixes of each other; two edits, before or after a file |
| `set_register` | a violation: the second register of a `22b` instruction | an instruction of this format |
| `free_file` | a violation: tables of a freed file | the files of `read_dex` without faults |
| `debug_failure` | a violation: cleanup of debug information | four faults |

Fairness is weak fairness of the next-state relation, in `ClassOrder` and
`Rename`: a sequential program that is not stuck takes its next step. In
`OdexFile` it is weak fairness of the steps of the program (`BuildTable`, `WriteOdex`,
`ReadOdex`), and none of the damage, which nobody owes. `Termination` is a
property of `write_classes`, of the searches of `dxc_rename_identifiers` and of the
probes and chunks of an odex file, whose loops have no counter. `ConstPool`, `Layout` and
`Codec` have loops over arrays only and state no liveness, and neither does `ReadDex`. Runs end in a
stuttering step (`Done`, `Ended` in `ReadDex`), so that TLC's deadlock check is on in every run: a state before
the end in which no action is possible would be reported.

The bounds of `read_dex`. A fault ends the read, so one fault in a file is
enough; it comes after items that succeeded in the same list, so that something
is there to be released. Two classes are enough for an index list that starts
again, for annotations that wait in the context for a class, and for a fault
in a class after a complete one. `DebugCap` is 2, so that the array grows in
three instructions. Excluded are inputs for which the code is known to leak or
to fail, each listed as a hazard or a finding: faults inside a nested
value, debug information of `debug_failure`, prototypes with a hole,
directories that name a member twice, handlers at the address 0xFFFFFFFF.
`malloc` succeeds, and the nesting limit of values (`MAX_ARRAY_DEPTH`) is
one of the reasons for an unreadable value. The wrapper runs on all of these files that
can be read, and writes as often as TLC goes round; a file without a debug name
ends in "lost".

The bounds of `odex`. Five classes need a table of 16 entries, and three one of 8:
both have runs of used entries longer than one, with members of two homes, and one that
goes round at the end of the table. A changed byte, or the number that it is a part of, takes
one of the 14 numbers of `MCValues`: zero, the size of a section, numbers just below and above the offsets,
and one behind the end of the files; the theorem below takes any number. Damage happens once
and to files below 16 MB, so that no sum of an offset and a length wraps around. A file without a
checksum is not damaged: its reader believes every length and follows the chunks out of the
buffer. A name without a zero behind it ends at the end of the file, where the code reads on. Names are ASCII: `*s++` of a `char` outside of it has a sign that
depends on the build. Foreign files have what `dxc_write_file` does not produce:
other chunks and none, no dependencies, no checksum, and names that end before their
length does, at a zero inside or, with the length 0, in the sha.

The bounds of `codec`. The widths keep what matters: a register takes one, two or four
nibbles, an opcode two, a leb number of full width does not fill its last group, a
number has several bytes. Excluded: register 1 of a `22b` instruction in the run that
passes (run `set_register`), more than five registers and a special value that does not fit, which a
client must not ask for, try blocks without a handler. A negative `short` of one byte
changes when it is read (`LosesSign`, see below): `WrittenIsRead` says that nothing else does.

### Findings

* `rename_chains`: `util.h` says that a reference to `source_classes[i]` is
  replaced by `dest_classes[i]`. The searches go on after a match, so a
  reference may be renamed more than once, depending on where the entries are.
  `RenamedWithoutChains` shows that the promise holds when no destination is a
  source. An entry that renames a name to itself never ends
  (`RenameTablesAssumption` excludes it).
* `rename_parameters`: `rename_annotation` negates its sentinel test twice and
  visits one parameter. `AllVisited` holds for trees whose annotations have at
  most one parameter with references (run `rename`) and fails for others. It counts: each
  reference that `pop_class` collects is visited as often as it stands in the file, so that
  a place which is left out shows although the same name is visited elsewhere.

* `free_file`: `file.h` says that `dxc_free_file` frees the entire structure. It
  leaves `method_table`, `field_table` and `type_table` with what they refer to;
  `OnlyTablesRemain` (run `read_dex`) says that it leaves nothing else.
* `debug_failure`: when debug information cannot be read, `dxc_free_debug_info`
  is called for a structure whose instructions are not allocated yet or have
  no `DBG_END_SEQUENCE`.

* `set_register`: for register 1 of a format with an 8 bit literal, `dxc_set_register`
  clears the literal's byte and ors the number into the register that was
  there (`dalvik.c:479`); `dalvik.h` promises to set it.
* Without a run of its own: the writer cuts a negative `short` to one byte and the
  reader does not extend it (`values.c:82` has no `issigned`), so a static
  value of -1 comes back as 255. `LosesSign` is this set of values.
* Without a run of its own: `fill_debug_insn` (`cc.cpp:255`) dereferences names that
  `debug_info.h` allows to be NULL.

## Proofs

`ClassOrder_proofs` holds for every finite set of types and every set of acyclic class
lists. The assumptions are those of `ClassHierarchy`.

* `TypeCorrect`: the type invariant.
* `WalkInvariant`: `WalkInv` is inductive together with `TypeOK`. `MarkInv` is
  its core: `cl_type[t]` is NULL or the last class that defines `t`, and it is
  NULL exactly when this class is written. `ExaminedInv` says that the parents
  that a frame has passed are written or on top of it, `RootInv` that the
  roots passed are written.
* `ParentsFirstTheorem`: when `WriteClass` runs, the top frame has passed all
  its parents and nothing is above it, so by `ExaminedInv` all are marked and by
  `MarkInv` all are written. `ParentsFirst` alone is not inductive: it says nothing of a
  class that is not written yet.
* `WrittenOnceTheorem`: `WriteClass` needs a class that is not marked, `MarkInv` marks each
  written class.
* `AllWrittenTheorem`: `RootInv` and `MarkInv` at the end.
* `StackFitsTheorem`: frames descend in a ranking of the acyclic hierarchy, so the
  frames below the top hold different types; each waits for a class of the file
  that is not written, so there are at most `sz` of them (pigeonhole).
* `Refinement`: initial states map to initial states and steps map to `Emit` or
  stutter. The fairness part of `EmissionSpec` and `Termination` are checked by
  TLC only.

`OdexFile_proofs`, about `ClassLookup`, holds for every set of descriptors, every hash function, every
placement of strings and every set of lists of different descriptors (`HashAssumption`,
`OffsetAssumption`, `ListAssumption`; that no descriptor comes twice is `WrittenOnce`).

* `TableTypes`: the type invariant; entries are stored inside of the table.
* `LookupFinds`: `Findable` in every state. It is not inductive: that a new entry does not
  stand before an old one on the walk of the old one needs to know who is there. `WalkInv` says
  that the walk to a class meets classes inserted earlier only, `ProbeInv` that
  the insertion under way has passed used entries only, and `EntriesInv` counts the used
  entries: there are `i`, at most half of the table, so one is free and every walk
  ends.
* `TableInvariant`: these together are inductive. `Store` is the step with work in it: the
  entry it fills was free, so it is on no walk of an earlier class, and the walk
  of the new class is what `ProbeInv` says of the entries before `pos`.

About `OdexFile` it holds under the same assumptions for the whole odex file, damage to any byte included.

* `OdexLookupFinds`: `Findable` in every state. `OdexTable` carries the invariant of
  `ClassLookup` over: the steps that write, damage and read the file leave the table alone.
* `OdexIndexes`: the file implements `ClassIndex`. The classes known are those that the lookup
  finds, where the lookup of `ClassLookup` walks from the home of a hash and `At(d, k)` is the
  entry it meets after `k` steps; `FoundInv` says that it finds the classes before `i` and no other
  (`First` is the first step at which it may stop, so the walk's result is unique). A
  `Store` makes one more class known, every other step leaves all known as they are. The
  fairness part of `LookupSpec` stays with TLC.
* `OdexReadsBack`: `ReadsBack`, for every list of dependencies and chunks that `InputsAssumption` of
  `OdexFile` allows, every place of damage and every number it leaves (`Places` and `Values` are
  constants of which nothing but `Values \subseteq Nat` is assumed), and every file of another
  writer that `ForeignHolds` describes: one
  whose sections hold the dependencies and chunks they should, or one whose
  section of dependencies holds no list at all (`Listless`: a length leads out of it). Names with a zero
  inside are not among them; the run has two.
  `OdexInvariant` is the inductive part: the file is being written, or tells (`Telling`, `Told`) what it was
  written from but for a changed version or changed flags, or is damaged where the checks before the first
  read see it (`Damaged`). A file that tells is read as far as
  the sections at which the reader stands say (`AtDep`, `AtChunk`: what has been read is the first part of
  what is told), or is refused, which only damage may cause (`AtReject`). Damage to the header that these checks miss leaves
  the sections where they are and shows when the dex file is looked for (`Marked`, `AtDex`), or is in
  `Unnoticed`; a longer length of the dependencies lets the reader find the same list, whose own count and
  lengths say where it ends (`ListAt`). The lemmas about segments in `Common_proofs` say where a part of a concatenation is found.
* `OdexTypeCorrect`: `TypeOKOdex`, the offsets of the reader included.

`PoolClosure_proofs` holds for every set of class lists, whatever `Collected` and
`LookedUp` give for a class, as long as these are constants and finitely many
(`ClassesAssumption`), for every `Shorty` and every limit of the indices.

* `PoolInvariant`: `IndInv` is inductive. `UniqueInv` says which pools are unique at each
  step, `ArrayInv` that the array of a unique pool is sorted with all that the pool holds
  now, `ClosedInv` that the parts of its constants are in their pools, `CollectedInv` and
  `OriginInv` that the pools hold what the classes visited refer to and nothing else but
  parts, `IdsInv` and `FoundInv` what the items and the lookups contain.
* `PoolSorted`: `PoolsStaySorted`. The parts of a constant are in pools that are closed
  later (`PartsFacts`, `Later`), so closing a pool adds to none that is unique. That alone is
  not inductive, as `PoolsStaySorted` does not say which pools are still open.
* `PoolLookupsHit`, under `WalksAgree`: what `write_class` looks up, `pop_class` has collected.
  `FindExact` is the binary search: an entry of a sorted array stays in the half open
  window, and each round leaves less of it. `MakeUniqueFacts` is the sort.
* `PoolIdItemsExact` and `PoolIdItemsOrdered`, under `PoolsFit`: types and prototypes have indices of 16
  bits. Beyond that `uint2ushort` reports an error on stderr and stores 0, so neither
  property holds. The second says that lists of indices are in the order of the
  lists of strings (`LessMapped`, `LookupsAscend`): types first, since prototypes need it,
  and prototypes before methods.
* `PoolNoSpare`, under `WalksMeet`: what `pop_class` collects from a class is looked up or
  is a part of another constant collected.

`WalksAgree` and `WalksMeet` relate two recursive walks over a tree; that `DexTree`'s walks satisfy
them is not proved. TLC finds both true of each class list of run `const_pool`, and `LookupsHit` and
`NoSpareConstants` are what that run reports when a walk forgets something.

`Layout_proofs` holds for every list of data items that
`DataAssumption` allows, every checksum function and every order of items with equal checksums.

* `LayoutInvariant`: `IndInv` of `LayoutInv` is inductive. `CursorInv` and `ListsInv` are
  about the loops: each list by type holds each item of the type once, and when a section is
  finished one for all that are equal. `PlanInv` and `OrderInv` say where planned items are: behind
  each other, each at the first aligned offset after the one before. `MergeInv` gives the
  entries of `offsets` their present meaning. `ResolvedInv`, `RepresentedInv`, `FreedInv`,
  `MapInv` and `CopyInv` follow references, duplicates, bytes, map and buffer. The proof
  first shows that each step leaves the plan alone (`SamePlan`), places one item behind all
  others (`Places`) or drops a duplicate (`Drops`), and then that each of these keeps each part.
* `LayoutOffsetsAgree`: the copying loop computes the planned offsets again. `CopyInv`
  is the reason: what is copied is a first part of what is planned, in the same order, so both
  loops align after the same end.
* `LayoutReferencesReach`, for files below `UlebLimit`: a reference leads to the bytes of the item meant,
  although the item may be a duplicate that was dropped. In a larger file the
  code writes a wrong reference, without a message: its check (`write.c:1672`) looks at the position
  of the reference instead of its value. `RepresentedInv` gives each item
  whose offset is final a placed one with its bytes; it needs `ResolvedInv`, since items are
  compared with their references resolved.
* `LayoutNoDuplicates`, for checksums that are numbers: the merging loop compares an item with those
  that follow it while their checksums are equal; sorting by checksum makes this enough (`MergingInv`).
* `LayoutFreedOnce`, `LayoutMapExact` and `LayoutTypeCorrect` follow from the same invariant.

`RenameSearch_proofs` holds for all tables that `RenameTablesAssumption` allows and all lists
of references.

* `RenameInvariant`: `CopyInv` (a copy holds the pairs of its array), `SortInv` (the entries before `i` are
  the smallest, in order, and entry `i` is the least of those compared), `WindowInv`
  (what is searched is in the window if it is in the table) and `StageInv` (the search under way
  will end with what is documented). `WindowInv` and `StageInv` hold for tables without
  chains: after a match the new name is searched in the window that is left.
* `RenameDocumented`: `RenamedWithoutChains`.
* `RenameLinksKept`: `LinksKept`, with chains. What a search ends with is then no more than a function of the
  name that it starts with: a search is the orbit of a function of the window and the name,
  and an orbit has at most one end (`OrbitEnd` in `Common_proofs`).
* `RenameTypeCorrect`: the window stays in its table.

`DexOwing_proofs` and `ReadDex_proofs` hold for files of every size: any number of strings, prototypes,
members and classes, annotations and values nested to any depth, and a fault anywhere.

* Hypotheses. `NullApart`: NULL is not one of the structures. `Valued`: the file has the
  form that `DexShape` describes, its values are well founded (`Depth` of a value is more than that of the values in it),
  and `ReadValue` and `FreeValue` do with them what `ReadValueBody` and `FreeValueBody` say, which is
  how the two constants are meant. `FileSurvives`: the debug information is none of those for
  which `dxc_free_debug_info` itself goes wrong (run `debug_failure`). `Clean`, for the two
  theorems about what is left: no structure of the file forgets what was acquired for it, which the code does for a
  prototype with a hole, an unreadable value inside of another value, a handler at 0xFFFFFFFF and a member with two
  directory entries. The `ASSUME`s of `MCReadDex` have TLC check that the files of run `read_dex` satisfy all this,
  faulty ones included, and that those of `debug_failure` do not survive.
* `ReadDexCovered` and `ReadDexExact`: `IInv` is inductive. Its core is the debt: the list of all that the release
  functions would release for the context, the metadata and the lists of the prototypes (`Debt`). `AtReading` says
  that `held` has at least the debt at every step of the read, and just the debt for clean files;
  `AtRelease` and `AtDone` say the same when part of the debt has gone over to the `DexFile`. `NoCrash` alone
  is not inductive, as it does not say what is held, and `FailureReleasesAll` says something at the end only. The rest of
  `IInv` says how far each table and each class is filled: what has been allocated and not been read is zero, so
  that it owes nothing and ends the loops of the release functions.
* The debt is paid for from the leaves up. `Paid(took, owed, exact)` relates what a read
  acquires to what the release function of its result releases, also when it stops in the
  middle. `InOrderPaid` and `ReadArrayPaid` carry this from the parts to a structure or an array with its
  sentinel, and one lemma each (`ValuesPay`, by induction over the depth, `DebugSectionPays`, `CodePays`, ...)
  from function to function; the steps follow.
* The steps of a class move tokens between structures: the directory stores annotations in the tables of all classes, and
  `ReadMember` takes them out. Storing over a list forgets it, so that equality needs
  `SlotsNamed`: a slot is in use only if a directory that has been read names it.
* `ReadDexTypeCorrect`, `ReadDexNoCrash`: the reader and the release functions release nothing
  that is not held and follow no pointer that is not set, whatever the file says.
* `ReadDexFailureReleases`, `ReadDexOnlyTablesRemain`: a read that fails releases all, and a file that is freed
  leaves its three tables, with the lists of those prototypes that the tables still hold: a list is released with the last
  reference to its prototype, so `free_context` releases it only if nothing else refers to it (`LastRefsFacts`).

What the provers do not reach. Liveness (`Termination`, the fairness parts of `ClassEmission` and
`ClassIndex`) and `ENABLED`. Induction over data: the induction theorems of the library take an
operator, so `Common_proofs` states induction for sets of numbers (`SetInduction`), which is enough for a
recursive function over numbers, as the rounds of `find_pool` are (`Iterates`), but not for a tree.
`DexTree`, and with it `ConstPool` and the walk of `Rename`, uses recursive operators for
values and annotations, which the prover does not handle, and so do `CcTree` and with it
`Wrapper`, and `EncodedNumbers`, `DebugItems`, `ClassItems` and `ModifiedUtf8`, and with them
`Codec`: what these runs check (`AllVisited` of `rename` included) is model-checked only.
`MembersDelivered` of `ReadDex` adds up the distances between members with a fold, which is induction over a list: it is model-checked
only, too.

The inductive invariants are the parts that TLC was asked about before they were proved, on
the instances of the runs; they are not properties of the runs, which state what follows from them.

## Not modelled

Names of types and access flags: conversions of text that neither reader nor writer calls.
(`dxc_type_name` compares a name of seven letters with "double", `types.c:121`, so that "boolean"
becomes the name of a class.)
The width of the reference counts: a counter of 32 bits has more room than a process has
pointers. The contents of type lists, annotation sets and class definitions, which are
indexes and offsets only: `ConstPool` has the lookups, `Layout` the offsets. In the
wrapper, the assignment operators and destructors of the C++ objects. Register maps and index
maps, which the writer does not implement. `dxc_read_file` reads the bytes
and calls `dxc_read_buffer`; its input and output is left out. The header and the
digests of a written dex file are functions of what `Layout` computes. `class_layout.c` and
`inline.c` are not part of the library.

## Plan

1. Done: the specifications, and the proofs about `ClassOrder`, `ClassLookup` and `OdexFile` with
   the refinement of `ClassIndex`, `PoolClosure`, `Layout`, `RenameSearch` and `ReadDex`.
2. Next: registers (`Instructions`: setting a field leaves the others alone) and the refinement of
   `RegisterList`, apart from the modules with recursive operators.
3. `MembersDelivered` for all files, with the invariant of `ReadDex_proofs` and what the stores of a directory leave
   in the tables.
