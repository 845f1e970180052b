# A TLA+ verification project for jevmachopp

jevmachopp is a C++20 library and a set of tools around Apple Silicon machines:
lock-free ring buffers, a Mach-O reader with a call finder, readers and patchers
for Apple's flattened device tree and NVRAM data, a loader that prepares an XNU
kernelcache for m1n1, a read-only APFS driver for U-Boot and a catalogue search.
This directory models the parts that keep state, share it between threads, change
it in steps that can fail, or compute something a test hardly reaches. TLC checks
the models on small instances; for every component, TLAPS proves the safety
properties for every value of the constants.

Paths below are relative to `src/`. `PROJECT.json` maps every definition to the
lines it stands for and lists the runs, mutants, findings, hazards and theorems.

## 1. Inventory

| Component | Code | State | Operations | What makes it hard | Module |
|---|---|---|---|---|---|
| `MultiConsRingBuffer` | `include/jevmachopp/RingBuffer.h`, `tools/jev-ringbuf`, `test/unit-catch2/RingBufferTest.cpp` | atomic `rd`, plain `wr`, `done`, slots | `emplace`/`push`, `pop`, `finish`, `clear`, the loops around them | a slot is copied before the compare-and-swap that claims it; plain stores read by other threads | `SpmcRing` |
| `RingBuffer` | same | plain `rd`, `wr`, `done`, slots | `push`, `emplace_multiple`, `pop`, `finish`, `clear` | indices advance before the data exists or is copied; bulk copies across the mirror | `SpscRing`, `RingObject` |
| `MultiProdRingBuffer`, `MultiProdConsRingBuffer` | same | atomic `rd`/`wr`, slots | `emplace`, both `pop`s | the slot is written before it is claimed | `MpRing` |
| ring memory | same | file descriptor, two mappings | constructor, destructor, on Linux and on Apple's systems | several system calls per try, any may fail; work inside `assert()` | `RingMap`, `RingObject` |
| SearchFS | `lib/jevmachopp/SearchFS.cpp` | page of results, search options, task queue, `num_files` | `files_larger_than`, `process_file` | threads, retries, an unsynchronised counter | `SearchFS` |
| U-Boot APFS driver | `lib/jevmachopp/UBootAPFS.cpp` | one global context, directory streams | probe, close, opendir, readdir, closedir, exists, the command | calls in any order, failing probes, streams that outlive the context | `UBootAPFS` |
| jev-apfs-dump | `tools/jev-apfs-dump` | the record filled at each component | volume search, directory lookup | every call asserted; a lookup of its own beside the driver's | `ApfsDump` |
| Apple device tree | `lib/jevmachopp/DeviceTree.cpp`, `.h` | the flattened tree, patched in place | walks, lookups, `processPatch(es)` | a write of one patch is what the next walk reads | `DeviceTree` |
| numbers in patches | `Hex.h`, `Hex.cpp` | none | `sv2int` | digits that are too many wrap in one base and fail in the other | `Hex` |
| jev-dtree-dump | `tools/jev-dtree-dump` | the tree, three groups of patches | dump, `-P`, `-m`, NVRAM | patches that fail in the middle of a list | `DTreeDump`, `DumpTools` |
| NVRAM proxy data | `lib/jevmachopp/NVRAM.cpp`, `PackedCStr.h`, `DelimitedCStr.h` | two partitions of packed texts | walk, look up, split into words | empty and full partitions, missing variables | `Nvram`, `NvramDump` |
| NVRAM escape coding | `lib/jevmachopp/NVRAM.cpp` | input and output buffers | `escapeDataToData`, `decodedDataLen`, `unescapeBytesToData` | run lengths, two buffer sizes, a terminator that some calls count | `NvramCoding` |
| XNUBoot, jev-xnu-load and the m1n1 stub | `lib/jevmachopp/XNUBoot.cpp`, `tools/jev-xnu-load`, `m1n1.cpp` | memory behind the payload, the memory map in the tree, the stub's registers, the reset addresses | `load_and_prep_xnu_kernelcache`, `xnu_jump_stub` | early returns between side effects, names rewritten under a lazy view, copies that overlap | `XNUBoot` |
| Mach-O reader | `MachO.cpp`, the command files, `NList.cpp`, `Ranges.h` | none (a mapped file) | walk commands, build index maps | sizes taken from the file, indices from 0 and from 1 | `MachOFile` |
| function starts | `FunctionStarts*`, `LEB128.*` | an iterator over the bytes | both directions, partial sums, search | LEB128 read backwards, exclusive sums | `FunctionStarts` |
| jev-macho-dump, call finder, ARM64 decoder | `tools/jev-macho-*`, `CallFinder.cpp`, `ARM64Disasm.cpp` | the iterator, the lists being printed, the scan | `dump_macho`, `findCallsTo` | the walk meets its end exactly or not at all; file offsets used as indices; bit fields | `MachOTools` |
| versions, other load commands, call stubs, system call shims, unwinder, platform glue, `Slurp`, experiments | `Version.cpp`, `MuslSyscalls.cpp` and others | none of their own | format, forward, print, map a file | nothing a model tells apart | not modelled |

How they interact. XNUBoot walks the device tree, reads the kernelcache through
the Mach-O reader, takes patches from NVRAM data inside the tree, patches the
tree and leaves the stub's arguments in `next_stage` for m1n1; jev-xnu-load puts
the files in memory that iBoot would. jev-dtree-dump drives the same tree
functions and finds the NVRAM data in the tree, jev-nvram-dump reads them from a
file. U-Boot calls the APFS driver, which calls ApfsLib, as jev-apfs-dump does.
The call finder goes through the load commands, the symbol tables and the function
starts of one file. SearchFS calls searchfs(2) and a thread pool. The ring buffers
stand alone; their threads share only the ring. ApfsLib, U-Boot, searchfs(2), the
thread pool, m1n1, the forward LEB128 decoder and the kernel's `mmap` and
`vm_remap` are not in the repository; they are modelled by how the code uses them
and marked external.

What makes each part correct, and where it is stated:

- single-producer ring: every pushed element is popped exactly once and in order,
  nothing is lost when the ring is cleared and reused, no thread spins for ever
  (`WindowIntact`, `InFlight`, `CasValid`, `IsSorted`, `AllPopped`,
  `ImplementsQueue`, `Terminates`);
- plain ring: FIFO within one thread; the spare cell protects a pop under way
  (`PopsInOrder`, `CopyProtected`);
- multi-producer rings: counts survive every lost race, nothing unwritten is popped
  (`NoOverrun`, `NothingUnwritten`, `CountPreserved`, `EveryValuePopped`,
  `AllPushesReturn`);
- ring memory: constructed means mapped, and nothing leaks (`ReadyIsMapped`,
  `FilesClosed`, `DestroyedIsUnmapped`, `ConstructionEnds`);
- SearchFS: each match processed once before the function returns
  (`EveryMatchProcessed`, `CountIsBounded`, `Returns`);
- APFS: an open context can be used; a stream lists one directory, of the partition
  it was opened on and of the right volume, and ends behind its last entry; the dump
  finds what the driver finds (`OpenedIsReady`, `ReaddirIsWhole`, `ListsItsVolume`,
  `LookupsAgree`);
- device tree and NVRAM: a patch takes effect, a failing one does not stop the list,
  damage is confined, every lookup stays in its partition and decoding undoes
  encoding (`PatchTakesEffect`, `GoodMeansAll`, `DamageIsBehindPatch`,
  `ReadsItsPartition`, `CodingRoundTrips`);
- XNUBoot: returning early is harmless, the stub ends, the final memory map tells
  the truth (`BailingOutIsHarmless`, `StubEnds`, `MapIsTrue`);
- Mach-O: the walk ends and misses nothing, indices meet what they count, and the
  call finder reports the calls, their functions and their arguments (`DumpEnds`,
  `ListsTheCommands`, `UndefFromItsLibrary`, `FindsCalls`,
  `FunctionStartIsGreatest`, `ArgumentIsLastWrite`).

Not modelled, and why. Version numbers are three bit fields that only formatting
reads; the other load commands are records with accessors. Call stubs and control
registers are assembly. The system call shims print, allocate or fail. The
unwinder, the platform glue and `Slurp` are process start-up and pure I/O; the
range experiments are used by no program. Of modelled components these are left
out: formatting and printing; accessors nobody calls (section names one by one,
strings, local and external symbols); fat files; the fake block device's
functions, which only ApfsLib calls; the text form of a device tree; options and
file mapping of jev-xnu-load; cache maintenance.

## 2. The modules and the code

### Ring buffers

`RingIndex` holds the arithmetic of all rings: raw 64-bit counters, a mask over the
doubled range (buffer and mirror), the physical cell an index means, `Full`,
`Empty`, `Size`, `Remaining`. One cell always stays empty. Counters are unbounded
integers: their wrap after 2^64 pushes is left out.

`FifoQueue` is the abstract specification: a bounded first-in first-out queue that
one producer closes. `SpmcRing` implements it with the refinement mapping
`Contents` (the cells from `rd` to `wr`); a push happens when the new `wr` is
visible, a take when the compare-and-swap succeeds.

`SpmcRing` splits `emplace` into the issue of its two plain stores (`Emplace`) and
their becoming visible (`LandSlot`, `LandIdx`), and `pop` into the load of the index
pair, the copy and the compare-and-swap. The constant `Ordered` decides whether
plain stores become visible in program order (x86-64) or in any (AArch64). A push
waits until the stores of the one before are visible; on AArch64 this leaves
behaviours out, so what holds with `Ordered = FALSE` is not claimed for AArch64,
while what fails there does fail. The 16-byte load of the index pair is taken as
atomic. The consumer loop is the one of the test and of the tool: `is_done()` and
`empty()` are two steps. `Restart` is the tool's `clear()` and next round.

`SpscRing` has the two halves of the plain `push` and `pop` as steps, and bulk
pushes of any length that fits; `threads` says whether producer and consumer are
one thread or two. Nothing in the code makes the plain ring safe for two threads:
the value may be popped before it is constructed. `PopsInOrder` is therefore
stated for one thread, and `CopyProtected` for both.

`RingMap` is the constructor and destructor, with every system call able to fail,
with and without `NDEBUG`, with descriptor 0 free or not. On Linux a try is
`memfd_create`, `ftruncate` and two `mmap`s; on Apple's systems one `mmap` of twice
the size, a `munmap` of its second half and a `vm_remap` into the hole, and a
`vm_remap` that fails ends the construction instead of trying again. On Apple's
systems a failed `mmap` is not null, so a pointer may be `"failed"`. In a release
build the `munmap` calls inside `assert()` vanish, and so do the last checks: a ring
may be constructed without memory.

`RingObject` is the life of one ring: `RingMap`'s construction, any use `SpscRing`
allows in between, and destruction when no operation is under way. Using a ring
whose pointers are null ends the program.

`MpRing` models both multi-producer classes; the class and the number of threads are
chosen initially. A producer that loses the swap has already overwritten the slot,
possibly the winner's published value, so with two producers only counts are right:
`EveryValuePopped` says so by asking for one producer.

### SearchFS and APFS

`SearchFS` models the paging loop with its options, the pool's queue, and the
load and store of `++num_files` as two steps.

`UBootAPFS` models the context, path lookup as the code does it (a path below a
volume loses its first component, because the rest is split as if it had a leading
slash) and streams with their index. Each partition holds a container of its own, and
volumes of two of them may have one name. A stream takes its nodes at opendir and is
read to its end later, with the context closed or on another partition by then;
`ReaddirIsWhole` says that what readdir returned is the beginning of the directory on
the partition of opendir (`seen` remembers it), and all of it once it has said
-ENOENT. A probe on an open context constructs a second container over the first;
`OpenedIsReady` is stated for histories without one. If that one fails to initialise
the context stays open with it; what opendir finds in it is not known (nothing, no
directory, or the partition's), and properties of streams leave it out.
`ApfsDump` adds the dump program: it walks the volumes to the preboot one and looks
a directory up component by component from the root's inode, with every library
call able to fail its assertion. Only one of the two programs runs; they share the
containers, and `LookupsAgree` compares the dump's record with the driver's lookup.

### Device tree and NVRAM

`DeviceTree` has no variables. A tree is the sequence of its nodes in buffer order.
`Children` is what the iterator visits: the next `nchildren` nodes in preorder,
grandchildren included, and `LookupNode` looks up every component among the
children of the starting node, as the code does. A patch of a four-byte property
writes eight bytes: it takes the name of the next property, or, when it is the
node's last, the property count of the next node (which is then `torn`). What a walk
finds beyond a torn node is undefined; such a lookup either fails or ends the
program. Values are integers; `Word4` scales the four bytes of a word (see the
bounds). `propertiesNamedWithPrefix` captures its parameter by reference and is
evaluated after it is gone; the model reads the prefix that was passed. `IsTree` and
`HasProxyData` say what a tree in memory is: nodes whose children lie behind them,
properties with a size of their own, and proxy data that are in one place, no
integer, and texts as the system writes them.

`Hex` is `sv2int`: hexadecimal digits go into the integer's bytes from the last one
on and too many are refused, decimal ones are accumulated modulo the integer's size.
Its loops are recursive functions; `Denotes` is the number a text stands for, in one
base or the other, with which `PatchTakesEffect` compares what a patch has set.

`Nvram` is the proxy data as the sequence of its texts, each a name and the words
of its value. A partition's header is three texts when it is read as text. The
iterator looks for the empty text that ends the variables only BEHIND the first
one, so that an empty partition has one (empty) variable and a full one runs into
the header behind it. `IsPartition` says what the system writes: the variables are
packed, zeros follow if there is room, and none lies between a partition's end and the
next empty text. A variable that is not there is a null pointer. `NvramDump` is
jev-nvram-dump: its listings, then its lookups of the boot arguments, where a null
pointer is an exception nobody catches.

`DTreeDump` is jev-dtree-dump, one patch per step; its last group comes from the
NVRAM data in the tree. `PatchTakesEffect` is about single steps: what a patch has
set is found again by the path that led to it. It exempts the patches that cut their
own path (`CutsPath`): those that overwrite a node's name or tear a node on the way.
 `NvramCoding` has a client that encodes data and decodes
them in rounds, with buffers of both sizes the assertions allow and with the
terminating 0 inside the span or not; the repository's only call of the coding is
disabled. A byte is a number below `2 * UPPER`; `UPPER` (128 in the code) is the
bit that tells a run of 0xFF from one of 0. `DumpTools` composes the three over
one device tree library: one of them runs.

### Booting

`XNUBoot` has one action per part of `load_and_prep_xnu_kernelcache`, one per round
of its two loops over the memory map (`turn`), and one per round of the stub. The
addresses it has computed so far are in `locals`. Its memory is an array of 8-byte
units which the files that jev-xnu-load (or iBoot) has put in their places fill at
the beginning (`Loaded`: of two files in one place the later one is there). The
CPUs' reset addresses are written for all but the first CPU, as a map from registers
to the entry's page. `HasRoom` says that the places the memory map names hold the
image before and after the stub has moved it, and SEPFW and the boot arguments.
Printing and cache maintenance are left out.

### Mach-O

`MachOFile` has the views of a file without state: a file is the header's size of
the load commands, the command at each offset and the words of the image. The range
of the commands ends where the iterator EQUALS the end, so a command that steps
over it leads astray. `segmentNamesMap` and `dylibNamesMap` are indexed from 0, as
the arrays are, while section numbers count from 1 and library ordinals count
re-exported libraries that the map leaves out.

`FunctionStarts` is the LEB128 iterator in both directions, the exclusive partial
sums over it and the search for the start of a function. A step back asserts that as
many bytes precede as the FOLLOWING number has (`LEB128.h:59`), and a step forward that
the data does not end within a number (`LEB128.h:97`): then the search is `Aborted`
(`PrevAborts`, `BreaksOff`), and the program ends at the call it was made for, in phase
"no start". `FunctionStartIsGreatest` says what such data is like (`HasOverlong`).

`MachOTools` composes both into the two programs: the dump, one line per step, and
the call finder, which prints the symbol it has found, asserts what it needs,
computes the stub's address from the index in the indirect table and scans `__TEXT`,
one instruction per step. Printing (`CallFinder.cpp:32`) asserts a good magic number
and an undefined symbol and formats the library's name, which is null if the map has
none and read from in front of the array for ordinal 0: `PrintAborts` and
`PrintsSymbol` say when the program may end there and when it may go on. An entry of
the indirect table beyond the symbol table is read unchecked (`MachO.h:122`): the
search or the dump that meets it ends in phase "stray", where it may crash.
Addresses and offsets count words of an instruction. The shift of a wide immediate
in an `int` is a choice over what builds produce. Next to what the programs read, a
file says how it was linked (`functions`, `libraries`, `ncmds`, the stub section's
reserved fields); only the properties look at that. `ListsTheCommands` says line by
line what the dump of a well-formed file is. `FindsCalls` and `ArgumentIsLastWrite`
say what happens on either side of what the code silently relies on. When entries
precede the section's own in the indirect table, the calls reported are those of the
stub as many further on; when `__TEXT` does not begin the file, the arguments come
from instructions as far behind the function; MOVK and MOVN are reported as MOVZ,
and a MOVZ of the high half as one of the low half or of 0. Left as a premise are
stubs of 16 bytes, the length the code takes for granted; and `FindsCalls` also says
that a symbol that is only defined is never reported as found. The instance has
files on either side of each.

## 3. Runs

| Run | Instance | What it shows |
|---|---|---|
| `Spmc` | N = 4 (capacity 3), 2 consumers, 9 pushes, 2 rounds, ordered stores | all safety properties, refinement of `FifoQueue`, termination |
| `SpmcWeakOrder` | same ring, 2 pushes, any order of stores | violation of `IsSorted`: a stale slot is popped |
| `RingObject` | N = 4, 9 pushes, 2 rounds, one or two threads, 2 tries, both systems, both builds | FIFO in one thread, spare cell, every failure of every system call, construction ends |
| `SpscStray` | same | violation of `CopyInMapping`: a bulk push that starts in the mirror leaves the mapping |
| `Mp` | N = 2 (capacity 1), up to 2 producers and 2 consumers, 4 values | counts, no overrun, progress |
| `SearchFS` | 5 matches in pages of 2, 1 or 2 threads, 1 early end | every match once, the racy counter, return |
| `SearchFSError` | 2 matches | violation of `OnlyAgainGoesOn`: an error such as EIO passes for an answer |
| `Apfs` | 2 partitions with 3 volumes, two of one name, 3 assignments of roles, 11 paths, 9 directories to dump, 2 streams, 3 containers | any order of the driver's calls; the dump's lookup |
| `DumpTools` | 4 trees, 12 patches, lists of at most 2, 30 NVRAM images, data of at most 4 bytes below 8 | lists, effect and damage of patches; partitions; the escape coding |
| `DTreePatch` | same | violation of `PatchKeepsShape` |
| `XNUBoot` | layouts, memory maps, kernelcaches, patch lists, CPUs and flags on either side of every test of the function | early returns, stub, final map |
| `MachO` | about 2000 files, 5 names: code with every mix of two calls, constants and function starts in three stub layouts, `__TEXT` at offset 0 or 3 and two libraries; load commands in several orders, missing or malformed; indirect tables whose symbols cannot be printed or do not exist | the walk and the lists of the dump; calls, functions and arguments of the call finder |

Why the bounds suffice. Nine pushes on four cells run through the buffer,
through the mirror and wrap to the start, so every pair of index and cell occurs;
two rounds cover `clear`. Capacity 1 makes the multi-producer ring full and empty at
every step, where its races are; two producers and two consumers give every lost
race. The code tries 16 mappings; a try depends only on the object and the
descriptors left by the one before, so 2 tries show what 16 would. Five matches give
full pages and a partial one. Two streams and three containers cover a stream open
over close and a probe of the other partition, whose directories have other entries
in another order at the same paths. Lists of two patches cover a patch before and after every
other, and each group works on what the one before it left. TLC's integers have 32
bits, so the value of a four-byte property is kept in `Word4 = 1` byte and that of an
eight-byte one in two: digits that overflow occur, and the eight-byte write still
covers two words. With `UPPER = 4` the longest run a count can hold is 3, so data of
4 bytes have runs that are too long. `Base = 4`, `BlBits = 6` and `Half = 4` scale
LEB128 digits, branch offsets and immediates down with the files: numbers of two
bytes, negative offsets and shifts beyond 32 bits (two Halfs) all occur, and so does a
first start of one byte before a second of two, on which the step back aborts. The
symbols `_a` and `_b` are in the two libraries; `_self` has ordinal 0, `_flat` one that
the map does not have, and `local` is defined: printing each of these may end the
program.
`BlDistance = 32` is beyond every `__TEXT` here, as 128 MiB is in practice. `MaxLines`
is never reached.

`CHECK_DEADLOCK FALSE` stands where the system really stops: `RingObject` when the
object is gone or the program has crashed, `SearchFS` when the function has
returned, and `Apfs`, `DumpTools`, `XNUBoot` and `MachO` when the work is done or an
assertion has ended the program. In `Spmc` and `Mp` the end is an explicit
stuttering step and deadlock is checked.

Fairness. In `SpmcRing` and `MpRing` each thread is weakly fair: the operating
system runs every thread that can run, and an issued store becomes visible. No
strong fairness is needed: a consumer that loses a compare-and-swap does so because
another one has succeeded, and the number of elements is finite. `Restart` is the
main thread. In `SearchFS` the main thread and each pool thread are weakly fair, and
`Returns` excludes volumes with a permanent error. The constructor of `RingObject`
and the dump of `MachOTools` are sequential code that waits for nothing: weakly fair
as a whole. Nothing else is assumed to go on.

Every property of a passing run has a mutant in `PROJECT.json`: a plausible bug in one
mapped definition, written next to it, under which TLC finds the property violated.

## 4. Findings

* `SpmcWeakOrder`: `emplace` publishes the index with a plain store after a plain
  store of the value (`RingBuffer.h:88`). When they become visible the other way
  round, a consumer pops a stale slot. `AllPopped` fails in the same way. On x86-64
  stores stay in order and every property holds.
* `SpscStray`: `emplace_multiple` asserts only that the span fits, but copies to an
  address in the doubled range, so a span may run past the mirror (`RingBuffer.h:131`).
* `SearchFSError`: `errno != EAGAIN || errno != EBUSY` is always true, so the loop goes
  on with any error, for ever if it is permanent (`SearchFS.cpp:116`).
* `DTreePatch`: a four-byte property is assigned through a `uint64_t` reference
  (`DeviceTree.cpp:268`).

Seen while modelling, without a run of their own:

* rings: a release build leaks both mappings (`RingBuffer.h:394`); two producers may
  lose a value (`RingBuffer.h:113`); nothing aligns the index pair to the 16 bytes
  its atomic load asks for (`RingBuffer.h:76`);
* XNUBoot: the comment at `XNUBoot.cpp:200` calls the new SEPFW address wrong, but
  `MapIsTrue` shows it is where the stub moves SEPFW to; the entry address is right
  only if the segments lie in memory as in the file, which the function does not
  test (`XNUBoot.cpp:121`); too few reserved regions for the segments dereference
  the end of a view (`XNUBoot.cpp:185`); SEPFW or boot arguments whose size is not a
  multiple of 16 make the stub run away (`m1n1.cpp:86`);
* tree and NVRAM: `children()` takes grandchildren for siblings
  (`DeviceTree.h:167`); more than `MAX_CPUS` registers overflow a vector
  (`DeviceTree.cpp:235`); the filter of `propertiesNamedWithPrefix` outlives what it
  captured (`DeviceTree.h:212`); jev-nvram-dump ends in an exception when a
  partition has no boot arguments (`NVRAM.cpp:288`); decoding reads as far as the
  DECODED length says (`NVRAM.cpp:210`);
* Mach-O: a defined symbol in the last section of a segment is looked up in the next
  segment (`NList.cpp:27`); re-exported libraries shift the names of those behind
  them (`NList.cpp:23`), and the call finder aborts when it prints a symbol whose
  library they have pushed out of the map (`CallFinder.cpp:32`); a step back over
  function starts asserts the wrong number's length (`LEB128.h:59`); MOVN and MOVK
  are reported as if they were MOVZ (`ARM64Disasm.cpp:48`);
* elsewhere: the masks of a packed version keep one bit too many (`Version.cpp:24`);
  a failed `mmap` is never noticed (`Slurp.cpp:28`).

## 5. Proofs

The theorems hold for every value of the constants that the named assumptions
allow: thread sets are finite and not empty, sizes are natural numbers (of a
ring, of a page of results and of the mapping tries, positive ones), containers,
trees, patches and files have the types of the data they stand for. Some
assumptions say more:

* a device tree is well formed (`IsTree`); its proxy data are in one place, no
  integer of 4 or 8 bytes (they are 8 KiB), so that no patch hits the texts it was
  taken from, and their partitions are as the system writes them (`HasProxyData`,
  `IsProxyData`; the latter also of the file that jev-nvram-dump reads);
* what iBoot leaves is whole (`XNUBootAssumption`): registers hold numbers, the
  kernelcache occupies memory, and there is memory wherever the image, SEPFW and the
  boot arguments are and will be; each file is where the memory map says, the
  kernel begins in one of its segments, regions are in the memory map only, SEPFW and
  the boot arguments once, and no two segments' regions have one name
  (`iBootAssumption`). Texts are opaque to the provers, so it also says which of the
  names the function puts together and looks for begin with `Kernel-` and which with
  `MemoryMapReserved-` (`NamesAreApart`), as TLC evaluates it for the run's names;
* a Mach-O file whose load commands fill their table counts them and has symbols
  within their table (`IsCounted`), and its fields are numbers, the words of `__TEXT`
  are in the file, and what the specification says of how it was linked is what the
  file says (`IsLinked`, and `SaysWhere` for the function starts). Nothing is assumed
  of other files.

Each theorem about a component follows from one inductive invariant; the proof goes
by action, and under each action by the conjuncts it can disturb.

`BasicLemmas` has what the others share: division and remainders, the least and the
greatest number of a set, induction, folds and recursion. `Induction` is stated over
a SET of numbers that contains 0 and every successor, and follows from the least
number outside it; `FoldExists` and `RecursionExists` build by it the function that a
fold of a sequence or a recursive definition chooses. What such a definition computes
for data of ANY length is proved from these.

`SpmcRingProofs`, for both orders of the stores: `TypeCorrect`. With ordered ones:
`InductiveInvariant` and, from it, `WindowAlwaysIntact`, `CasAlwaysValid`,
`AlwaysInFlight`, `AlwaysSorted`, `AlwaysPoppedOnce`, `AlwaysAllPopped` and the
refinement `RingImplementsQueue`. Any N consecutive raw indices have different cells
(`CellInjective`): why the mirror must be a multiple of the size and one spare cell
is enough. `WindowIntact` alone is not inductive: storing a value must not hit a live
cell, which needs `PushInFlight` (the slot being written is at `wr`, and the ring was
not full), and publishing the index needs the value to have arrived. `CasValid` needs
`PopInFlight` (the index read is at most `rd`), since the copied slot may be reused
exactly when `rd` has moved. `IsSorted` needs `PoppedOnce`, that what was popped so
far is `1 .. rd`, and `AllPopped` follows from `PoppedOnce` and the consumers' exit
condition. The refinement maps `Contents` to the run `rd + 1 .. wr`; `LandIdx` is a
push, a successful `PopCas` a take, and every other step stutters.

`RingObjectProofs`: `ObjectInvariant` for any number of tries, both systems and both
builds, and from it `AlwaysReadyIsMapped`, `AlwaysFilesClosed` and
`AlwaysDestroyedIsUnmapped`. `MapInv` says which calls of the CURRENT try have
succeeded at each step, so that a try that fails leaves neither a descriptor nor
(with assertions) a mapping behind. `AlwaysCopyProtected` needs only where the
indices of operations under way are (`PushFits`, `PopFits`). `AlwaysPopsInOrder` needs
`OneThread`: the cells from the first index not taken to the last one written hold
what was pushed, where both indices run ahead of the data in the middle of an
operation; a bulk push extends this by any length that fits.

`MpRingProofs`: `MpInvariant` for both classes and any finite number of threads, and
from it `AlwaysNoOverrun`, `AlwaysNothingUnwritten`, `AlwaysCountPreserved` and
`AlwaysEveryValuePopped`. A swap that succeeds proves that `wr` has not moved since
the producer found room, and `rd` has only grown (`Indices`). A slot is written before
`wr` passes it, by whichever producer, and never becomes fresh again (`SlotsWritten`).
Counts are cardinalities: the pushes that returned number `wr` and the pops number
`rd` (`Counted`), and a finite sum of the producers' quotas gives `CountPreserved`.
Only with one producer does the window hold its values in order (`OneProducer`).

`SearchFSProofs`: `SearchInvariant` for any number of matches, size of page and
number of threads, and from it `AlwaysEveryMatchProcessed` and
`AlwaysCountIsBounded`. `Pages` says that the queue and the rest of the page are the
consecutive matches from the first one not taken; `Tasks`, that a match before it is
in the hands of one thread or has been visited once; `Counts`, that neither the
counter nor any copy of it that a thread has loaded exceeds the matches counted,
which bounds the racy counter from both sides and makes it exact with one thread.

`ApfsProofs`: `ApfsInvariant` for every set of partitions with their containers, set
of paths and number of streams, and from it `AlwaysOpenedIsReady`,
`AlwaysReaddirIsWhole`, `AlwaysListsItsVolume` and `AlwaysLookupsAgree`. `SeenInv`
says that the index counts what was returned, and that a stream's nodes are still
the directory on the partition that was probed when it was opened (`IsListOf`). The
last two are about path lookup: every component that is found is a child of the one
before it, so that the lookup stays in its volume (`LookupStaysInVolume`, by
induction over the path), and the dump, one component per step, has found what the
driver's walk of the same prefix finds.

`DumpToolsProofs`, the tree: `TreeInvariant` for every well-formed tree and list of
patches, and from it `AlwaysGoodMeansAll` and `AlwaysDamageIsBehindPatch`. The
invariant must know the shape of the tree in memory (the nodes and sizes that were
read, a name that is old or lost) and that only integers are ever patched, since the
next lookup walks what the last patch left.

`AlwaysPatchTakesEffect`, an action property, has two halves. The value:
`Sv2intDenotes`, by induction over the digits. A decimal number is the remainder of
what the text denotes (`AccumulatedWraps`); after i hexadecimal digits the bytes hold
the last i of them, two to a byte and the latest alone in the low half of its byte if
i is odd (`HelperBytes`), and such bytes add up to what the text denotes
(`BytesDenote`). The path: a component leads to the first of the root's walked
children that has the name, with no torn node up to it (`ChildLeads`); a path leads
somewhere exactly when every component does, and then where its last one leads
(`LookupGoes`, because the code looks every component up at the root). A patch leaves
every name on the way alone unless it cuts the path (`PatchIsFound`).

The coding: `EscapeEncodes`, `DecodedLength` and `AlwaysCodingRoundTrips`, for data
of any length and any `UPPER`. `IsCode` describes encoded bytes by the set of offsets
where a code begins and by how much of the data lies before each; the encoder's fold
preserves it byte by byte, with the run that has not been written yet;
`decodedDataLen` adds the lengths up from the end, by induction; and the decoder stays
on those offsets and ends at the length of the data.

The NVRAM: `AlwaysReadsItsPartition`, for all partitions, trees and patches. The
iterator visits a stretch of places up to the first empty text behind the first one
(`Stretch`); in a partition as the system writes it, every variable in there is the
partition's own (`PartVarsStretch`), so that the first of a name is the first it owns
(`VarNamedIsOwn`). Patches keep the proxy data where they are, since what they write
lies in integers and right behind them (`ProxyDataAreKept`).

`MachOProofs`, the dump: `DumpIsWhole`, that in every state what has been printed
followed by what the lists under way still hold is the whole dump (`DumpInv`), which
gives `DumpListsTheCommands` when nothing is left. The list of load commands is a
recursion over offsets that ends because commands have sizes (`WalkExists`,
`PlacesAre`). `LibrariesAreRight`: the index map with the re-exported libraries left
out names what the file's own list names when there are none (`WithoutType`,
`LibrariesAre`).

The call finder: `CallsAreReported`, that only a symbol that is found and printed is
scanned for, and that the reports are exactly those of the calls below the instruction
being scanned (`CallInv`); and `CallsAreFound`, because the stub that is looked for is
the one bound to the symbol, or as many behind it as entries precede the section's
(`StubIsBound`), in files of 16-byte stubs whose first section is `__TEXT`'s.
`StartIsGreatest`: a LEB128 list is cut into numbers in the same way from both ends
(`PositionsAre`, `NumberBefore`), its exclusive sums grow (`SumsGrow`), and the search
meets the greatest that is not beyond the call (`FunctionStartIs`) unless an assertion
fails, which takes a number longer than all before it together.
`ArgumentIsWhatTheCallGets`: reading back from the call meets the last write of the
register before any other (`ArgumentIs`), in whichever instructions the file offset
selects.

XNUBoot: `BootInvariant` for every kernelcache, tree and layout of memory, and from it
`AlwaysBailingOutIsHarmless` and `AlwaysStubEnds`. While the function can still give
up the tree is the old one and only SEPFW has been copied, and what was found lies
where the old tree says (`Placed`); the stub has moved two registers per round, so
that an even number of units meets zero (`Pairs`). `AlwaysImageIsMoved` is what
`MapIsTrue` says of memory: whatever else has happened to the tree, the stub leaves
the payload, SEPFW and the boot arguments as iBoot left them, where the kernel is
entered. `ImageInv` follows each unit of the image from its source through the place
behind the payload to where the stub moves it, and `LayoutIsSound` is what keeps a
source from being overwritten before it is copied.

`AlwaysMapIsTrue` adds the memory map, by `MapInv`. While the map is rewritten
(`Rewritten`), nothing but names and values of the kernel's regions has changed, so
that it stays where it was (`SameMap`); the first loop leaves no region with a name of
the kernel's behind it but the header's (`Reserving`), although it renames the region
its view stands on; so every region with a segment's name has been written for that
segment (`SegmentMap`), and SEPFW and the boot arguments follow (`RegsMap`). A patch may
lead anywhere, cut paths and cost the next property its name, but it applies to
integers of 4 or 8 bytes only, so that a property that still has a region's name is
still that region (`PatchesKeepRegions`): it says where the stub has moved what its
name says (`FilesAreMoved`). What `LayoutIsSound` asks for is a premise, as in the
property, and so is that the map is still found after the patches.

Only model-checked: liveness (`Terminates`, `AllPushesReturn`, `Returns`,
`ConstructionEnds`, `DumpEnds` and the fairness part of the refinement), since the
prover does not reason about fairness and `ENABLED`.

## 6. Plan

Done: all modules of section 2, and every safety property of section 3 as a theorem.
Left, outside the prover's reach today: liveness.
