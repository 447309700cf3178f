# A verification development for LowLevelProjects

The repository is a collection of six small systems programs in C, C++ and x86-64
assembly. They share no code and do not call one another. This directory holds
TLA+ models of them, TLC configurations that check the models on small
instances, and TLAPS proofs for every value of the constants.

## Inventory

Paths are relative to the repository root. Vendored and generated code
(`shell-and-loder/build`, `elf64-loader/cmake-build-debug`, the testers) is not
modelled. `memory-allocator/docs/malloc-impl.c` is the malloc of the GNU C
library, kept beside the small allocator as its reference; it is by far the
largest program here and is modelled.

| Part | State | Operations | What is hard | What makes it correct |
|---|---|---|---|---|
| `memory-allocator` (`src/mem.c`) | block headers linked inside mmapped regions | `heap_init`, `_malloc`, `_free`, `heap_term` | regions land anywhere; headers rewritten in place; size_t wraps; regions are not recorded | blocks never overlap or get lost, a live object keeps its block, the heap grows only when it must, `heap_term` unmaps exactly what was mapped |
| `memory-allocator/docs/malloc-impl.c` (ptmalloc) | chunks with boundary tags, `top`, fastbins, small, large and unsorted bins, the threads' caches, mappings, statistics | `malloc`, `free`, `realloc`, `calloc`, `memalign`, `valloc`, `pvalloc`, `malloc_trim`, `mallopt`, the end of a thread | sizes, feet and bits of neighbours written by hand; sbrk and mmap that fail, a break moved by others; `free` pushes on a fastbin without the lock | its own checks never fail; no word or chunk is lost or in two places; objects keep words and data; the bins behave as stacks between threads |
| `io-cache` (`source/monolith/app/cache/Cache.cpp`) | vector of cached blocks, size counter, mutex; kernel offset per descriptor | `lab2_open/close/read/write/lseek/fsync` | threads between the lock and `close`/`fsync`; failing write-back; eviction at random; positions at end of file | a read returns what was written, an acknowledged write reaches the disk, no block outlives its descriptor |
| `shell-and-loder` (`source/monolith/app/shell`, `source/loaders`) | current directory, running flag, command table; child processes; vectors shared by threads | `cd`, `ls`, `run`, `exit`; read, sort and combined load generators | vfork and wait; end of input; threads sorting one vector | a command runs once and its status is reported; the loop ends; a sort permutes its input |
| `elf64-loader` (`solution/src`) | file offset, mapped segments | read header, find section, map segments, jump | short files, unchecked statuses, page rounding, segments over one another | the segments of the file, and only they, are mapped before the jump |
| `image-rotation` (`solution/src`) | image in memory | `from_bmp`, `rotate`, `to_bmp` | padding, sizes taken from the header, error paths | four quarter turns are the identity; what is written can be read back |
| `asm-dictionary`, `asm-io-library` | a linked list of words in memory; registers | `find_word`, `read_word`, `parse_uint`, ... | list links, 8- and 64-bit arithmetic, buffer bounds | a key is found exactly when it is in the list; print and parse are inverse |

Inside each part the pieces interact as follows.

* **Allocator.** `_malloc` calls `memalloc`, which searches from the constant
  `HEAP_START` (`find_good_or_last`, merging on the way), splits or grows
  (`grow_heap` → `alloc_region` → `mmap`) and searches again. `_free` marks and
  merges once. `heap_term` walks the list and unmaps runs of contiguous blocks.
  Nothing is shared with other threads; the kernel's address space is shared
  with the rest of the program.
* **IO cache.** Every thread of a program calls `lab2_*`. Reads, writes, syncs
  and the first half of a close run under `cache.lock` and call
  `find_block`, `load_block` (`pread`), `add_block`, `evict_if_needed` and
  `delete_block` (`pwrite`). `lab2_open`, `lab2_lseek` and the `close(fd)` that
  ends `lab2_close` take no lock and meet the others in the kernel's descriptor
  table.
* **Shell.** `main` hands the commands to `CommandInvoker`, `Shell::run` prompts,
  reads and executes. `RunCommand` makes a child with `vfork` that runs in the
  shell's memory until it calls `execvp` or `_exit`; then the two meet only
  through `waitpid`.
* **ptmalloc.** `__libc_malloc` and its kin try the thread's cache and then call
  `_int_malloc`, which searches fastbins, small bins, the unsorted chunks (sorting
  them as it goes), large bins and `top`, calls `malloc_consolidate` and at last
  `sysmalloc`; `__libc_free` calls `munmap_chunk` or `_int_free`, which may trim
  (`systrim`). Threads meet in the arena: its lock, and the heads of the fastbins,
  which `_int_free` exchanges without it.
* **Image rotation.** `main` calls `validate`, `from_bmp`, `rotate_number` (which
  calls `rotate` once per turn) and `to_bmp` in a row; files are the only input.
* **ELF loader.** `main` calls `read_header`, `find_section`, `load_headers`
  (`memory_allocation` per segment) and `program_start` in a row over one file
  descriptor; the mapped memory is the only thing the last two share.
* **Assembly.** `_start` calls `.read_string`, `find_word`, `string_length` and
  `print_string`; the dictionary is static data chained by the macro `colon`.
* **Load generators.** Sequential, except `both/main.cpp`: half of its threads
  read a file, the other half sort the same vector.

## Modules

### The heap allocator

| Module | Contents |
|---|---|
| `HeapBlocks` | size arithmetic, headers, split and merge as operators on a heap: a function from header addresses to headers |
| `HeapAllocator` | the state machine and its properties |
| `HeapContract` | what malloc and free promise, without blocks |
| `HeapAllocatorMC` | values for TLC |
| `HeapAllocatorProofs` | the theorems |

State and code: `heap` is the linked list in memory (one entry per
`struct block_header`), `owned` the pages `mmap` gave the allocator, `foreign`
those of the rest of the program, `base` the result of `heap_init`, `held` the
objects the client has not freed. `pc`, `cur`, `query`, `grown`, `rstart`,
`rsize` are the locals of the running call. `HeapInit`, `Malloc`, `Free` and
`HeapTerm` are the calls; `_malloc`'s loop is `FindMerge` (line 156),
`FindGood` (157-158, with the split and the mark of 169-170), `FindNext`,
`FindLast`, `FindGiveUp`; `Grow` and `GrowFail` are `grow_heap`; `TermWalk` and
`TermUnmap` are one iteration of `heap_term`. `Wild` is a loop that reads a
header where the allocator never wrote one. The bytes of objects are left out,
as are transient failures of `mmap` at a free address (a failure of both
attempts is `GrowFail`).

Runs:

* `heap_safety` – header 1, page 4, smallest region 8 and smallest capacity 2
  units keep the code's proportions (a region is two pages, a fresh region can
  be split). With addresses below 28 there is room for the first region, one
  behind it and one below it, so regions are contiguous, apart, and out of
  address order; other mappings appear and vanish in each of the three places.
  The queries are raised to the minimum (0), split a region (3), need two
  regions (8) and wrap (`SizeMod - 1`).
  The run also checks that the loops end, under weak fairness of the steps of a
  call: a thread inside a function keeps running, and nothing obliges the client
  to call.

Proved, for all constants that satisfy `SizesAssumption` and `HeapAssumption`:
type correctness; blocks do not overlap and lie in the allocator's mappings;
used blocks are exactly the live objects' and fit them; every block is reachable
over a simple list; live objects are not moved; the allocator implements
`HeapContract`. The argument: `Inv` adds to these that links lead to blocks and
that no two lead to the same one, without which a merge could cut off a third
block. Reachability is stated without recursion: a set of blocks that contains
the first one and the successors of its members is the whole heap. Lemmas say
what a merge, a split, a link and a mark do to any heap; each action's lemma
combines them. During `heap_term` the list is no longer complete, and `Inv` keeps
only that the current run starts at a block.

Proved from the stronger `FullInv`: no byte of a region is lost (`NoByteLost`),
`grow_heap` is reached only when no free block serves and no two can be merged
(`GrowsOnlyWhenExhausted`), `heap_term` unmaps every page of every region
(`TermUnmapsAll`) and none of the rest of the program (`OthersKeepTheirPages`).
`heap_term` knows regions only from breaks in the list. That suffices because of
two facts that all operations keep: a block that does not touch its successor
ends on a page, and the successor begins on one (`Seams`); and the blocks walked
over since `rstart` are a contiguous piece of the list (`TermRun`), so that the
length given to `munmap` is a whole number of pages and rounding it up takes
nothing more. For the search, `SearchInv` keeps that nothing the search has
walked over could be merged or would serve (`Unfit`). Lemmas about multiples of
the page size carry the arithmetic.

Only model-checked: `CallReturns` (liveness). `TypeOK`, `BlocksInOwnedMemory`,
`ListIsSimple` and `HeldBlocksStable` are proved and no longer among the run's
properties.

### The IO cache

| Module | Contents |
|---|---|
| `IOCache` | the library, the kernel's files and descriptors, and the threads that call it; its properties |
| `FileContract` | what a file promises its readers and writers, without blocks or descriptors |
| `IOCacheMC` | values for TLC |
| `IOCacheProofs` | the theorems |

State and code: `blocks` and `size` are `cache.blocks` and `cache.size`, `leaked`
the blocks that were erased from the vector and not freed; `lock` and `call` are
the holder of `cache.lock` and the locals of its call (`at`, `left` for the loop,
`got` for the client's buffer); `fresh` is the block between `load_block` and
`add_block`; `closing` holds the descriptor between the unlock and `close(fd)` in
`lab2_close`. `disk`, `fdfile` and `pos` are the kernel's. A step is one
iteration of a loop under the lock: `Load`, `LoadAtEnd`, `LoadFails`, `Evict`,
`EvictFails`, `EvictNothing`, `AddBlock`, `ReadCopy`, `WriteCopy`, `Return` for
reads and writes, `SyncBlock`, `SyncFails`, `SyncDone` for `lab2_fsync`,
`CloseBlock`, `CloseFails`, `CloseUnlock`, `CloseFd` for `lab2_close`. `Open` and
`Lseek` happen at any time. The cells a block has beyond what `pread` returned
are `Junk`, as the buffer is never cleared. The victim of an eviction is any
block (`uniform_int_distribution`). What a client does beyond the careful use of
its own descriptors is named in `Liberties`, what the kernel may refuse in
`Faults`. An allocation failure is a failed load.

Runs:

* `cache_contract` – two threads, one file of three cells in blocks of two (the
  last block is half full), a cache of a single block, so every second access
  evicts; reads and writes of one cell and of three, which cross a block; all
  positions up to one behind the initial end, which writes can reach. Loads and
  write-backs of sync and close may fail. The library implements
  `FileContract`, syncs reach the disk, and the lock comes back. Fairness: a
  thread inside a call keeps running (weak fairness of `Step(t)`); nobody has to
  call.
* `cache_any_client` – two descriptors on one file, used while another thread
  closes them, reopened under the same number, positions behind the end, and
  every fault, short `pwrite`s included; capacity two. The bookkeeping holds all
  the same.
* `cache_read_past_end` – see Findings.

Proved, for any number of threads, files, descriptors and cells and any
liberties and faults: type correctness, no two blocks of one descriptor and
offset, and the meaning of the counter. These three are inductive together:
`size` stays within the capacity because each block in memory is counted, and
`add_block` finds no second block because `find_block` missed it and evictions
only remove. Proved for clients that do not use a descriptor while they close
it: no block outlives its descriptor. `DescriptorInv` adds that the running call
is on an open descriptor no thread is about to close, and that a descriptor about
to be closed has no blocks and one closer: that is what the unlock before
`close(fd)` needs. If evictions also write back without failing, nothing leaks
and `evict_if_needed` always finds a block.

Proved under `PlainUse` (no descriptor used while it is closed, no file open
twice, evictions write back in full; loads and the write-backs of syncs and closes
may fail): `SyncReachesDisk`. `FileInv` adds that blocks lie at multiples of
`BLOCK_SIZE` on cells of the file, so that blocks of one file do not overlap
(`BlocksApart`), that only the last one is not full, and that a clean block is
what the disk has. A write-back then changes no cell that another clean block
holds (`OthersSit`), wherever in the loop of `lab2_fsync` it happens.

Proved under `PlainFiles` (also, no seeks behind the end): the library implements
`FileContract`. `ViewInv` says what `Contents` is without its maximum and minimum:
the sequence that has the cells of every block and elsewhere those of the disk
(`Shows`); `PositionInv` that every descriptor and the running call are inside
their files. With these, loads, evictions, syncs and closes leave the contents
alone (`ViewStep`), a write changes exactly its cells (`ViewWriteCopy`), a read
takes the next ones (`ReadCells`), a block that is not full ends where the file
does (`LastBlock`), and a `pread` that finds nothing is at the end of the file even
if cached blocks are longer than the disk (`EndsThere`). The lemmas from
`ClientBegins` to `StepServes` map every action to a step of the contract or to
none. Both hypotheses are needed: without them the runs `cache_any_client` and
`cache_read_past_end` show what goes wrong.

Only model-checked: `LockReleased` (liveness). In `cache_contract` the initial
files are those of `IOCache`; `FileContract` itself allows any.

### Image rotation

| Module | Contents |
|---|---|
| `ImageRotation` | the arithmetic of rows, padding and turns, the program, its properties |
| `ImageRotationMC` | source files and angles for TLC |
| `ImageShellProofs` | the theorems about the rotation and about the shell |

State and code: `image` is `struct image` with its one array of pixels indexed
from 0 as in the code; `file` and `out` are files with the header fields the code
reads (`biWidth`, `biHeight`, `biSizeImage`) and the raster as an array of
bytes, a byte being a channel of a pixel or `Filler`; `left` is the argument of
`rotate_number`, `arrays` the arrays between `malloc` and `free`, `wild` says
whether a loop left its buffer. `WrongAngle` and `RightAngle` are `validate`,
`ReadFails`, `ReadRasterFails` and `ReadRaster` the exits of `from_bmp`,
`OpenOutput` the `fopen` in `main`, `RotateStep` one round of `rotate_number`,
`Write` and `WriteFails` are `to_bmp`, `fclose` and the final `image_destroy`.
The formats and messages are left out; the colour of a pixel is one value.

The definition the code is compared with is independent of it: `IsTurned` says
for each of the four turns where the colour of a place comes from, and
`BmpImage` reads a file as README describes the format, with no padding when a
row is a multiple of four bytes.

Runs:

* `image_rotation` – every width in {1, 2, 3, 5} and height up to 3, all with
  rows that need padding, each pixel with a colour of its own; a bad header, a
  file that ends early and one whose `biSizeImage` is 0; all listed angles and
  four that are not; every file operation may fail. 1543 states. Widths 4 and 8
  are left to `image_padding`. Fairness: the program keeps running.
* `image_padding` – see Findings.

Proved (`ImageShellProofs`) for images of every size: type correctness, that every
array is freed and that a bad source leaves the output alone, unconditionally;
that the output is the turned source, that `from_bmp` of what `to_bmp` wrote is
the image, and that no loop leaves its buffer, under the assumptions
`SourcesNeedPadding` (rows of a length that is no multiple of four bytes and
sizes that do not wrap in 32 bits) and `SourcesHaveRows` (`biSizeImage` covers
the rows). The argument: index lemmas (`RowAndColumn`, `RowInside`,
`IndexInside`) say that row and column and index determine one another;
`TurnOnce` says that `rotate` adds one quarter to `IsTurned`, whatever the shape;
`RasterReadsBack` that a raster and its image determine each other for any row
length that has room. `TurnInv` keeps that the image is the source turned by the
angle less what is left. A number of turns near 2^64 (`Forever`) never gets to
`Write`.

Only model-checked: `Terminates` (liveness).

### The shell

| Module | Contents |
|---|---|
| `Shell` | the loop, the commands, the child of `run`, and what of the system they meet; the properties |
| `ShellMC` | words and lines for TLC |
| `ImageShellProofs` | the theorems about the rotation and about the shell |

State and code: `is_running_`, `current_directory_` and `args` are the shell's
members and locals, `prompt` the directory last shown. `buffer` and `terminal`
are what `std::cout` holds back and what has been written, as two streams: the
names of programs (`RunCommand.cpp:29`, by the child) and the reports of how
they ended (by the parent). `child` goes through *forked* (after `vfork`, in the
shell's memory), *named* (its name is in the shell's buffer), *running* (after
`execvp`) and *ended*. `cwd` and `dirs` are the process's directory and those
that exist, `sigchld` the disposition the shell was started with, `tty` whether
output is a terminal. `started` and `ends` are history, read by properties only.
Other text is left out, except that it can flush the buffer.

Run `shell`: up to three lines out of thirteen (blank lines, unknown commands,
each command right and wrong), on a terminal and on a pipe, two directories that
another process may remove, `vfork` failing, a directory entry that makes
`is_directory` throw, SIGCHLD ignored. Three lines suffice for a `run` after a
`cd` and another `run`, with output held back from the first. 39 940 states.
Fairness: the system runs the shell and the child until its `execvp`. A program
may run for ever, so `CommandsComeBack` assumes that programs end; no user has
to type `exit`. The system stops when the shell is done or aborted, hence
`CHECK_DEADLOCK FALSE`.

Proved (`ImageShellProofs`) for all lines, programs, codes and directories: type
correctness, that the shell never goes on before its child was waited for, that
names and reports come out once and in order however they are buffered, and that
a prompt shows the directory the shell is in. `ShellInv` relates `shell_pc` to the
child's state, and the two concatenations of written and held-back text to the
history, so that a flush changes neither side.

Only model-checked: `CommandsComeBack` (liveness).

### The ELF loader

`ElfLoader` models `main.c` and all of `utils.c`; `ElfLoaderMC` has the files. A
file is what can be read of it: arguments and `open` that fail, a header that is
short or wrong, and as many section and program headers as the file is long
enough for. One action is one header read: `GetNamesHeader`, `NextSection`,
`FoundSection`, `FoundData`, `SectionCutOff` are the turns of `find_section`,
`SkipSegment`, `MapSegment`, `MapFails`, `SegmentCutOff` those of `load_headers`.
`PagesOf` and `Mapped` are the three roundings of `memory_allocation`, in 64
bits; `Mappable` is `mmap` with `MAP_FIXED_NOREPLACE`. `Enter` is
`program_start`: it goes *astray* if the address is on no executable page.

Run `elf_loader`: pages of two bytes, an address space of five pages of which the
loader has one, up to two sections and two segments with addresses and offsets
on and off page boundaries, lengths up to the wrap, two protections; 69 939
states. Every segment is in memory as the file describes it when the section is
entered; segments on one page, or on the loader's, are refused; the section that
is entered is the one asked for. The last holds of files whose executable
sections lie in loaded, executable segments (`SectionsInSegments`): the loader
reads section and program headers and never relates the two, so of other files it
may jump anywhere. `Decides` is the loader's end. Fairness: the loader keeps running. It stops in the code it
entered or when it returns, hence `CHECK_DEADLOCK FALSE`.

Proved (`AsmElfProofs`), for files of any number of headers, any page size and any
address space: type correctness and the three invariants of the run.
`LoaderInv` keeps that the loadable segments up to `i` are mapped as they were
asked for, on disjoint sets of pages, and that the loader's own pages are still
its own; `MapKeeps` shows that `mmap` touches no page that is taken.
`BytesOnPages` says that the rounded length covers every byte of a segment that
does not reach the end of the address space, `MappedBytes` which byte of the file
is where; both rest on `DivMod` and `Less`. That a section is entered and nothing
else follows from these before the jump (`SectionLoaded`). Only model-checked:
`Decides` (liveness).

### ptmalloc

| Module | Contents |
|---|---|
| `PtChunks` | sizes, chunk headers, the lists, split, merge and consolidation as operators on a heap; `sbrk` and `mmap` |
| `PtMalloc` | the functions of malloc-impl.c as operators on a heap, under the names of the code where it has one |
| `PtChecks` | the consistency checks the file has for `MALLOC_DEBUG` |
| `PtHeap` | the program: one call of the client is one step; the properties |
| `PtContract` | what malloc promises: objects keep place and size, in words of their own |
| `PtHeapMC` | values for TLC |
| `PtHeapProofs` | the theorems about the heap: alignment, marks of the lists; the layout of the memory, and how it survives from `unlink_chunk` to `systrim` and `_int_free` |
| `PtMallocProofs` | the same for `sysmalloc`, `_int_malloc`, `malloc` and `free` with the cache |
| `PtObjectsProofs` | the same for `realloc`, `memalign` and the steps of `PtHeap`; what follows for the client |
| `PtFastbins` | threads at the fastbins of one arena |
| `PtStacks` | the bins as stacks whose operations happen at one moment |
| `PtFastbinsMC` | values for TLC |
| `PtFastbinsProofs` | the theorems about the threads |

State and code: a heap is one record. `mem` maps the address of every chunk to
its header (`prev_size`, size, the bits), `fast`, `bins` (unsorted, small, large),
`entries` (the cache) hold lists of addresses, `top`, `binmap`,
`have_fastchunks`, `system_mem`, `last_remainder` and `mp` are the fields of
`malloc_state` and `mp_`; `brk` and `maps` are the kernel's. `soiled`, `needless`
and `aborted` are history: words that may not be zero, a call of `sysmalloc` that
the lists or top could have served, a failed check (`Check` is `malloc_printerr` and
`assert`). Addresses and sizes count words, so `SIZE_SZ` is 1 and the smallest
chunk has 4.

Since the operators are pure, a call is one step, which is what one thread with a
main arena is. Left out: further arenas, the debugging hooks, memory tagging,
`perturb`, heaps dumped by emacs. Abstracted: doubly linked lists are sequences (so
the checks of their links are); the large bins' logarithmic scale has one width;
`MAX_ITERS` (10 000) never binds. Others leave the break aligned, which `sysmalloc`
asserts where the heap is not contiguous; in the run they move it by a page and by
less than one. Alignments are powers of two, as the standard asks of a caller, up to
2^16 words.

Run `ptmalloc`: every three calls out of `malloc`, `free`, `realloc`, `calloc`,
`memalign`, `pvalloc`, `malloc_trim`, `mallopt`, the end of the thread and a foreign
`sbrk`, from an empty heap and from three that a history of calls has filled (cache,
fastbins and unsorted chunks; sorted large and small bins; mappings), with and
without a cache. Three calls are few, so the histories do the preparing: from them
one call sorts, one splits or merges and one meets the result. The break has room
for seven pages and a part of the eighth, the mappings for six, so both run out.
124 543 states. While others move the break by whole pages no check of the file fails
(`MovedByPages`). Once they have moved it by less, one can, and in the run does:
when the `sbrk` for the correction (`malloc-impl.c:2777`) fails, top ends inside a
page, and a later `sysmalloc` stops at its assertion on the old top (2539); up to
there `do_check_malloc_state` holds as well. Chunks are a partition of the memory
the kernel gave; every chunk is in one place; memory is asked for only when neither
a list of the arena nor top can serve (the cache of the thread is not asked again:
`calloc`, `realloc` and `memalign` go past it); `realloc`, `calloc` and `memalign`
keep their promises; `malloc_trim` spares what is in use; `mallinfo` adds up; and
`PtContract` is implemented. The contract may start in any safe state, as a history
comes before. No liveness: a call is one step. The system stops when the calls are
used up.

Proved (`PtHeapProofs`), for all sizes, parameters, histories and numbers of
calls, and wherever `sbrk` and `mmap` fail: every address and size in headers,
lists, cache and the client's hands stays aligned (`HeapIsWellFormed`,
`ObjectsAreAligned`); the objects of `memalign`, `valloc` and `pvalloc` are aligned
as asked, from whatever chunk they are cut (`MemalignAligns`: `AlignedAsAsked`, a
part of `CallsKeepTheirPromise`); a bin with a chunk is marked, though marks are
cleared lazily (`BinmapHasNoHole`), the flag of the fastbins is up while there is a
fast chunk, and none is in a fastbin beyond `max_fast` (`FastChunksAreSeen`). The
last two are the parts `IsMarked` and `TooLargeIsEmpty` of `do_check_malloc_state`,
thus of `ChunksAreSound`, and half of what `GrowsOnlyWhenFull` rests on: no list is
passed over unseen.

The invariant is `Inv`: the heap is in `Good`, the well-typed heaps with marked
lists, and the client holds aligned addresses. `Good` is inductive only with the
types of all fields: an aligned size is what keeps the next address aligned, a list
of aligned chunks what keeps a served one so. Since a call is a composition of
operators, the proof has one lemma per operator (`...Keeps`), from `set_head` to
`libc_realloc`, saying that it maps a heap of `Good` to one; each action then takes
a few lines. A loop over a list is a fold, whose definition in the library is a
recursive function on sets of indices; `StepsExist` shows by the least number that
there is such a function, and `WalkEnds` that it leads into a set which no turn of
the loop leaves. The turn over the unsorted chunks needs more than `Good`: while a
chunk is still sought, what `cached` says is in the cache is there (`Turns`).

Proved (`PtObjectsProofs`, on top of the other two), for all sizes,
parameters, histories and numbers of calls, and whatever `sbrk`, `mmap` and `mremap`
answer and others do to the break:

| Theorem | While no check has failed |
|---|---|
| `MemoryIsTiled` | `ChunksTileMemory`: the chunks are a partition of the words the kernel gave |
| `ChunksHaveOnePlace` | `ChunksInOnePlace`: every chunk is with the client, in one list once, or malloc's own |
| `GrowthIsNeeded` | `GrowsOnlyWhenFull`: `sysmalloc` is called only when no bin has a chunk large enough, no fastbin has any, and top is too small; the thread's cache is not looked at |
| `TrimIsSafe` | `TrimSparesObjects`: no page given up inside a chunk holds a word that is needed |
| `ReallocLosesNothing` | `ReallocKeepsData`, a part of `CallsKeepTheirPromise`: the data survive in place, copied or remapped |
| `ContractIsKept` | `KeepsContract`: the allocator implements `PtContract` |

The condition is a history variable: a failed check ends the program
(`malloc_printerr`, `assert`), so that nothing is left to hold after it. That no
check fails while the break is moved by whole pages is `ChunksAreSound`, which TLC
checks.

The invariant is `Sitting` (`ObjectsSit`): `Inv`; the heap has a `Layout` with the
client's chunks in hand; every object fits into its chunk; what others took of the
break lies below its limit. `Layout(h, H, F)`, where `H` are the chunks in the hand
of whoever works on the heap and `F` the words of the break that others took, has
two parts. `Ground` is about words: the chunks tile what the kernel gave less `F`
(`Tiles`), the header behind a chunk is a header (`Ends`; top and the fenceposts
have none), and the kernel's books are in order, each mapping being one chunk
(`Kernel`). `Placed` and `Distinct` are about lists: each chunk of the least size
or more is in just one place, once, the place suits its size (`Suits`), and what is
in none is a fencepost. Neither part is inductive alone: a chunk can be cut or
joined only if the one behind it is where its size says, and joined only if it is
known to be in no other list. `H` makes it possible to say what holds in the middle
of a call: `unlink_chunk` moves a chunk from a list to the hand, `PlaceInBin` back.

Two lemmas about shapes carry the words: `Recut` says that some chunks which cover
an interval may be replaced by others which cover it, and so what a split, a merge
or a growing top does; the moves of a chunk from place to place carry the lists.
Then each function has one lemma, `...IsSound`, in the words of `Reach(h, K, F, C)`
(internal functions: what `h` may become with `K` in hand when the chunks of `C`
stay as they are), `Later` (public functions: the cache may be new or gone as well),
`Provides` (a chunk, in nobody's hand before, large enough, or none) and `Regrants`
(`realloc`: the chunk is replaced by one with its data). Loops are folds again:
`malloc_consolidate`, the sorting of the unsorted chunks, the cache that ends. A
search that goes past all bins and top has seen them empty or too small, and thus
`GrowthIsNeeded`. For the client, `Sits(h, f, F)` says that the objects `f` lie in
chunks of `h` that are in hand, and `Outcome` what a step may do to them; it is what
`PtContract` allows.

Assumed of the constants, beyond their types: a word holds a multiple of two pages,
mappings lie above a floor below their end (`PtAssumption`); what `mallopt` and
`malloc_trim` are told is at most `PTRDIFF_MAX` (`PtHeapAssumption`). The last leaves
out clients that pass a negative or as large a pad. It is needed: `systrim` subtracts
`MINSIZE`, 1 and the pad from the size of top (malloc-impl.c:2919), and when top is
as small as can be the difference wraps and passes for large. A pad near 2^64 then
makes it small again and the break would be moved below top; with any other it
becomes a negative number that moves the break up, which the proof covers.

Only model-checked here: `ChunksAreSound`, that no check of the file fails, with
the restriction above. It needs
the boundary tags too (`prev_size` and `prev_inuse` of the next header, at each
moment at which a check reads them), and, for `system_mem`, sums. `StatisticsAddUp`
is about sums over lists, which take induction over data, and `calloc`'s part of
`CallsKeepTheirPromise` (`CallocIsClean`) about the words that top had when it was
given: that they are clean needs an invariant of their history.

Run `ptmalloc_threads`: two threads, four chunks of two sizes, a cache of one
chunk each, two calls per thread, up to two chunks in the bins at the start:
enough for one thread to read a head, the other to take two chunks and give one
back, and the first to exchange (ABA). A step is one access to memory that
others reach: the flag, the head, the `fd`, the exchange, the lock. `free` of a
fast chunk takes no lock; `malloc` and the consolidations do. Clients free what
any thread got. Memory is sequentially consistent, chunks keep their sizes (a
consolidated chunk goes to `arena` and serves its size again), safe-linking is
left out. 31 862 states. No chunk is lost or handed out twice, the lists are what
the `fd`s say, every call returns, and the bins behave as `PtStacks`. Fairness:
a thread inside a call keeps running, also when it waits for the lock: weak
fairness suffices because calls are bounded. `have_fastchunks` is documented as
approximate, so nothing is claimed of it between threads.

Proved (`PtFastbinsProofs`), for any number of threads, bins, chunks and calls:
`EveryChunkOnce` (`ChunksAreKept`) and the refinement of `PtStacks`
(`FastbinsAreStacks`). The invariant `FastbinsInv` is that there are lists `L` of
the bins and `M` of what is merged, and a place `at` for every chunk, such that
the links say `L` and `M` (`Linking`), every place holds what `at` puts there
(`Owned`), and what a thread has read still holds as far as it relies on it
(`Local`): a head read without the lock may be stale, but then the exchange
fails, or the chunk has come back and the list below it is the one it now leads.
Each action's lemma names the next `L`, `M` and `at`, and says how the stacks
moved; a step moves at most one chunk or one whole bin. The walk along `fd`
in `Chain` and `ListsEnd` is a recursive function, so that what it returns can be
proved by taking the least number for which it would not (`LeastNumber`).
Only model-checked here: `CallsReturn` (liveness).


### The dictionary in assembly

`AsmDictionary` models `main.asm`, `find_word`, and the routines of `lib.asm` they
call. `Data` is the section that the macro `colon` lays out, byte by byte, as
`rsi + 8` and `string_length` walk over it; `input_string` is the buffer, its
length `r14`; `read_char` answers the byte together with what lies above it in
`rax`, the return address. `Skip` and `Loop` are the turns of `.read_string`,
`Compare` and `StepBack` the halves of a turn of `find_word`, `PrintValue` and
`PrintError` the rest of `main`. A read may fail; `slot` is the byte it leaves.

Run `asm_dictionary`: a buffer of four bytes, links of two, three words, and every
input of up to five characters out of two letters, a blank, a line end and a zero
byte. 54 492 states. Nothing is stored behind the buffer and what is looked for is
all that was typed; the first word, a long and a failing input are answered (for the
empty one see Findings). The assumption that no key is shorter than a link is that
of `words.inc`. Fairness: the program keeps running. Run `asm_find`: see Findings.

Proved (`AsmElfProofs`), for every size, input and dictionary:
`KeyIsWhatWasTyped`. `KeyInv` says that what is stored and what is still to be
read make up what was typed, unless reads fail, and then the end of the input
never comes (`OnlyTheEndIsZero`). Only model-checked: `AnswersFirstWord`
(liveness).

The routines of `lib.asm` that no program calls are not modelled.

## What the provers cannot do here

Liveness under fairness stays with TLC, and so does what a recursive operator
computes for all inputs; no module that is proved about declares one.
Reachability in the heap is therefore stated by closed sets of blocks, and the
rotation by indices instead of a fold over pixels. Induction over numbers is
possible where it can be put as a set of numbers with a least member: the proofs
about recursive functions in the fastbins and about `Min` in the cache are of
this kind.

Sums over the chunks of the heap (`StatisticsAddUp`, and `system_mem` in
`ChunksAreSound`) take induction over data. What else of ptmalloc's heap is only
model-checked, that no consistency check fails and that `calloc` clears, is within
reach; it takes the boundary tags and the history of top's words on top of
`Layout`.

The proofs of the four small programs are in two modules, `ImageShellProofs` and
`AsmElfProofs`, each of which extends two programs. That is why the names that all
modules would share are the program's own in two of them: `ShellInit`, `ShellNext`,
`ShellSpec` and `shell_pc`, `AsmInit`, `AsmNext`, `AsmSpec` and `rip`.

## Findings

Statements of the repository that the code does not keep, each shown by a run
that ends in a counterexample:

* `cache_read_past_end` – `valid_size - block_offset_within` wraps for a position
  behind the end of the file in its last block; the read returns uninitialised
  memory.
* `image_padding` – `padding()` is 4 where the format has none: rows of 4, 8, ...
  pixels are looked for in the wrong place and behind the buffer.
* `asm_find` – `find_word` (`dict.asm:15`) goes back to the entry it compared and
  never follows its link: for every key but the first entry's the program runs
  for ever; `asm-dictionary/test.py:4-6` expects the other explanations, and
  "Value is not found".

Met while modelling, without a run of their own:

* `cache.size` keeps counting a block that was lost to a failed eviction, so the
  vector can be empty while `evict_if_needed` draws an index (`EvictNothing`).
* `image-rotation`'s `main` looks at the result of neither the second `fopen` nor
  `fclose`: a failing open ends it by a signal, a failing close goes unnoticed.
* `validate` makes -1, -2 or -3 of angles below -360: the first is refused, the
  others become almost 2^64 turns.
* The shell's README promises the running time of a program, the code prints its
  exit status.
* `_free` merges with one successor; the allocator's README (21-23) says as long
  as possible. `heap_init` may get its region away from `HEAP_START`, but
  `_malloc` and `heap_term` always start there; README 130 says all regions.
* A block whose write-back fails in `evict_if_needed` is erased all the same; a
  later `lab2_fsync` reports success.
* The test in `validate` is joined by `||` and refuses no angle.
* Two ELF segments that share a page cannot be loaded; the status of
  `check_names_equals` is dropped (`utils.c:107`), so a name that cannot be read
  only makes the search go on.
* `sysmalloc` goes on when the `sbrk` that should align the end of top fails
  (`malloc-impl.c:2777-2781`), and its own assertion that the old top ends with a
  page (2539) fails in a later call; the break must have been moved by others by
  less than a page.
* The dictionary: `read_char` returns seven bytes of its return address with the
  character, so blanks and line ends are never recognised and a key ends with the
  input; an empty input gets the message for a long one, where `test.py:6` expects
  "Value is not found"; the eight that `main.asm:28` adds to the key as if it were
  the entry are right only because no key of `words.inc` is shorter; every exit
  status is 0. In the routines no program calls, `parse_uint` adds digits to `al`
  and loses the carry (`lib.asm:222`: "256" is 0), `parse_int` answers length 1 for
  a lone sign, `string_copy` moves eight bytes for each (`lib.asm:262`), and
  `print_newline` prints the `/` of its `/n`.
* `systrim` with a `top` of exactly MINSIZE and no pad takes -1 for a large
  unsigned number (`malloc-impl.c:2919-2920`), moves the break up by a page and returns 1, where the comment
  at `malloc-impl.c:2902` says only if it released memory. Nothing breaks: the
  page joins `top`.

## Not modelled

* Of ptmalloc: what is named as left out above. Two threads are modelled at the
  fastbins only; everything else of an arena happens under its lock.
* The routines of `lib.asm` that no program calls. `asm-io-library/lib.asm` is the
  exercise's skeleton; its `lib.inc` holds the same routines.
* The load generators, the benchmarks and demos: they repeat library calls and
  print durations. The threads of `loaders/both` run `std::sort` on one vector: a
  data race in a library that is not in the repository, of which any outcome is
  possible and about which the program promises nothing.
* `mem_debug.c`: printing. Testers, vendored libraries and build trees: not part
  of the programs.
* Two threads inside the small allocator: it has no lock and promises nothing.
* Crashes: no part keeps state that it would recover.

## Plan

Modelled, in this order: heap, cache, image rotation, shell; then the ELF loader,
ptmalloc (one thread; then the fastbins between threads) and the dictionary.

The safety properties of all machines are proved, but three of ptmalloc's heap:
that no check of the file fails, that the statistics add up, and that `calloc`'s
words are clean. Next: the boundary tags as a third part of `Layout`, with which the
checks follow function by function.

Runs stay few: one per question.
