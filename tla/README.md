# A verification project for the programming-languages labs

The repository holds five small programs in C and x86-64 assembly, and the
malloc of glibc that the first of them is modelled on. This directory holds
TLA+ models of them, configurations that check the models with TLC, and proofs
that TLAPS checks, about all of these programs. Sections 1 and 2
say what the system is and how it is modelled, 3 what the runs show, 4 what is
proved, 5 where the code and its documentation disagree, 6 what is left out,
7 what comes next.

## 1. The system

The programs share no code at run time. `assignment-dictionary/lib.asm` is an
extended copy of `assignment-io-library/lib.inc`, and the sepia filter's BMP
code is a simplified relative of the one in the image rotation. The programs
are sequential: there are no threads, signals or callbacks. What makes them
hard is the environment (calls of the operating system and of libc that fail or
choose), long sequences of calls that reshape a data structure, and arithmetic
at boundaries. The reference malloc, `docs/malloc-impl.c`, is by far the largest
file; it is read, not built. There several threads share an arena, and part of
`free` works on it without the arena's mutex.

| Component | State | Operations | Talks to |
|---|---|---|---|
| Heap allocator (`assignment-memory-allocator/src/mem.c`, `mem_internals.h`, `util.h`) | a linked list of block headers stored in the memory they manage; the regions obtained from `mmap` | `heap_init`, `_malloc` (search with merging, splitting, growth, one retry), `_free` | `mmap`, which may refuse, relocate, or, with `MAP_FIXED`, replace |
| Allocator test program (`main.c`, `test.c`) | the head of the heap, a few blocks | five scenarios: free one of many, free twice, grow, grow around a foreign mapping | the allocator |
| Allocator debug output (`mem_debug.c`, `util.c`) | none | prints the list | the allocator's list |
| Allocator unit tests (`tester/`) | none | generators of inputs for the static functions of `mem.c` | `mem.c` with `mmap` replaced |
| Image rotation (`assignment-image-rotation/solution`) | two images, two files, a status | read a BMP, turn it by 90 degrees, write it | `fopen`, `fread`, `fwrite`, `fseek`, `fclose`, `malloc`, `free`, each of which may fail |
| Rotation tester (`assignment-image-rotation/tester`) | two files | compares two BMP files | stdio |
| Sepia filter (`assignment-sepia-filter/solution`) | an image, one or two results, measured times | read, filter in C or in SSE, write; `perf_counter` measures 50 runs of both | stdio and malloc, whose results are nowhere looked at |
| I/O library (`assignment-io-library/lib.inc`) | registers, memory | string length, comparison and copy; printing and parsing of numbers | `read`, `write`; its clients are the programs `test.py` generates |
| Dictionary (`assignment-dictionary`) | a 256 byte buffer in `.data`, two messages behind it, a linked list laid out by the macro `colon` | read a word, look it up, print the value or a message | `read`, `write`, `exit` |
| Reference malloc (`assignment-memory-allocator/docs/malloc-impl.c`) | chunks with boundary tags; fast bins, small and large bins, the unsorted bin, the bin map, top; a cache per thread; thresholds | `malloc`, `calloc`, `memalign`, `realloc`, `free`, `mallopt`, `malloc_trim`, the exit of a thread | `sbrk` and `mmap`, which may refuse; other users of `sbrk`; other threads, through the fast bins, `have_fastchunks`, `max_fast`, `system_mem` and the mutex |
| Scripts, Makefiles | - | - | - |

What makes each of them correct:

* **Allocator.** The blocks are a partition of the memory obtained from `mmap`:
  none overlaps another, none is lost, none reaches memory of somebody else,
  none is too small to be used. The list meets each of them once. A block in use
  is not moved, resized or freed by other calls. A call returns; it grows the
  heap only if it has to, and growing helps. Clients see disjoint blocks that
  are large enough and not much larger.
* **Reference malloc.** Chunks partition the heap and each is in exactly one
  place: with the program, in one list, in a cache, or top. Boundary tags agree
  with the lists on both sides of every chunk. What is returned is large enough,
  aligned, zero where `calloc` promises it and has the old data where `realloc`
  does. Null comes only if there is no memory. None of the code's own checks
  fires for a correct program, however its threads interleave, and the mutex
  is released.
* **Image rotation.** Exit status zero means that the picture in the output is
  the input turned left. Rows stay inside their arrays. Arrays are freed once,
  on every way out.
* **Rotation tester.** It calls two files equal exactly if they show the same
  picture, for every length of a row relative to the buffer; a test passes
  exactly if the rotation was right.
* **Sepia filter.** Every pixel is filtered, for every number of pixels modulo
  four, with its own values and the right coefficients; both filters agree; the
  file is consistent with its header; the statistics are those of the runs.
* **I/O library.** Printing and parsing are inverse; parsing takes the longest
  prefix and nothing else; copying is all or nothing.
* **Dictionary.** The answer is the value of the newest entry whose key is the
  first word of the input, or the right message; reading never touches the
  dictionary and comes to an end.

Every place where one of these could go wrong is listed with its line under
`hazards` in `PROJECT.json`.

## 2. The modules

| Module | Models | Notes |
|---|---|---|
| `HeapList` | the pure part of `mem.c`: size arithmetic, mergeable, merge, splittable, split, block_init | no variables; a list is a function from header addresses to headers |
| `MemAlloc` | the allocator as a state machine | extends `HeapList` |
| `MemAllocAbs` | what a client of `_malloc` and `_free` sees | abstract specification, refined by `MemAlloc` |
| `MallocSizes` | the arithmetic of the reference malloc: chunk sizes, cache, fast bin and bin indices | pure; for 32 and 64 bits |
| `Ptmalloc` | the main arena as one thread at a time sees it | extends `MallocSizes` |
| `FastBins` | several threads on one arena: fast bins without the mutex | one action per access to shared memory |
| `MemAllocProofs` | lemmas on lists of blocks; theorems about the allocator, and that it implements its contract | see section 4 for all proofs |
| `RotationTestProofs`, `SepiaProofs` | lemmas on rows, indices and bytes of a BMP; theorems about the rotation with its tester, and about the sepia program | |
| `PtmallocHeap`, `PtmallocProofs` | lemmas on sizes, bins and the layout of memory, and what each operation of the main arena keeps; what each step of a call keeps, and the theorems | the second extends the first |
| `FastBinsProofs` | lemmas and theorems about the threads | |
| `IoLibraryProofs`, `DictionaryProofs` | lemmas and theorems about the assembly programs | |
| `Bmp` | the BMP format, `get_padding`, the header, `alloc_pixels`, `rotate_image` | pure; used by both picture programs |
| `ImageTransformer` | one run of the rotation, one action per library call | extends `Bmp` |
| `BmpCmp` | one run of the tester, one chunk of a row per step | extends `Bmp` |
| `RotationTest` | `tester.sh`: the rotation, and then the tester on what it wrote | composes `ImageTransformer` and `BmpCmp` |
| `SepiaFilter` | `sepia_one`, and `sepia_filter_sse.asm` lane by lane | pure |
| `Sepia` | one run of the sepia program, `-perf` included | extends `SepiaFilter` and `Bmp` |
| `StringLib` | the procedures of `lib.inc` on strings and numbers | pure, over a memory of bytes and registers of `RegMod` values |
| `IoLibrary` | the clients `test.py` makes | extends `StringLib` |
| `Dictionary` | one run of the dictionary, one read and one visited entry per step | extends `StringLib` |
| `MCMemAlloc`, `MCPtmalloc`, `MCFastBins`, `MCImageTransformer`, `MCRotationTest`, `MCSepia`, `MCIoLibrary`, `MCDictionary` | values for the constants | |

Definitions whose name has a suffix and whose comment starts with "Mistake:"
(such as `Split_TailLost`) are variants of the definition after them with a
plausible bug. In the modules of the reference malloc they are named after the
definition instead (`MutFreeChecked` before `free_checked`), and the comment states the bug.
No specification uses them. They show that each property notices such a bug.

### The allocator

`hdr` maps the address of each linked header to its fields. `mapped` is the set
of addresses the heap got from `mmap`, `foreign` what other parts of the process
have mapped. `lent` are the blocks that were returned to the client and whose
header is still linked; the client may free any of them, also twice, as `test2`
and `test3` of `test.c` do. `pc`, `cur`, `query`, `retry` and `region` are the
local variables of the running call, and `result` is what the last `_malloc`
returned.

| Action | Code |
|---|---|
| `HeapInit` | `heap_init`, `alloc_region`, `block_init`. Not only the first call: it is enabled at the start only, as in `test.c` |
| `Malloc` | `_malloc` enters `memalloc` at `HEAP_START`; `pc = "fault"` when no header is there |
| `ScanMerge`, `ScanAdvance` | one iteration of the inner and of the outer loop of `find_good_or_last` |
| `ScanTake` | a good block: `split_if_too_big`, `is_free = false`, return |
| `ScanEnd`, `Grow` | reached the last block: `grow_heap`, and back to the search with `retry` |
| `ScanFail` | reached the last block again: NULL |
| `Free`, `FreeStep` | `_free`, and one iteration of its loop |
| `ForeignMmap` | another `mmap` in the process, as in `test5` |

`alloc_region` asks for `MAP_FIXED` first and lets `mmap` choose if that fails.
`Placements` are all outcomes of both calls: the fixed address (whatever is
mapped there is replaced), any unused aligned range, or NULL. If the fixed
mapping covers blocks of the heap itself, the program goes on with headers that
were zeroed; the model stops there with `pc = "corrupt"`. This happens when
`mmap` placed an earlier region right below another one. Contents of blocks are
not modelled. `size_t` is modulo `WordMod`.

`MemAllocAbs` has no list, regions or search. Its state is the set of blocks in
use with their sizes, the request being served, what the last `_malloc`
returned, and whether the program is lost ("fault" or "corrupt"). A request is served by *some* block that is disjoint
from all others and has at least the bytes wanted, and fewer than would make a
block of their own in addition, and the client gets its contents; or it is
refused. Freeing a block that is not in use does no harm. `MemAlloc` implements it with
`live` = the blocks that are taken (`Contract`).

### The reference malloc

`Ptmalloc` keeps the arena, the tunables and the memory in one record, `heap`,
because the code's functions change them together: an operator such as
`int_free(h, p)` takes the heap before and returns the heap after, and an action
is a stretch of the code between two places that are jumped to. Only headers are
memory: `heap.hdr` maps each chunk to its size, its in-use bit for the chunk
before it and `prev_size`. A bin is a sequence, which stands for `fd` and `bk`;
the skip list of a large bin is the set of chunks that have `fd_nextsize`. A
failed assertion or `malloc_printerr` sets `heap.abort`, after which the program
takes no more steps, so that `NoCheckFires` is a property like the others. Loops over
a list (`malloc_consolidate`, the exit of a thread) are functions of how many of its
elements have been visited.

`call` is the running call and `program` what is still to be called. `live` are
the blocks the program has. `call.pc` follows the code:

| Actions | Code |
|---|---|
| `CallMalloc` ... `CallFree`, `TcacheInit`, `TcacheReady` | a call begins; the cache of the thread is created on the way, through `_int_malloc` itself |
| `MallocCached`, `Malloc`, `Calloc`, `Memalign`, and `Malloced`, `Calloced`, `Memaligned` | before and after `_int_malloc` |
| `TakeFast`, `TakeSmall`, `EnterUnsorted` | its first part: exact fits, the cache filled from the same list |
| `SplitLastRemainder`, `TakeExact`, `BinVictim`, `UnsortedDone` | one iteration over the unsorted bin, and its end |
| `TakeLarge`, `TakeBinned`, `ScanDone` | best fit in the request's own bin, and the scan of the bin map |
| `UseTop`, `ConsolidateAndRetry`, `AskSystem` | the end of the outer loop |
| `SysMmap`, `SysExtend`, `SysRestart`, `SysNoncontiguous`, `SysFallback`, `SysFail`, `SysFinish` | the ways through `sysmalloc` |
| `Realloc...`, `Realloced`, `Recopied` | `realloc` in place, into top, into the next chunk, elsewhere, by `mremap` |
| `Free` | `_int_free` with merging and trimming; `munmap` and the dynamic threshold |
| `MallocTrim`, `Mallopt`, `ThreadShutdown` | the other calls |
| `ForeignSbrk` | another part of the program moves the break |

`FastBins` has what that leaves out: other threads. Every action there is one
access to shared memory: reading the head of a fast bin, storing `fd`, the
compare-and-exchange, reading `fd` before a pop, the exchange that empties a bin,
the two stores of `systrim`. What happens under the mutex alone is a set of free
chunks, `arena`; `top_size` and `system_mem` are kept because `free` reads them
without the mutex. `fd` of a chunk that has left its list is `JUNK`: it is memory
of the program or of the cache. A chunk keeps its size: merging and splitting
are `Ptmalloc`'s. `where` and `rank` are history variables for the properties.

### The pictures

A byte is a number and a pixel a sequence of three. In `ImageTransformer` every
library call may fail whenever it likes; the outcome of each is part of the
action named after the function of the program around it. `live` are the
allocated arrays. `pc` has three values for undefined behaviour: `crashed` (a
null pointer, also `fclose(NULL)`), `out_of_bounds` and `double_free`. Bytes may
also be lost in the last `fclose`, which flushes; `lost` remembers that.

`BmpCmp` compares two files as the tester does, row by row and in chunks, with
its own idea of the padding. `RotationTest` joins both programs: while the
rotation runs the tester waits, and it starts on the file that was written, with
some expected file, if the rotation exits with zero. A `fread` may return fewer
bytes than there are; `failed` records that, because the tester takes it for the
end of the file.

`Sepia` is written like `ImageTransformer`, but the program looks at no result: after a
failing call it goes on, with what it happens to have. `failed` records such
failures for the properties only. The contents of an array that `malloc` did
not initialise are a choice of `Junk`. Single precision is not modelled bit by
bit: a sum is exact up to an error of at most one ten-thousandth, which bounds
what three products and two sums below 346 can lose. Both filters multiply and
add in the same order, so they see the same error.

### The assembly programs

Memory is a function from addresses to bytes. Registers are numbers below
`RegMod`, and `neg` and the multiplication wrap around. Loops of the library are
recursive functions. `Dictionary` lays out its memory as `main.asm` and
`colon.inc` do: the buffer, then both messages, then the entries, each linked to
the one before. In the program the entries lie apart, in `.text`, because `main.asm:1` includes
`words.inc` before it names a section; behind the messages, within reach of an
overrun, they are in more danger than there. A word that is too long is thus seen to damage what lies behind
the buffer. A failing `read` leaves the old byte, which is then taken for a new
one; `failed` records it.

## 3. The runs

Deadlock is not checked anywhere: a run of a program ends, and a full address
space or a "corrupt" heap ends the allocator's.

| Run | Expected | Shows |
|---|---|---|
| `heap_safety` | pass | 42,565 states. `TypeOK`, `NoOverlap`, `Coverage`, `NoTinyBlock`: the blocks are a partition of the mapped memory. `ListIntegrity`: the list meets all of them once. `ScannedBlocksUnfit`: the search leaves nothing behind that would have served, so the heap grows only if it has to. `GrowthServes`: after growing, the request is served unless `mmap` refused or the size wrapped around. `TakenStable`: a block in use stays as it is. `ImplementsContract`: refinement of `MemAllocAbs`. `CallReturns`: every call ends |
| `heap_foreign` | violation | growing replaces a foreign mapping |
| `heap_start` | violation | `_malloc` ignores where `heap_init` put the heap |
| `malloc_calls` | pass | 661,765 states. `MallocStateOK`: the assertions of `do_check_malloc_state` and `do_check_inuse_chunk` hold between calls (with the order of large bins and the skip list, which the code only relies on). `NoCheckFires`: no check or assertion inside a call fails. `OneOwner`: no chunk is lost, in two places, or overlaps another. `BlocksServe`: blocks are large enough, aligned, and have the old data |
| `malloc_null` | violation | malloc returns null after it got the memory and trimmed it away |
| `malloc_calloc` | violation | malloc_trim makes the heap larger, and calloc then takes memory that was used for new |
| `fastbins` | pass | 417,024 states. `ChunksAccounted`: fast bins are proper lists of the right chunks, each chunk is in one place. `NoFalseAbort`: no check fails because of another thread. `MutexReleased`: who holds the mutex releases it |
| `rotate_safety` | pass | 514,322 states. `ExitZeroRotates`, `RowsInBounds`, `HandedOverIsFreed`: the program. `VerdictExact`: the tester. `TestDecides`: both together; a test passes exactly if the expected file is the right one and no aligned row is followed by another |
| `sepia_safety` | pass | 421,437 states. `EveryPixelFiltered`, `SseLikeC` (the filters differ by at most one), `OutputIsPicture`, `ImagesFreed`, `StatsOfRuns` |
| `library_safety` | pass | 93,234 states. `ParsesPrefix` (but for a minus without digits), `RoundTrip`, `Canonical`, `CopiesWhole` (but for a text as long as the buffer; section 5) |
| `dict_safety` | pass | 203,419 states. `LookupCorrect`, `WordsIntact`, `Answers` |
| `dict_buffer` | violation | a word as long as the buffer overwrites what follows it, though no read fails |

### Bounds

* **Allocator.** Header 1, minimal capacity 2, pages of 4, regions of at least
  two pages, addresses below 28, `size_t` modulo 64. That is room for six pages, which
  is two regions in effect: the first is at the second of these pages, so there is one page below it. The requests are one below the minimum,
  one that needs more than a region's rest, and one that wraps around. Remainders
  one byte too small to be split off, merges within and across regions, growth
  in place, elsewhere and over a foreign mapping, and the refusal of `mmap` all occur. Growth over
  the heap itself ("corrupt") needs a larger address space; it is covered by the theorems only. Nothing else is bounded: the address space ends
  growth, as it does in reality.
* **Reference malloc, sequential.** The sizes and thresholds of a 64-bit build,
  so that chunk sizes, bins and page arithmetic are the real ones; `sbrk` can serve
  62 pages and `mmap` 293. `PTRDIFF_MAX` is 2^30, which keeps TLC's numbers in
  32 bits. The programs (`MCPtmalloc`) are sequences of choices: six
  arbitrary calls out of eight, and eleven scripts that prepare what a random
  start would not reach in a few calls (merged neighbours in all orders, large
  bins with equal sizes, a top almost used up, a foreign user of `sbrk`, the
  fallback to `mmap`, the limit on mappings). A free or realloc may take any block. A cache
  holds one chunk per size instead of seven, one unsorted chunk instead of 0 (no limit) is
  looked at once something is cached, and an iteration over the unsorted bin stops after two instead of 10000: small
  enough for every one of these limits to be met. Every action is taken.
* **Reference malloc, threads.** Two threads, three chunks of two sizes, so two
  fast bins; a cache of one chunk per size; `mallopt` leaves one or both fast bins
  in use. Pushes race with pushes, pops and consolidation; two chunks of one size
  are enough for a chunk to leave and to come back in between. The theorems cover the rest.
* **Rotation.** All pictures of up to 4 x 3 pixels (every padding), 2 x 4, both
  empty shapes, a file laid out as the README describes, two cut short in the
  last row (one byte too few, and just enough), four bad headers, and one of
  5 x 9 whose array size wraps around modulo 128. All bytes of a file differ, so
  a misplaced one is noticed. A test expects the right picture, the right one with
  other paddings, one with a wrong pixel, with other dimensions, cut by one byte
  or in the middle, without header, with a wrong one, or missing. A buffer of 4
  bytes makes rows of less than a chunk, of several whole chunks (rows of 12
  bytes) and of several and a rest.
* **Sepia.** Pictures of 0 to 18 pixels, so every rest modulo four with and
  without whole groups, channel values that saturate, round up and round down,
  short files, and one with more pixels than an index modulo 16 tells apart.
  Two rounds of `perf_counter` in place of 50, times on both sides of the
  initial minimum.
* **Library.** All texts of up to four characters over seven (sign, digits,
  neighbours of the digits, a byte that is negative as a signed one), registers
  modulo 512 so that three digits overflow, and all values of a register.
* **Dictionary.** All inputs of up to five bytes over two letters, two blanks and
  the zero byte; a buffer of 3. Keys that are prefixes of one another, a key that
  occurs twice, one as long as the buffer, an empty value. The end of input may
  be met repeatedly, and any read may fail.

### Fairness

`MemAlloc` assumes weak fairness of `Steps`, the steps inside a call: they are
sequential code which never waits. Calls are not fair; the client may stop.
`Dictionary` assumes it of the steps in which no read fails: a read of a file or
a closed pipe returns, and nobody may count on a failure to get the program out
of a loop. `Answers` is stated for runs in which no read fails, because after a
failing read a blank may be seen again for ever. `FastBins` assumes weak fairness
of `Step(t)` for each thread: a thread inside a call is scheduled again, while
nothing makes it begin a call. That is all the code may count on: `Lock` and
`Relock` are not strongly fair, so a thread may wait for the mutex for ever, and
`MutexReleased` is about its holder only. The holder could be kept busy by
threads that push whenever it has consolidated; it is not, because each push
uses up a chunk that only the holder could give back. The other modules have no
liveness property and no fairness; their loops are counted.

## 4. What is proved

For all values of the constants that satisfy the assumptions stated with them:

| Theorem (`MemAllocProofs`) | States |
|---|---|
| `TypeCorrect` | `Spec => []TypeOK`; the loops always stand on a header of the list |
| `BlocksDisjoint` | `Spec => []NoOverlap` |
| `BlocksFillRegions` | `Spec => []Coverage` |
| `BlocksUseful` | `Spec => []NoTinyBlock` |
| `BlocksInUseStable` | `Spec => TakenStable` |
| `HeadersFormOneList` | `Spec => []ListIntegrity` |
| `SearchMissesNothing` | `Spec => []ScannedBlocksUnfit` |
| `GrowthIsEnough` | `Spec => []GrowthServes` |
| `AllocatorImplementsContract` | `Spec => ImplementsContract`: `MemAlloc` refines `MemAllocAbs` |

| Theorem (`RotationTestProofs`) | States |
|---|---|
| `ArraysFreedOnce` | `Spec => []HandedOverIsFreed` |
| `RowsStayInArrays` | `Spec => []RowsInBounds` |
| `ExitZeroMeansRotated` | `Spec => []ExitZeroRotates`: with exit status zero the file written shows the source turned left |
| `TypesCorrect` | `TestSpec => []TestTypeOK`, the file handed to the tester included |
| `VerdictIsExact` | `TestSpec => []VerdictExact` |
| `TestDecidesWhereRowsAgree` | `TestSpec => [](SameRows /\ RowFits => TestDecides)`: unless an aligned row is followed by another, a test passes exactly if the expected file holds the input turned left |

| Theorem (`SepiaProofs`) | States |
|---|---|
| `TypeCorrectness` | `Spec => []TypeOK` |
| `PixelsFiltered` | `Spec => []EveryPixelFiltered` |
| `FiltersAgree` | `Spec => []SseLikeC` |
| `OutputCorrect` | `Spec => []OutputIsPicture` |
| `ImagesAreFreed` | `Spec => []ImagesFreed` |
| `StatisticsRight` | `Spec => []StatsOfRuns`, for any number of runs |

| Theorem (`IoLibraryProofs`) | States |
|---|---|
| `TypesCorrect` | `Spec => []TypeOK` |
| `PrefixesAreParsed` | `Spec => []ParsesPrefix`: the longest prefix of digits, of texts of any length, but for a minus without digits |
| `NumbersSurvive` | `Spec => []RoundTrip`: what is printed is read back |
| `NumbersAreCanonical` | `Spec => []Canonical`: no leading zeroes, no minus before zero |
| `CopiesAreWhole` | `Spec => []CopiesWhole`: for texts and buffers of any length, but for a text as long as the buffer |

| Theorem (`DictionaryProofs`) | States |
|---|---|
| `ProgramTypes` | `Spec => []TypeOK`; the search always stands at an entry |
| `WordsAreIntact` | `Spec => []WordsIntact`, failing reads included |
| `AnswersAreRight` | `Spec => []LookupCorrect`, for every list of words, every buffer and every input |

| Theorem (`FastBinsProofs`) | States |
|---|---|
| `NoChunkLost` | `Spec => []ChunksAccounted` |
| `ChecksPass` | `Spec => []NoFalseAbort` |

| Theorem (`PtmallocProofs`) | States |
|---|---|
| `Invariant` | `Spec => []IInv`, the inductive invariant of the arena and of the running call |
| `TypeCorrect` | `Spec => []TypeOK`: every header, list, threshold and break has its type |
| `OneOwnerHolds` | `Spec => []OneOwner`: between calls every chunk is in exactly one place, and no two overlap |
| `BlocksServeHolds` | `Spec => []BlocksServe`: blocks have room for what was asked, and what a call returns is aligned, not much larger than needed, and has the old data |

| Theorem (`PtmallocHeap`) | States |
|---|---|
| `RequestServed` | a chunk size is aligned, has room for the request, and is minimal or less than one alignment too large |
| `CachedChunksFit`, `CacheIndexInverse` | a list of the cache has one size; the tunable's sizes match the lists |
| `FastBinExists` | with any `M_MXFAST` that `mallopt` accepts, a fast chunk has a bin inside the array |
| `BinExists` | every other chunk has a bin, not the unsorted one and not past the bin map |
| `LargerBinFits`, `SmallBinFits` | a chunk of a larger bin fits; a small bin has one size |

**Assumptions (allocator).** Sizes are positive, a region has room for one minimal block,
and `AddrLimit + MinCapacity <= WordMod`: user addresses end far below
`SIZE_MAX`, so sums of an address or a capacity with a header do not wrap. They
may and do wrap for requests, which are arbitrary words. Nothing is assumed of
`mmap` but that it returns addresses below `AddrLimit` and that, unless it was
told a fixed address, these are unused. The alignment facts
(`PagesAssumption`) are needed by the runs only.

**The argument (allocator).** `NoOverlap` is not inductive. That a merge keeps it depends on
the absorbed block lying right behind the other and being linked from nowhere
else; that growth keeps it, on all blocks lying inside `mapped`; that the loops
stay on a header, on the current one never being absorbed. The invariant `Ind`
is the type invariant together with

* `Layout(hdr, mapped)`: headers are valid and inside the
  address space, links lead to blocks, no two blocks have the same successor,
  blocks do not overlap, have the minimal capacity, and cover `mapped` exactly;
* `Head`: the first block has no predecessor, so it is never absorbed, and a
  heap that is not at `HEAP_START` never changes because `_malloc` never finds it;
* `Control`: no foreign address is mapped by the heap, and the heap grows
  behind a last block.

The first part of `MemAllocProofs` shows for each operation on lists, for any list, that it keeps
`Layout`: setting a flag, merging, splitting, linking a region that shares no
byte with the heap. The second has a lemma per action that cites them,
and `NextInd` combines these. `TakenStable` follows from `Ind` and a case per
action: a step that takes a header out of the list takes a free one.

**The argument (contract).** `Ind` says nothing of where a running `_malloc` has
got to. `Search` adds that: the headers are one list (`ListIntegrity`), the
blocks before `cur` would not have served (`ScannedBlocksUnfit`), and in the
second search the last block serves if there is a new region whose size did not
wrap around (`LastBlockServes`). The three are proved together: that a merge
keeps the second needs the list, because a block before `cur` must not be the
one that grows; that the second search succeeds needs the third, because when
the search is at the last block nothing is left but that block. That a list is
one is stated without walking along it: a set of headers that contains the
first and is closed under `next` contains all, and `Before(h, a)` are the headers
that some closed set with `a` leaves out. Each operation on lists is shown to keep it by turning a closed
set of the new list into one of the old list, so no induction is needed.

`AllocatorImplementsContract` maps `live` to the blocks that are taken with their capacities, `request` to `query`
while a `_malloc` runs, and `lost` to the two ends of `pc` (`Contract` in `MemAlloc`).
`StepImplements` has a case per action: merges, advancing and growth do not
change what is taken and stutter; `ScanTake` is `Serve`, with the size of the
block between the request and a request with room for another block
(`TakeServes`); `Free` is `Free`, or `FreeAgain` if the block is free already.

**The rotation.** Assumed is that sizes are natural numbers and that the words are
positive, a header field not wider than `size_t` (`WordsAssumption`). The
invariant `IInv` adds to the first two properties who owns
the arrays in each phase (`Ownership`: the new array belongs to nobody until
`SetPixels`, to the image from then on) and that all loops run to the sizes of
the source (`Sizes`). Neither property is inductive alone: that `free` is called
once depends on what the image held several calls before, and that a row fits
on the row counter and the sizes belonging to the same picture. The arithmetic
comes first in the module: the padding is between one and four (`PaddingBounds`), and not
longer than a row with pixels (`PaddingFitsRow`), so taking it from the array is
safe; rows up to the last fit in an array whose size did not wrap (`RowsFit`,
`RowsLeft`).

`ExitZeroMeansRotated` needs to know what is in the arrays and in the file.
`Contents` says it in each phase: the rows read so far are those of the source,
pixel by pixel (`ReadSoFar`); the file written has the rows of the turned picture
up to the present one, and ends there (`WrittenSoFar`); at the end all of them are there
(`ResultThere`). A pixel moves three times: from byte `i * Stride(w) + 3 * j` of
the source to an index of the array, through `rotate_image` to another index,
and back to a byte. That each of these maps is one to one is `IndexSplits`,
`RowEnds` and `Division` (quotient and remainder are unique); `ReadOneMore`,
`RotateTurns`, `WriteOneMore` and `PadOneMore` are reading a row, turning, writing a row and
its padding, for files of any length. `WrittenIsTurned` puts them together. A
picture without columns is complete even if its file is not: the code
reads nothing of it, and `ExitZeroRotates` says so.

**The tester.** `RunTyped` first adds that files hold bytes, so that what the
program wrote is a file the tester may open (`WrittenTyped`). `ComparedSoFar`
then says what the tester knows at any time: both files are read from the same
place or both have come to their end (`ReadFrom`), all rows before the present
one agree, and the present one up to what is left of it. Agreement is stated byte by
byte (`Agree`), so that two chunks which are equal as sequences add to it
whatever their length, a short one included (`ChunkCompared`), and that files which
end in the same place agree behind it. `RowPartsAgree` leads from there to the
rows `VerdictExact` compares. The tester counts the bytes of a row in 32 bits;
a row for which this wraps is compared in part only, so `VerdictExact` has
`RowFits` as a precondition, which the attempt to prove it without showed to be necessary.
Nothing else is assumed than that the buffer is not empty and that files are files.

`TestDecidesWhereRowsAgree` joins both programs. `Tested` says that once the tester
runs, the program has ended well and the file it compares is still what was written:
nothing is enabled after the end (`DoneIsTheEnd`). `ResultThere` says what is in that
file, `VerdictMeans` what the verdict says of it, byte by byte. `RowsAgreeIfTurned` shows
that the bytes agree exactly if the expected file is complete and shows the input turned
left. This takes that the rows begin in the same places, which is `SameRows`. Without it a right result
fails, unless the bytes happen to be equal.

**The sepia filter.** Assumed are `SepiaAssumption` (sizes fit the fields of the
header, bytes are bytes) and `PowersOfTwo`, which is what the proof needs of 2^32
and 2^64: a group of four indices does not straddle a wrap, and a product that
wraps in `size_t` is the same when cut to a field. `IInv` says in seven parts

* what stages a counter may be in (`Typed`) and which image is filtered (`PerfOnly`);
* that sizes are the header's if nothing failed (`SizesRead`), and that
  every row read is inside the array, which may be a null array only as long as
  nothing is to be read (`Room`). From this `FilledArray` concludes that once
  all rows are read the array size did not wrap around, which no line of the
  code checks: `malloc` would have returned too small an array, and a row
  outside it stops the model as it may stop the program;
* what has been filtered so far (`Filtering`, through `Slots`): every pixel below
  `index` has its value, every pixel that a 32 bit index can not reach is
  unset, and in the second half of a measurement the result of the C filter is
  still there, which `SseLikeC` compares with;
* what has been written (`OutputWritten`), and which images there are (`Images`).

Two stages of arithmetic carry the filters. One channel: `SumClose` bounds the sum
of floats by the exact one, `CutClose` and `RoundClose` what cutting and rounding
make of it. One round: twelve bytes are filtered by three passes over registers
that rotate their coefficients; `Columns`, `Lane` and `TwelveBytes` show for each
of the twelve lanes which channel of which pixel meets which coefficient, and
`StoreGroup` that the bytes land on their pixels, modulo the width of the index.
`RasterPixel` and `SepiaHeaderAgrees` are the output file. There is one lemma per
part of `IInv` (`TypedKept` ... `ImagesKept`), with a case per action.

`StatisticsRight` is an induction over the runs. `Account` relates the sum, the
minimum and the maximum of a filter to the times of all its runs so far;
`AccountGrows` adds one, which rests on the sum of a sequence with one element
more being larger by that element. `Accounts` adds how many runs each filter
has had, so that at the end both have had `TestsNum`.

**Reference malloc, threads.** For any number of threads, chunks, fast bins and any
assignment of sizes; nothing is assumed but `FastAssumption` (top is smaller
than the memory from the system, all fast bins may be in use). The invariant
`IInv` is `TypeOK` and `NoFalseAbort` together with

* `FastbinsLinked`: each fast bin, and each list `malloc_consolidate` has detached,
  is a chain of exactly the chunks that belong there;
* `OwnersOK`: each chunk is in one place, and where it is agrees with the sets of
  chunks the user, the arena and the caches hold and with the hands of the threads;
* `MutexOK`: exactly the holder of the mutex is at a label under the mutex;
* `ControlOK`: which operation a thread may be in at each label, and at which
  labels it has a chunk in its hands;
* `PushOK`: a thread about to exchange has `fd` of its chunk equal to the head it
  read, and that is not the chunk itself. The chunk is in its hands and so in no list, and the
  bin stays one if the exchange succeeds, whatever happened to the head in the meantime;
* `PopOK`: the chunk a thread is about to take is in the fast bin, and
  `next` is its present `fd`. It need not be the head any more: others may have pushed in
  front of it. This is where the mutex is needed: a chunk can be pushed
  by anyone, but leaves a list only through the holder, so it can not leave and
  come back in between (the code's comment gives this reason for the lock);
* `SystemOK`: top is smaller than `system_mem` but between the two stores of
  `systrim`, which only the holder of the mutex executes, so the test repeated
  under the mutex can not fail.

There is one lemma per part of `IInv` (`TypeStep`, `MutexStep`, ..., `LinkedStep`,
`AbortStep`), each with a case per action. They rest on lemmas about `Chain`:
a list of which nothing changes stays one (`ChainSame`, `ListsSame`), the rest of a list is one
(`ChainTail`), and a chunk pushed in front of one makes another (`ChainPush`). `rank` makes a chain
a statement about each of its chunks and its neighbour, without induction over
lists.

**Reference malloc, sizes.** `SizesAssumption` admits the three layouts the code
has: 4 byte words with alignment 8 or 16, and 8 byte words with 16. `Builds` splits into them,
and each theorem is arithmetic from there. `LargeStep` shows that the steps of
`largebin_index` follow one another without a gap and in order, which
`BinsOrdered` and `LargerBinFits` need.

**Reference malloc, sequential.** The theorems are for every program, of any length, and for
every answer of `sbrk` and `mmap`, refusals included. `SystemAssumption` says what the code takes for granted of its
build and its system: the alignment is that of two words (the default of the code; the
build with 4 byte words and alignment 16 is not covered), pages are whole multiples of it
with room for two small chunks, `sbrk` and `mmap` serve different ranges, and the tunables are numbers.
`ProgramsAssumption` says what a program may call (`Requests`): anything but a second free of
a block, and `sbrk` by others only upwards, by any number of bytes.

Neither `OneOwner` nor `BlocksServe` is inductive. `OneOwner` is about states between calls; inside one,
chunks are off their list and not yet with the program, or off their bin and not
yet merged. And that `_int_free` finds the neighbour it merges with is a matter of bits in
headers that the property does not mention. `IInv` says that there is a `u`, the chunks that somebody holds
and how their headers have to look, such that `State(heap, call, live, u)`. It has two halves.

*The heap* (`HeapOK(h, u, F, t)`, where `F` are free chunks that are on no bin at the moment):

* `Shape`: chunks do not overlap, each is followed by a chunk, by top or by a fencepost
  with another behind it, and all lie in memory that the system gave; as long as
  the heap is contiguous, between `sbrk_base` and top. This is why merging never goes across a
  gap that another user of `sbrk` has made;
* `Tagged`: the header behind a chunk has its in-use bit cleared, and the right `prev_size`, exactly
  if the chunk is free, and no two free chunks are neighbours;
* `Lists3`, `Indexed`, `Binned`: no chunk is on two lists or twice on one; a fast bin, a list of the cache and a
  bin have only the sizes that belong there; the skip list of a large bin has its first chunk;
* `Owned`: each chunk is free, on a list of chunks in use, or held, and only one of it; those held look as `u` says;
* `Mapped` and `Bounds`: mappings are whole pages; `system_mem` is the size of a contiguous heap.

There is one lemma per operation of the arena, which says that it takes `HeapOK` to `HeapOK`
for a `u` that it names: `Caches`, `ToFast`, `Backward`, `Forward` (in four cases), `Merged`, `Split`, `GivenBack`, `Systrimmed`, `Freed`,
`Fenced`, `Remapped` and others. They rest on how a single write to a header changes `Shape` and `Tagged`
(`Join`, `Cut`, `JoinTop`, `CutTop`, `ResizeTop`, `Retire`), and on lists under insertion
and removal (`PutAt`, `TakeOff`, `Gains`, `Loses`). `malloc_consolidate` and
the exit of a thread are recursive functions over lists of lists: `MergedAll`,
`Consolidated`, `FreedAll` and `ShutDown` are inductions over them (`Induction`, from least numbers). What they carry along is which
chunks are left, because the tail of the list must still be in use when its turn comes, whatever
the merges before it have done.

*The call* (`CallOK`): what is known at each label. `NewChunk` says of the chunk
`_int_malloc` got, and `OldBlock` of the one `realloc` was given, who holds it and how large it is; `Underway` that
a size which is waited for in the cache is there, and that `sysmalloc` is only
reached with a top that is too small; `Served` is `BlocksServe` for the block about to be returned. There is one lemma per action
(`TakeFastStep` ... `ForeignSbrkStep`); `StepKeepsIInv` combines them. The most work is in three places: `sysmalloc`, where top moves to
memory that may or may not be adjacent, the old one ends in fenceposts and is freed while the new one may be trimmed
(`SysRestartStep`, `SysNoncontiguousStep`); `_int_memalign`, where an aligned place in a chunk leaves a leader to be
freed before it and a rest behind (`MemSpot`, `SpotCut`); and `realloc`, which gives back or takes what is behind a block
(`ReallocedStep`).

**The library.** Assumed are `RegAssumption` (registers hold whole bytes) and
`TextsAssumption` (strings have no zero in them, and a client's memory fits the
addresses a register can hold). A client calls each procedure once, so the
invariant `Calls` says that the variables hold what the last call makes of what
the client started with; all else is about the procedures. These are recursive
functions, so that each lemma about them is an induction over data. The library's
induction theorems can not be used for that, because they take an operator. `Induction` is
derived from the existence of least numbers (`Least`) instead, for sets in
place of predicates. With it

* the functions the definitions name exist and are unique (`StopsExist`,
  `ReadsExists`, `PrintsExist`, ..., and `...Unique`); a `CHOOSE` says nothing before that;
* `string_length` and the scan for digits stop at the first place where they
  should (`StopsAt`);
* the value of a numeral, defined by powers of ten, is what reading digit by
  digit computes (`ValueIs`), and reducing to a register at each digit makes no
  difference to reducing once (`RemainderFirst`);
* `PrintUintIs` (a quotient is smaller than its number, so this is a strong induction)
  gives the digits, their value is the number, and the first is
  no zero (`PrintUintWrites`);
* `NegIs` undoes the complement of two, the least number included; `CopyIs` is
  what `string_copy` leaves at every address.

**The dictionary.** Assumed are the shapes of the constants (`DictionaryAssumption`)
and `KeysAssumption`: no key is empty, as in `words.inc`. Without the second,
`ValueAt` would be wrong after a failing read, for then the length in `rdx` need
not be that of the string in the buffer: if the very first read fails, the old
byte is a zero, which is stored like a letter.

The first part is the layout, for any list of words. `EntryAtIs` and
`GluedAll` (inductions over the list) say where each entry lies in the data;
`EntryInMemory` and `MessagesInMemory`, that in any memory whose words
are intact the link, the key, the value and the messages lie where
the program looks for them. The second part is the run. `IInv` consists of

* `Sound`, the types, and `WordsIntact`. That a byte written never reaches the words needs
  only that `read_word` stops at the length of the buffer plus one;
* `Clean`: whichever reads fail, the buffer holds a string that is either as long as
  `rdx` says or empty, and the message behind the buffer is damaged only
  by a word as long as the buffer;
* `Search`: the entry `find_word` stands at is one of the list, and no entry
  laid out later has the key in the buffer. So the first one found is the newest, and
  when the links end, there is none;
* `Reading`: while no read has failed, what was read are blanks and then letters of
  the word, and these are in the buffer. `WordHas`, `WordIsLonger` and `WordEnds`
  relate them to `Word`, which is defined by the longest stretches of the input;
* `LookupCorrect` itself.

**Only model-checked.** Of `Ptmalloc`: `MallocStateOK`, of which `IInv` has the boundary tags, the
fast bins and which bin a chunk is in, but not the order of a large bin; `NoCheckFires`, which holds
in the runs but not for every program and system (section 5: lines 2777 and 2796), so that
no theorem can state it as it is. Of `TestDecides`, that a right result fails where an aligned row is
followed by another: this needs the bytes of the pictures to be different, as they are in the run. Liveness
(`CallReturns`, `MutexReleased`, `Answers`) is out of the prover's reach.

## 5. Where code and documentation disagree

Five disagreements have a run whose counterexample shows them (the runs with
expectation "violation", quoted under `findings` in `PROJECT.json`). While
modelling we met others. The models do what the code does there:

* `mem.c:262`: `_free` merges once per block and moves on, so a block that was
  merged is not merged with the next free one; README.md:40-42 says that it is
  merged as long as possible.
* `bmp.c:72`: the size in the header counts the padding in pixels;
  README.md:57 says that it is in bytes.
* `lib.inc:247`: a string as long as the buffer is copied and its terminator
  written behind it; line 244 promises zero then. `CopiesWhole` leaves this length out.
* `bmp.c:51` and `bmp.c:58`: when a file can not be opened, `from_bmp` returns `READ_ERROR`, and
  then `fclose(NULL)` ends the program before the status is reported. README.md:183-186
  asks to handle errors of opening and closing, and `bmp_io_status.h` has a status for them.
* `bmp_reader.c:28, 37`: when pixels cannot be read, the new array is not freed
  (the pixels of the image are, which are none yet). `HandedOverIsFreed` states
  that this is the only array that is lost.
* `bmp.c:58`: the result of `fclose` is ignored, so bytes lost there go with exit
  status zero. `ExitZeroRotates` excludes this case by `lost`.
* `bmp.c:99`: rows that are aligned already get four bytes of padding;
  README.md:48 says none, and the tester skips none (`tester/src/bmp.c:37`).
  Reading and writing agree with each other, so `ExitZeroRotates` holds, but a
  right result fails its test if it has two aligned rows or more: `TestDecides`.
* `sepia_filter_sse.asm:34`: the SSE filter rounds while the C filter cuts, so
  their files differ, although `test-runner.sh` compares both with one file.
  `SseLikeC` states that they differ by at most one.
* `bmp_reader.c:21` of the sepia filter: the result of `fread` is ignored; a short
  source ends in a picture of uninitialised bytes and exit status zero.
* `main.c:93` of the sepia filter: with `-sse` and a single file the number of
  arguments passes the check, and a null file name crashes.
* `main.c:13` of the sepia filter: the printed minimum is 999999 if every run took
  longer than that. `StatsOfRuns` states it.
* `lib.inc:239`: a minus without digits has length one; line 230 promises zero.
  `ParsesPrefix` leaves this text out.
* `main.asm:30`: the line break after an error message goes to stdout;
  README.md:101 asks for stderr. `LookupCorrect` states it.

In `docs/malloc-impl.c`:

* Lines 2919-2924 (`systrim`): if top has exactly `MINSIZE` bytes, `top_area` is
  -1, which is huge when compared with the unsigned `pad`, and the release of a
  negative amount makes the heap a page larger. Lines 2896-2902 say that the
  function gives memory back. `max_system_mem` does not follow, so that `calloc`
  (line 3613, "Only newly allocated memory is guaranteed to be cleared") can take memory that was
  used before for new, against lines 630-631, "with all locations set to zero": `malloc_calloc`. In a heap at 8200 with pages of 4096 the program is
  `malloc(24)`, `malloc(7440)`, `malloc_trim(0)`, `malloc(4000)`, free both large
  blocks, `malloc_trim(0)`, `calloc(1, 20000)`. Where `sbrk` returns cleared
  pages whenever the break goes up again, as on Linux, nothing is seen of it; the code's
  own default, `MORECORE_CLEARS` 1, does not count on that (lines 529-536).
* Lines 2777-2780 (`sysmalloc`): if the second `sbrk` fails, the heap need not end
  on a page, and the assertion at 2542 fails in the next call that gets here. The runs leave
  enough room for that `sbrk` to succeed.
* Line 2796: if the heap is not contiguous and somebody else left the break
  misaligned, an assertion fails, although it says only that `sbrk` must align.
  The programs move the break by whole pages.
* Lines 4445-4505 with 5407-5421: `mallopt` consolidates and then lowers `max_fast`, but
  a `free` that has compared with the old value pushes afterwards. The
  precondition at 1770 ("there are no existing fastbin chunks") and the assertion
  that bins past `max_fast` are empty (2308) do not hold then. `ChunksAccounted`
  shows that nothing is lost: consolidation visits all fast bins.
* Lines 3927-3930: consolidating and trying again "happens at most once". With
  frees of other threads it can happen more often; `MutexReleased` shows that it ends.

## 6. What is not modelled

* The debug output and `err()` of the allocator: they change no state.
* `test5` writes `head->capacity` from outside the allocator; no call does that,
  and nothing is promised then. The rest of `test.c` is among the calls the
  model makes. Nor is it modelled that a client frees a block whose header was absorbed by a
  merge (`mem.c:259`): it frees only blocks whose header is still linked.
* The allocator's unit tests, the other scripts and Makefiles.
* Of the reference malloc: arenas other than the main one and what chooses among
  them (`arena.c`, with `heap_trim` and `arena_get_retry`, is not in the
  repository), so also the second attempt of a failed call in another arena;
  hooks and `malloc_check`; memory tagging, perturbation, the dumped arena;
  statistics (`mallinfo`, `malloc_stats`, `malloc_info`); the wrappers `valloc`,
  `pvalloc` and `posix_memalign`, and `mcheck`-like debugging. `madvise` in
  `malloc_trim` has no effect that the model could see.
* In `Ptmalloc`: contents of blocks, but for which bytes `calloc` clears and
  `realloc` copies; `fd` and `bk` and the checks that compare them, because bins are
  sequences; `mmap` returns the lowest hole, and the system refuses memory only
  when its range is full; one thread, for which the code takes no mutex. `free_to_fastbin`
  leaves out the check at 4512, that the chunk pushed on belongs to the same bin: that all chunks of a
  fast bin do is part of `MallocStateOK`.
* In `FastBins`: sizes, splitting and merging, growth of the heap, pointer
  mangling, and the frees made while the mutex is held (`realloc` and
  `memalign` of what they cut off). `CheckNext` reads the next size and `system_mem` at once, where
  lines 4458-4459 read one after the other, and leaves out the smallest size (4456), which is constant there;
  what it finds is only a reason to look again under the mutex. A `Merge` does not go on to
  consolidate or trim (4624-4633): both are operations of their own. An access is one step and
  all threads see it: relaxed atomics are taken to be sequentially consistent.
* `transform/rotate.c` of the sepia filter: nobody calls it.
* Of a header that is cut short, the sepia filter may have any of the fields; bytes of a
  single field do not come apart.
* Contents of heap blocks; bits of floating point numbers; endianness and field
  layout of headers; messages on the terminal; failing or short writes of the
  assembly programs, which ignore them.

## 7. Plan

Done: the allocator first (model, contract, refinement, proofs), then the two
picture programs with the test of the rotation, the library and the dictionary,
then the reference malloc: its arithmetic, its main arena, and its fast bins
under threads. Theorems now state every safety property that a run checks,
but for two of `Ptmalloc` and the other half of `TestDecides`. What could come next:

1. Of `MallocStateOK` the order of large bins, as another part of `HeapOK`. What each operation
   does to bins is in `UnlinkFrom`, `LinkUnsorted` and `Inserted`.
2. `NoCheckFires` under the assumption that the second `sbrk` of `sysmalloc` succeeds and others leave the
   break aligned; `CallocClears` for programs that never trim a top of `MINSIZE`.
3. A contract for `Ptmalloc` like `MemAllocAbs`, shared by both allocators.
