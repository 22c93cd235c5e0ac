# Verification of nginx-inside-out

TLA+ models, TLC runs and TLAPS proofs for the code under `src/src/core` and
`src/src/os/unix`: an annotated, still growing re-creation of the core of nginx. There
is no server yet (`main()` is empty); what exists are the building blocks the server
will stand on. Each module translates the source as it is, unfinished and mistaken
parts included. Where the code contradicts what its own comments promise, a run
records the contradiction and the other runs work around it openly.

File names below are relative to `src/src/core/` unless they say otherwise.

## 1. Inventory

| Component | State | Operations | Module |
|---|---|---|---|
| Shared mutex, `ngx_shmtx.c` | lock word and wait word in shared memory, a POSIX semaphore, `spin` | create, destroy, trylock, lock, unlock, force_unlock, wakeup | `Mutex`, `Shmtx` |
| Memory pool, `ngx_palloc.c` | chain of blocks (`last`, `failed`), `current`, list of large chunks, list of cleanups | create, palloc, pnalloc, pcalloc, pmemalign, pfree, cleanup_add, reset, destroy | `Allocator`, `Pool` |
| Dynamic array, `ngx_array.c` | `elts`, `nelts`, `nalloc`, memory in a pool | create, init, push, push_n, destroy | `Array` |
| List, `ngx_list.c` | chain of parts, memory in a pool | create, init, push, the documented loop | `List` |
| Queue, `ngx_queue.h` | two pointers per node | init, insert at head, at tail and behind a node, remove, first, last, next | `QueueSpec`, `Queue` |
| Slab allocator, `ngx_slab.c` | page headers, list of free pages, slots and statistics in a shared zone | sizes_init, init, alloc_locked (unfinished) | `Slab` |
| Formatted output, `ngx_string.c` | none; a buffer and its end are passed in | vslprintf, slprintf, sprintf_num, sprintf_str, cpystrn | `Format` |
| Log, `ngx_log.c` | the log's descriptor | log_stderr, log_errno, log_init | `Log` |
| Error texts, `os/unix/ngx_errno.c` | first and last known error, a table of texts | strerror_init, strerror, in four builds | `Errno` |
| Heap, `os/unix/ngx_alloc.c` | none | alloc, calloc, memalign | inside `Pool` |
| Atomic operations, `os/unix/ngx_atomic.h` | none | cmp_set, fetch_add, pause | the steps of `Shmtx` |
| Shared memory, `os/unix/ngx_shmem.c` | an address, a mapping, a descriptor | alloc, free, in two builds | `Shmem`, `Zone` |
| Files, times, buffers, cycle, configuration, epoll, red-black tree | declarations, one `pread` | | not modelled, section 7 |

How they interact:

- **Mutex and processes.** Workers share nothing but the two words and the semaphore.
  Every other component is used by one process at a time.
- **Pool and heap.** Blocks and large chunks come from `malloc`/`posix_memalign`, any of
  which may fail in the middle of an operation that has already changed the pool.
- **Array, list and pool.** Both cut their memory from a pool. The array also moves
  `p->d.last` of the pool's first block itself, behind the allocator's back, to grow or
  to give memory back in place: three components meet in that one pointer.
- **Log, format, error texts.** `ngx_log_init` reports a failing `open` through
  `ngx_log_stderr`, which formats into a fixed buffer that `ngx_log_errno` partly
  overwrites, and leaves a byte for the line feed. The texts come from a table that
  `ngx_strerror_init` builds first; when it cannot, it reports that through the same
  `ngx_log_stderr`, whose lookup in the table it must avoid.
- **Slab and shared memory.** A slab pool lies in the mapping `ngx_shm_alloc` made and must
  stay inside it. The pool has a field for a mutex, but nothing in the source locks it, so
  the two are not composed.

What is hard in each, and what correctness means:

- *Mutex*: interleavings of test, compare-and-set, registration and wake-up; a stale wait
  count; a wait count below zero; deaths of owners and waiters; failing semaphore calls;
  endless spinning. Correct: one owner, no lost wake-up, balanced wake-up books,
  progress, and a mutex as an observer defines it.
- *Pool*: unsigned arithmetic around alignment, failure counters that move `current` in the
  loop that reads it, half-done operations, reuse of emptied nodes. Correct: requests
  are disjoint and inside their blocks, every chunk has exactly one owner and comes back,
  and to its users the pool is an allocator of disjoint pieces.
- *Array and list*: decisions taken from `p->d.last` long after it was the array's own;
  parts that are half made. Correct: memory in use is granted memory, slots are inside it,
  iteration and insertion agree.
- *Queue*: the order of assignments in macros; stale pointers in removed nodes. Correct:
  consistent rings that implement sequences.
- *Slab*: headers take room from the pages they describe; a list of runs in which one run
  is split. Correct: pages inside the zone, each free, handed out once or accounted for as
  lost, statistics that agree.
- *Shared memory*: `open`, `mmap` and `close` fail one by one. Correct: the result follows
  the mapping, nothing else is kept, the log names what failed.
- *Format and log*: one bounds check covers several stores; three lengths decide what is
  clipped. Correct: nothing past the buffer, the text that was asked for, the error kept.
- *Error texts*: the first and the last known error among gaps, a table that is half
  written when memory runs out. Correct: every known error has its own text, no entry is
  read before it is written.

`PROJECT.json` lists the hazards one by one at their lines, with the properties that guard
each; a hazard without a property says why.

## 2. Plan

Done, in order of importance: the mutex (the only concurrent component) with its abstract
specification, all its safety proved; the pool with the abstract allocator it implements,
all its properties proved; the queue with its abstract specification, and the proof that
it implements it; array and list composed over the pool, proved; shared memory and the slab
pool composed into a zone, proved; error texts composed into formatted output and the log,
proved down to the text of every line.

Still to do, when the source gets them: several pages and chunks of a page in `Slab`, the
mutex of a slab pool (`Zone` would then take in `Shmtx`), the rest of `ngx_log_error_core`,
the event loop.

The bound that shapes the plan is TLC's: the pool's state is large, so `Containers` is
checked over a pool of two blocks, and everything about longer chains is checked on `Pool`
alone.

## 3. Modules and the code

**`Mutex`** is what a user of a mutex may rely on: an owner, and for every process whether it
wants in, is in, or is gone.

**`Shmtx`** has one step per access to a shared word. `lock`, `wait` and `sem` are
`*mtx->lock`, `*mtx->wait` and the semaphore's value; `pc` says which access a process makes
next and `at` for which of the attempts of `ngx_shmtx_lock` (or for trylock). `Test` and
`Cas` are the two halves of `*mtx->lock == 0 && ngx_atomic_cmp_set(...)`; `SpinPass` the
loop over `n`, counted in doublings (`SpinPasses`), which for `spin == -1` never ends;
`Register`, `Deregister`, `SemWait`, `SemWaitFails` and `Yield` the rest of lock; `WakeRead`,
`WakeCas`, `Post`, `PostFails` are `ngx_shmtx_wakeup`. `seen` is its local variable
`wait`. Writes are locked instructions, so steps are sequentially consistent. `multi` is
`ngx_ncpu > 1`, and `semaphore` what `sem_init()` decided. `Crash` lets a process die
anywhere. `Deregister` leads to `SemWait` and not out of the function, because the code has
no return there (`ngx_shmtx.c:157`).

**`Pool`** keeps a pool in one record and writes each function as an operator from a pool to
the set of its outcomes, so that functions that call each other (`ngx_palloc_large` calls
`ngx_palloc_small` for its node, `ngx_pool_cleanup_add` calls `ngx_palloc` twice) compose as
in the code. Sizes of structures are those of a 64-bit build. A pointer is a block and
an offset. `allocs` records the spans granted to small requests, `heap` the chunks
obtained and not returned. An uninitialised pointer in use sets `wild`, after which the
model stops.

**`Allocator`** is what the users of a pool rely on: a set of granted pieces that do not
overlap in a byte, which grows by what nobody has, loses one piece of the heap at a time, or becomes
empty. Under `Granted`, the spans of `allocs` while the pool lives and the chunks of `heap`,
every function of `Pool` is one of these or nothing.

**`Array`** and **`List`** extend `Pool`; **`Containers`** puts one of each into a pool together
with other users of it. `given` records the slots handed out.

**`QueueSpec`** is a family of sequences. **`Queue`** has the macros with their assignments in
order: each operator applies one assignment to the result of the previous one, as the C code
does. `inUse` are the initialised heads and the elements in some queue. `Walk` is the loop
over a queue with `ngx_queue_next`, which the mapping to `QueueSpec` uses.

**`Slab`** lays a zone out with the real arithmetic (`PageCount` is the correction by `m`,
`StartOf` the alignment of `pool->start`) and hands out its first page, and no other:
`free` is the run `pool->free` leads to, and `TakePage` empties it when it is longer than a
page, because the code links the neighbours of the run to each other and not to the header
of the rest. That header is right and nothing leads to it; it is kept as `rest`. A run of one
page stays in the list with its header overwritten (`taken`). A request that finds no page gets
what `ngx_slab_alloc_pages` never set (`Unset`): NULL by chance, with which the zone goes on,
or anything else. `state` becomes `hung` in the endless loop at `ngx_slab.c:209`, and
`wild`, where the model stops, after such a value, after a write through an overwritten
header (`Stray`), and after a slot outside the tables.

**`Shmem`** has one step per system call of `ngx_shm_alloc`: `AllocAnon` for the build with
anonymous mappings, `Open`, `Map`, `Close` for the one with `/dev/zero`. `maps` are the
mappings of the process, numbered by the call that made them, `failing` and `logged` the
system calls that failed in the current call and those the log speaks of. **`Zone`** puts a
`Slab` into what was mapped: its size is the zone's, and it is used only while it is mapped.
No file of the source calls either; `Zone` is the caller that `ngx_slab.c:80` describes.

**`Errno`** builds the table of `ngx_strerror_init` entry by entry (`FindRange`, `AllocList`,
`CopyText`), with a `malloc()` that may fail each time, for the four ways builds learn which
numbers are errors. `strerror` is a function from numbers to what the library says of them,
in the three ways it has to say that it does not know. `Looked` is the lookup of
`ngx_strerror`.

**`Format`** treats a buffer as the sequence of bytes before its write pointer, and a format as
a sequence of directives. `ngx_sprintf_num`, `ngx_sprintf_str` and `ngx_vslprintf` return
the buffer after the call. `Scale` is the power of ten a fraction is multiplied with, in the
width of the integers. Below the line stands the reference: `Rendered` says what a
directive means, by positional notation and by rounding to a multiple, without the code's
loops, carry and 32-bit shortcut. Negating the smallest integer is undefined in C; the build
wraps, and so does the model.

**`Log`** starts with the steps of `Errno`, reports their failure (`SetupFailed`), and otherwise
runs `ngx_log_stderr` in steps (message, error, line feed, return) and `ngx_log_init` around
it. `name` and `block` are the path and the size of its copy.

The `MC...` modules only give constants their values.

## 4. Runs

| Run | Checks | Shows |
|---|---|---|
| `shmtx_safety` | `TypeOK`, `MutualExclusion`, `NoLostWakeup`, `WakeupsAccounted`, `IsMutex` | with three processes, two deaths and one failing semaphore call, with and without a semaphore, no interleaving gives two owners or loses a wake-up while nothing fails; each failure puts the wake-up books out by one at most; every step is one of the abstract mutex |
| `shmtx_live` | `RetakenAfterRelease`, `SomeoneGetsIn` | a mutex released while somebody sleeps is taken again; without a semaphore, as long as somebody asks, somebody gets in |
| `shmtx_owner_sleeps` | `OwnerNeverSleeps` (violated) | the owner can fall asleep on the semaphore |
| `pool` | `TypeOK`, `SmallAllocationsApart`, `LargeChunksOwned`, `LargeNodesIntact`, `NothingLargeLeft`, `CurrentSkipsFailedOnly`, `IsAllocator` | small requests stay apart and in bounds, large chunks have one owner and come back, through failures, reuse and reset; `current` is past exactly the blocks that failed more than five times; the pool implements `Allocator` |
| `pool_destroy` | `EachBlockFreedOnce` (violated) | destroying frees the first block once per block |
| `containers` | `CTypeOK`, `SmallAllocationsApart`, `PiecesGranted`, `ArraySlotsInside`, `IterationVisitsPushes` | growing and shrinking in place never touches others' memory |
| `array_push` | `ArraySlotsGivenOnce` (violated) | two pushes return one slot |
| `queue` | `LinksInverse`, `IsQueue`, `EndsAreEnds` | the rings stay consistent and implement sequences, with and without `NGX_DEBUG` |
| `slab` | `TypeOK`, `PagesInZone`, `PagesAccounted`, `StatsAgree`, `ZoneOrNothing`, `PoolInMapping` | in a zone mapped by the `/dev/zero` build (the other never returns one), every page lies in the zone and in a mapping that exists, and is free, handed out once or lost with the run that was split off by the first request; whatever requests find no page, the statistics agree with the page handed out; whatever fails in `ngx_shm_alloc`, the `/dev/zero` build leaves nothing behind |
| `slab_hang` | `RequestsAnswered` (violated) | a request above eight bytes never returns |
| `shm_alloc` | `MmapFailureReal` (violated) | `ngx_shm_alloc` with anonymous mappings reports that a successful `mmap()` failed |
| `log` | `InBuffer`, `LineFaithful`, `ErrorKept`, `LogFileNamed`, `LogUsable`, `ErrorsDescribed`, `EntriesReadAreWritten` | every conversion at many distances from the end of the buffer is clipped and not garbled, the error survives, the log is named as asked; every error has its text in all four builds, and a table that could not be made is not read |

### Bounds, and why they are enough

- *Mutex.* Three processes are an owner, a sleeper and one that overtakes; the accounting
  needs no more than two registrations in flight against one wake-up. One spin pass
  already has every transition of the spin loop. Two deaths, so that the books are out in
  both directions and by more than one, and one failing call at every place; the theorems
  of section 6 remove all these bounds.
- *Pool.* Blocks of 152 and 160 bytes hold one or two requests of 57, or one of 80, so that
  every boundary of `ngx_palloc_small` is met, and a request of 80 goes to the heap from the
  smaller one. Three chunks and three nodes cover an emptied node in front of, behind and
  between full ones. Chains grow to nine blocks because `current` moves only after six
  failures; beyond two blocks they are explored without large chunks, cleanups and failures
  (`LongChainsAreSmall`). The theorems of section 6 have none of these bounds.
- *Containers.* One block of 168 bytes holds an array and little else, so that in-place
  growth, growth stopped by the block's end, a move to a second block and one to the heap
  (one chunk) all happen. `MaxGiven` and `MaxListed` of three fill a part or an array and
  one more. The other users of the pool ask for 32 bytes or for none; `FewEmptyRequests`
  keeps at most one empty piece at a time, and none beside a list.
- *Queue.* Two heads and three elements have every shape in which two neighbours of a node
  coincide or differ.
- *Slab.* The real page size and shifts. The zones lie on both sides of each size
  at which the correction `m` changes, up to three pages. Two calls of
  `ngx_slab_sizes_init` suffice to disturb its counter. Three counted requests
  (`MaxCounted`) are the one that gets the page and two that find none, in the same slot or
  in others. Two calls of `ngx_shm_alloc` have a
  mapping that `munmap()` refused to remove beside a new one.
- *Log.* A buffer of 64 bytes instead of 2048 and 10-bit integers with a 5-bit half instead
  of 64 and 32, in which the scales of fractions up to three digits fit, as those of 19 fit
  into 64 bits; fillers place the end of the buffer, and the start of the reserve, before,
  inside and behind each conversion. Errors are searched over windows of eight numbers
  (0..7, and 13..27 around an EPERM of 20) instead of a thousand, with known ones on the
  edges of a window, inside, behind gaps and outside.

### Deadlock

`queue` and `log` run with the deadlock check; a program whose `ngx_strerror_init` failed is
stopped by its caller, which is the step `Stopped` of `Log`. The others switch it off because the modelled
life ends: a mutex is destroyed, or everybody is asleep behind a sleeping owner (the
finding of `shmtx_owner_sleeps`); a pool is destroyed or its bounds are used up; a slab
allocator hangs.

### Fairness

`shmtx_live` assumes weak fairness for the steps the code takes on its own in each process
(`Step`), which is what an operating system's scheduler gives a runnable process, and for
leaving the critical section, without which no mutex makes progress. A process is never
forced to ask for the mutex, and neither deaths nor faults are fair (there are none in this
run). `sem_wait` gets weak fairness only: the semaphore may prefer others. `SomeoneGetsIn`
is conditioned on the absence of a semaphore, because with one the sleeping owner
breaks it. Individual starvation is possible and not excluded by any property.

## 5. Where code and comments disagree

Five violations, each a run of its own and an entry under `findings`:

- `ngx_shmtx.c:157`: after its last attempt succeeded, the owner goes to `sem_wait()`.
- `ngx_palloc.c:114`: `ngx_free(pool)` in the loop over `p`.
- `ngx_array.c:138`: `a->nelts;` counts nothing.
- `ngx_slab.c:209`: the loop condition never changes.
- `os/unix/ngx_shmem.c:10`: an assignment where a comparison was meant; the build the
  configuration selects never gets a zone, and keeps every mapping.

Others are carried by the models without a run of their own:

- `os/unix/ngx_alloc.c:98`: a failing `posix_memalign` returns an uninitialised pointer;
  `MemalignFails` allows NULL or a stop (`wild`).
- `ngx_palloc.c:358`: the counter `n` is not initialised; `PlaceLarge` allows every number
  of nodes looked at.
- `ngx_palloc.c:312`: a block is passed at its sixth failure, by `failed++ > 4`.
- `ngx_palloc.c:197`: for a pool size that is no multiple of eight the aligned pointer may
  pass the block's end and the difference wraps; `Fits` has the wrap, and the theorem
  about the pool assumes whole words.
- `ngx_palloc.c:140`: resetting keeps `pool->cleanup`, whose nodes were in the pool.
- `ngx_array.c:158`: `ngx_array_push_n` uses `p` before it is set when the array must grow.
- `ngx_slab.c:64` onwards: shifts counted in statics, a slot used unset, branches not
  written. Requests are followed up to that point and the model stops there (`wild`).
- `ngx_slab.c:354-356`: when a page is taken from a longer run, `pool->free` is pointed back at
  itself and the header of the rest is linked nowhere, though the comments (lines 335 and
  369) speak of the pages that remain available. A zone hands out one page; the next call of
  `ngx_slab_alloc_pages` has no round of its loop and ends without a return value.
  `PagesAccounted` says so: `pool->pfree` counts pages that `pool->free` does not lead to.
- `ngx_slab.c:215` has no semicolon, and `ngx_slab.c:272` calls a static function that is only
  declared below: the file does not compile. It is read as if it did.
- `ngx_slab.c:244`: `mask << NGX_SLAB_MAP_SHIFT` has no effect, so the loop over the chunks of a page
  has no rounds and a page that a slot leads to is never used again (`Serve`).
- `ngx_slab.c:357`: the only page of a zone is handed out and stays in the list; the next
  request writes through its overwritten header (`Stray`).
- `os/unix/ngx_errno.c:140,147,305`: `mxg`, `len` and `mgs` keep the builds without
  `strerrordesc_np` from compiling; they are read as `msg`, `msg->len` and `msg`.

## 6. Proofs

All in modules of their own, for every value of the constants that satisfies the named
assumptions of the component. Nothing is assumed beyond those, except where stated.

**`ShmtxProofs`**

- `TypeCorrect`: `Spec => []TypeOK`.
- `MutualExclusionHolds`. `MutualExclusion` alone is not inductive: that a process in the
  critical section is alone says nothing of who may pass the compare-and-set next.
  `LockInv` adds that whoever is inside is the value of the lock word (`InsideOwns`),
  and that `at` and `pc` agree (`AtMatchesPc`), so that a lock attempt that succeeds leads
  where the code leads.
- `ImplementsMutex`: `Spec => IsMutex`. Under `LockInv` each action is a request, a grant, a
  release, a refusal or a death of `Mutex`, or changes nothing it can see.
- `WakeupsBalance`: `Spec => []WakeupsAccounted`, for any finite set of processes and any
  number of deaths and failing calls. `Drift`, what the wait word, the semaphore and the
  posters hold more than there are sleepers registered, is out by at most one for each
  failure (`BooksKept`: a step changes it only together with a failure, or once when the
  owner strays; `BooksBound` is the arithmetic). The counting moves one process at a time
  into or out of `Registered` and `Posting`, and needs `Procs` finite, which
  `ShmtxAssumption` states.
- `WakeupsNeverLost`: `Spec => []NoLostWakeup`. With no failure the drift is zero.

**`PoolProofs`**

- `SmallRequestsStayApart`: under `WholeWords` (pool sizes are multiples of eight),
  `Spec => []SmallAllocationsApart`, for all sizes, any number of blocks and any failures.
  `PoolInv` adds to the property that every span granted ends at or before its block's
  `last`, and `last` at or before the end (`Layout`); that is what makes the next cut
  disjoint from all earlier ones. `max <= size - PoolHdr` is what makes the unchecked
  first cut from a new block safe. There is one lemma per function of the code, along its
  call graph.
- `PoolTypeCorrect`: `Spec => []TypeOK` under the same assumption, from the same invariant and
  `FreesInv`.

**`PoolRefinement`**, under the same assumption

- `ChunksOwnedOnce`, `NodesLiveInPool`, `DestroyFreesLarge`: the three properties of the list of
  large chunks. They need each other: a chunk has one owner only as long as nodes are never
  cut from memory others use, and what is freed is right only if nothing is listed twice.
  `LargeInv` is their conjunction for a living pool. `Kept` says of a function that it keeps
  `LargeInv` and takes nothing from anybody (`Grows`), failing or not; each function that
  allocates has a lemma that concludes it, along the call graph.
- `ImplementsAllocator`: `Spec => IsAllocator`. `StepKinds` sorts the steps into those that
  allocate (`Kept`), those that take one chunk back and those that empty the pool; pieces do
  not overlap by `Apart` within a block, because blocks are numbered from one and the heap
  is zero, and because chunks are different addresses. `Apart` and `Overlap` are about bytes:
  an empty request is granted an empty span, which may lie anywhere.
- `CurrentLeavesFailed`: `Spec => []CurrentSkipsFailedOnly`. The property is not inductive:
  `Ordered` adds that blocks that were left have failed at least six times, those from
  `current` on at most five times, and the last never, so that one round of
  `ngx_palloc_block` moves `current` past exactly those at five and the counters stay sorted.
  `OrderedLonger` is that round in numbers.

**`QueueProofs`**

- `RingsStayClosed`: `Spec => []LinksInverse`, for any number of heads and elements, in both
  builds. The property is inductive with types alone; the work is in one lemma per
  macro, which computes the pointers after all its assignments, including the shapes in
  which two of the nodes it writes are the same.
- `PointersAreSequences`: `Spec => IsQueue`. `Represents` says that a family of sequences is
  the contents of the rings: each ring visits its sequence and comes back (`Ring`), no node
  is twice in any of them (`Apart`), and every element in use is in one. Its existence is
  the invariant. `SpliceIn` and `SpliceOut` are the heart: a node linked in behind the k-th,
  or out, is one insertion into one sequence, or one removal. `WalkIs` shows that the loop
  over a queue finds the sequence, by the least place at which it would not, and needs
  finitely many heads and elements for the loop to be long enough.
- `HeadAndTailAreEnds`: `Spec => EndsAreEnds`, from the same lemmas.

**`ContainersProofs`**, under `WholeWords`

- `ContainersTypeCorrect`, `ContainersStayApart`, `ContainersKeepPieces`,
  `ArraySlotsStayInside`, `LoopVisitsPushes`: the five properties of the run. The array moves
  `last` of a block itself, so the lemmas of `PoolProofs` are not enough: `CInv` says that
  nobody but the array holds any byte of its pieces, not even the nodes of the pool's list
  of large chunks, so that shrinking and growing in place meets only free memory. For the
  list, the slots given are the parts joined so far, which is what the documented loop
  visits. `CInv` quantifies over every piece and every byte, so TLC checks its consequences
  and not `CInv` itself. The proof attempt showed that disjointness must be about bytes and
  not about spans: `ngx_array_destroy` can leave an empty span of somebody else inside
  memory that is free again.

**`ZoneProofs`**, for any page size and shifts, and zones that hold a page (`SlabAssumption`)

- `PagesFitZone`: `Spec => []PagesInZone`. `LayoutFits` is the arithmetic of `ngx_slab_init`: page
  headers are placed for a first count of pages that ignores the alignment of `start`, and
  `m` takes back what then does not fit.
- `PagesAreAccounted`, `StatisticsAgree`: neither property is inductive. `PagesInv` names the three
  places the pages of a zone can be in: all in one run of the list (`AllListed`), the first
  handed out and the others split off (`RestSplit`), or the only one handed out and still
  in the list (`OnlyTaken`). From the last two no page is taken any more (`PageTaken`), so that
  at most one slot leads to a page, and it is page 0 (`SlotInv`).
- `NothingElseKept`: `ZSpec => []ZoneOrNothing`, with an invariant about the calls under way.
- `PoolLiesInMapping`: `ZSpec => []PoolInMapping`, from the layout (`LayoutFits`), the invariant of
  `Shmem`, by which a call that says "ok" has a mapping, and `UseInv`: only the `/dev/zero`
  build says so, and the pool is as large as the zone.
- `SlabTypeCorrect`: `Spec => []TypeOK`. The number of rounds of the loop that takes a
  logarithm (`Rounds`) exists because every shift makes the number smaller.

**`LogProofs`**, for any formats, buffer, tables of errors and paths that satisfy the
assumptions of `Format`, `Errno` and `Log`: the texts are C strings, `strerror()` can be asked
about every number that is searched, and (`NumbersAssumption`) the machine can hold what is
printed. The last says that an integer argument has the width `Bits` of `int64_t` and
`uint64_t`; that a double, rounded, fits it, without which the conversion in the code is
undefined; that so does ten to the width of its fraction, which the code multiplies in
that width (no format in the source asks for a fraction of more than 19 digits); and that so do the sizes of the table and
of its texts, which are printed as `size_t` when `malloc()` refuses them.

- `ErrorTextsAreRight`, `UnwrittenEntriesStayUnread`: `TableInv` follows the table entry by
  entry. Once startup is over the entries between the first and the last error hold what
  `strerror()` says of them; the search of the window finds the first and the last
  (`FirstFound`, `LastFound`), whatever gaps lie between.
- `OpenedLogIsTheNamedOne`, `LogEndsUsable`: `ControlInv` ties `name`, `block` and `fd` to the
  place in `ngx_log_init`.
- `LineStaysInBuffer`: `Spec => []InBuffer`. `BufferInv` adds the room each step leaves for the
  next. `ConvertFits` has one lemma per conversion; the stores without a check of their own
  (signs, points) are covered by the check of the loop over the format.
- `LinesAreFaithful`: `Spec => []LineFaithful`. A buffer may hold less of a text than fits by
  one byte, and its last byte need not be the text's, because a hexadecimal pair that does
  not fit leaves a byte to the next directive; `Clip` says exactly that, `Adds` says it of
  what a function appended, and `AddsJoin` that two such functions in a row do it for the
  joined text. With `Clip` as the invariant (`LineInv`), the line feed takes the
  doubtful byte. Each conversion has its lemma. `Divided` comes out of the loop as the one
  numeral of the number (`Expansion`), in the 32-bit and the 64-bit branch, by recursion over
  the quotients and facts about powers that the modules prove themselves; a fraction that
  rounds up to the next whole number carries (`FractionCarries`).
- `ErrorsAreKept`: `Spec => []ErrorKept`. The message of `LineInv` is shortened to leave 50
  bytes, so the error's text is never what the end of the buffer clips.

**`Induction`** has what all these use in place of induction over an operator, which the provers
cannot instantiate: a set of numbers that is not empty has a least element, and a greatest
one when bounded. From the first follows that a function defined by recursion over smaller
numbers exists (`RecursionHasSolution`, stated with functions for the steps), and that a set
that has zero and the successor of each of its numbers has all of them (`UpTo`,
`UpToStrong`).

Only model-checked: the two liveness properties, which depend on fairness.

## 7. Not modelled, and why

- `ngx_shmem.c` for System V segments: a TODO in the source.
- `ngx_log_error_core`: builds a message and stops at a TODO; `last` has the wrong type.
- `ngx_files.c`: one `pread` without a caller.
- `ngx_buf.c`, `nginx.c`, `ngx_times.c`, `ngx_posix_init.c`, `ngx_process_cycle.c`, the epoll
  module, the red-black tree, cycle, configuration and module headers: declarations and empty
  bodies.
- Contents of memory: `ngx_pcalloc` and `ngx_calloc` differ from `ngx_palloc` and `ngx_alloc`
  only in zeroing. Cleanup handlers are registered in the model; what they do is not
  the pool's.
- Arrays and lists created with a capacity of zero: the code has no test for it and hands out
  a slot outside the memory (listed as a hazard).
- Rounding of floating-point numbers: the doubles of `Format` are exact multiples of one unit, and
  the multiplication and the subtraction in `ngx_vslprintf` that make an integer of a fraction
  are exact. What an inexact product does to the last digit is not covered.
- The fallbacks for systems without POSIX semaphores, atomic operations or `posix_memalign`.
- The file-lock variant of the mutex and the branches of slab that the source leaves
  as TODO.

## 8. Running

In this directory, for example

    tlc -config shmtx_safety.cfg MCShmtx
    tlc -config log.cfg MCLog
    tlapm PoolProofs.tla

Each configuration belongs to the module `PROJECT.json` names beside it. A mutant there
replaces one translated definition by a plausible mistake (defined just before it, with a
suffix that names the mistake) and violates the property it is listed with.
