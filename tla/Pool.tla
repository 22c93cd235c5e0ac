-------------------------------- MODULE Pool --------------------------------
(***************************************************************************)
(* The memory pool of src/core/ngx_palloc.c on a 64-bit build: a chain of  *)
(* equal blocks from which small requests are cut, a list of large chunks  *)
(* taken from the heap one by one, and a list of cleanups.                 *)
(*                                                                         *)
(* A pool is one record, and every function of the code is an operator     *)
(* from a pool to the SET of its outcomes [pool, ptr], so that functions   *)
(* that call each other compose.  A pointer is <<block, offset>>, or       *)
(* <<0, chunk>> for the heap.  Blocks are 16-byte aligned, so an offset is *)
(* aligned when the address is.                                            *)
(***************************************************************************)
EXTENDS Integers, Sequences

CONSTANTS
  PoolSizes,   \* the sizes ngx_create_pool() is called with
  Sizes,       \* the sizes asked of ngx_palloc(), ngx_pnalloc(), ngx_pcalloc()
  CleanupSizes,\* the sizes given to ngx_pool_cleanup_add()
  Aligned,     \* whether ngx_pmemalign() is called
  PageSize,    \* ngx_pagesize
  Chunks,      \* addresses malloc() may return: positive numbers
  MaxBlocks,   \* bound on the blocks of a pool
  MaxLarge,    \* bound on the nodes of the list of large chunks
  MaxCleanups, \* bound on registered cleanups
  MaxFaults    \* bound on failing malloc() and posix_memalign() calls

Word       == 8    \* NGX_ALIGMENT
DataHdr    == 32   \* sizeof(ngx_pool_data_t)
PoolHdr    == 80   \* sizeof(ngx_pool_t)
LargeHdr   == 16   \* sizeof(ngx_pool_large_t)
CleanupHdr == 24   \* sizeof(ngx_pool_cleanup_t)

ASSUME PoolAssumption ==
  /\ PoolSizes \subseteq {n \in Nat : n >= PoolHdr}
  /\ Sizes \subseteq Nat
  /\ CleanupSizes \subseteq Nat
  /\ PageSize \in Nat \ {0}
  /\ Chunks \subseteq Nat \ {0}

VARIABLES
  life,  \* "none", "live" or "destroyed"
  pool,  \* the pool
  frees  \* how often each block was given to free()

vars == <<life, pool, frees>>

Null    == <<0, 0>>
Heap(c) == <<0, c>>

Blocks == [last : Nat, failed : Nat]
Spans == [blk : Nat, from : Nat, to : Nat]
Nodes  == [node : Nat \X Nat, alloc : Nat \X Nat]   \* alloc may be Null

Pools == [
  size    : Nat,              \* size of every block, header included
  max     : Nat,              \* largest small request
  blocks  : Seq(Blocks),      \* the chain; the first is the pool itself
  current : Nat,              \* index of pool->current
  large   : Seq(Nodes),       \* pool->large, head first
  cleanup : Seq(Nodes),       \* pool->cleanup, head first; alloc is c->data
  heap    : SUBSET Chunks,    \* large chunks malloc() gave and free() did not get
  allocs  : SUBSET Spans,    \* small requests granted since creation or reset
  faults  : Nat,              \* failed heap calls
  wild    : BOOLEAN ]         \* an uninitialised pointer was used

NoPool == [size |-> 0, max |-> 0, blocks |-> <<>>, current |-> 1, large |-> <<>>,
           cleanup |-> <<>>, heap |-> {}, allocs |-> {}, faults |-> 0, wild |-> FALSE]

Init ==
  /\ life = "none"
  /\ pool = NoPool
  /\ frees = <<>>

-----------------------------------------------------------------------------
Got(P, ptr) == [pool |-> P, ptr |-> ptr]

\* malloc() returned NULL.
MallocFails(P) ==
  IF P.faults < MaxFaults THEN {Got([P EXCEPT !.faults = @ + 1], Null)} ELSE {}

\* ngx_memalign() after a failed posix_memalign(): it returns its local
\* variable, which was never set.  That may be NULL, or anything.
MemalignFails(P) ==
  IF P.faults < MaxFaults
  THEN {Got([P EXCEPT !.faults = @ + 1, !.wild = w], Null) : w \in BOOLEAN}
  ELSE {}

\* The first and the last of a set of positions, as a set of one element.
FirstOf(S) == {i \in S : \A k \in S : i <= k}
LastOf(S)  == {i \in S : \A k \in S : i >= k}

AlignUp(n)      == ((n + Word - 1) \div Word) * Word
Header(blk)     == IF blk = 1 THEN PoolHdr ELSE DataHdr
Span(blk, m, size) == [blk |-> blk, from |-> m, to |-> m + size]

\* Where a block would serve the next request.
Start(P, j, align) ==
  IF align THEN AlignUp(P.blocks[j].last) ELSE P.blocks[j].last

Fits_BeforeAlign(P, j, size, align) ==
  P.size - P.blocks[j].last >= size

\* (size_t) (p->d.end - m) >= size: a negative difference becomes a number
\* larger than any size.
Fits(P, j, size, align) ==
  LET m == Start(P, j, align)
  IN  P.size - m >= size \/ m > P.size

Take(P, j, size, align) ==
  LET m == Start(P, j, align)
  IN  Got([P EXCEPT !.blocks[j].last = m + size,
                    !.allocs = @ \cup {Span(j, m, size)}],
          <<j, m>>)

Skip_TooLate(P) ==
  LastOf({P.current} \cup
         {j + 1 : j \in {i \in P.current..(Len(P.blocks) - 1) : P.blocks[i].failed > 5}})

\* The loop over the chain: pool->current moves past a block whose counter
\* was already above 4.  The last block is not looked at.
Skip(P) ==
  LastOf({P.current} \cup
         {j + 1 : j \in {i \in P.current..(Len(P.blocks) - 1) : P.blocks[i].failed > 4}})

CountFailures(P) ==
  [j \in 1..Len(P.blocks) |->
     IF P.current <= j /\ j < Len(P.blocks)
     THEN [P.blocks[j] EXCEPT !.failed = @ + 1]
     ELSE P.blocks[j]]

NewBlock_LastNotMoved(P, size) ==
  LET n == Len(P.blocks) + 1
      m == AlignUp(DataHdr)
  IN  {Got([P EXCEPT !.blocks  = Append(CountFailures(P), [last |-> m, failed |-> 0]),
                     !.current = c,
                     !.allocs  = @ \cup {Span(n, m, size)}],
           <<n, m>>) : c \in Skip(P)}

\* ngx_palloc_block: the new block serves the request right behind the data
\* header, without asking whether it is large enough.
NewBlock(P, size) ==
  LET n == Len(P.blocks) + 1
      m == AlignUp(DataHdr)
  IN  {Got([P EXCEPT !.blocks  = Append(CountFailures(P), [last |-> m + size, failed |-> 0]),
                     !.current = c,
                     !.allocs  = @ \cup {Span(n, m, size)}],
           <<n, m>>) : c \in Skip(P)}

PallocBlock(P, size) ==
  MemalignFails(P) \cup (IF Len(P.blocks) < MaxBlocks THEN NewBlock(P, size) ELSE {})

\* ngx_palloc_small: the first block from pool->current on that fits.
PallocSmall(P, size, align) ==
  LET fits == {j \in P.current..Len(P.blocks) : Fits(P, j, size, align)}
  IN  IF fits # {}
      THEN {Take(P, j, size, align) : j \in FirstOf(fits)}
      ELSE PallocBlock(P, size)

-----------------------------------------------------------------------------
Insert(P, node, c) ==
  [P EXCEPT !.large = <<[node |-> node, alloc |-> Heap(c)]>> \o @]

AddNode_Leaks(P, c) ==
  {IF r.ptr = Null THEN r ELSE Got(Insert(r.pool, r.ptr, c), Heap(c)) :
     r \in PallocSmall([P EXCEPT !.heap = @ \cup {c}], LargeHdr, TRUE)}

\* Chunk c was obtained; a node for it is cut from the pool, or c is freed.
AddNode(P, c) ==
  {IF r.ptr = Null THEN Got([r.pool EXCEPT !.heap = @ \ {c}], Null)
   ELSE Got(Insert(r.pool, r.ptr, c), Heap(c)) :
     r \in PallocSmall([P EXCEPT !.heap = @ \cup {c}], LargeHdr, TRUE)}

\* The nodes without a chunk among the first k.
Empty(P, k) == {i \in 1..Len(P.large) : i <= k /\ P.large[i].alloc = Null}

\* ngx_palloc_large once malloc() gave c.  The loop counter n is never
\* initialised: the loop looks at 5 nodes when n starts at 0, at fewer when
\* it starts higher, and at 1 from n = 4 on.
PlaceLarge(P, c) ==
  UNION {IF Empty(P, k) # {}
         THEN {Got([P EXCEPT !.heap = @ \cup {c}, !.large[i].alloc = Heap(c)], Heap(c)) :
                 i \in FirstOf(Empty(P, k))}
         ELSE IF Len(P.large) < MaxLarge THEN AddNode(P, c) ELSE {} :
           k \in 1..5}

PallocLarge(P) ==
  MallocFails(P) \cup UNION {PlaceLarge(P, c) : c \in Chunks \ P.heap}

\* ngx_palloc (align) and ngx_pnalloc (not align)
Request(P, size, align) ==
  IF size <= P.max THEN PallocSmall(P, size, align) ELSE PallocLarge(P)

Palloc(P, size)  == Request(P, size, TRUE)
Pnalloc(P, size) == Request(P, size, FALSE)

Pmemalign(P) ==
  MemalignFails(P) \cup
  (IF Len(P.large) < MaxLarge THEN UNION {AddNode(P, c) : c \in Chunks \ P.heap} ELSE {})

CleanupAdd(P, size) ==
  UNION {
    IF r.ptr = Null THEN {r}
    ELSE IF size = 0
    THEN {Got([r.pool EXCEPT !.cleanup = <<[node |-> r.ptr, alloc |-> Null]>> \o @], r.ptr)}
    ELSE {IF d.ptr = Null THEN d
          ELSE Got([d.pool EXCEPT !.cleanup = <<[node |-> r.ptr, alloc |-> d.ptr]>> \o @], r.ptr) :
            d \in Palloc(r.pool, size)} :
      r \in Palloc(P, CleanupHdr)}

\* The first node that holds c loses it; when there is none, NGX_DECLINED.
Pfree(P, c) ==
  LET holders == {i \in 1..Len(P.large) : P.large[i].alloc = Heap(c)}
  IN  IF holders = {} THEN {Got(P, Null)}
      ELSE {Got([P EXCEPT !.heap = @ \ {c}, !.large[i].alloc = Null], Null) :
              i \in FirstOf(holders)}

Owned(P) == {c \in Chunks : \E i \in 1..Len(P.large) : P.large[i].alloc = Heap(c)}

Reset_KeepsLarge(P) ==
  [P EXCEPT !.heap    = @ \ Owned(P),
            !.blocks  = [j \in 1..Len(P.blocks) |-> [last |-> PoolHdr, failed |-> 0]],
            !.current = 1,
            !.allocs  = {}]

\* Every block starts over behind a full header, and the large chunks go;
\* the list of cleanups is not touched.
Reset(P) ==
  [P EXCEPT !.heap    = @ \ Owned(P),
            !.blocks  = [j \in 1..Len(P.blocks) |-> [last |-> PoolHdr, failed |-> 0]],
            !.current = 1,
            !.large   = <<>>,
            !.allocs  = {}]

Create_HeaderTwice(size) ==
  [NoPool EXCEPT
     !.size   = size - PoolHdr,
     !.max    = size - PoolHdr - PoolHdr,
     !.blocks = <<[last |-> PoolHdr, failed |-> 0]>>]

Create(size) ==
  [NoPool EXCEPT
     !.size   = size,
     !.max    = IF size - PoolHdr < PageSize - 1 THEN size - PoolHdr ELSE PageSize - 1,
     !.blocks = <<[last |-> PoolHdr, failed |-> 0]>>]

-----------------------------------------------------------------------------
\* The outcomes of a call become the next state.
Becomes(outcomes) ==
  /\ life = "live"
  /\ ~pool.wild
  /\ \E r \in outcomes : pool' = r.pool
  /\ UNCHANGED <<life, frees>>

ngx_create_pool ==
  /\ life = "none"
  /\ \/ \E size \in PoolSizes : life' = "live" /\ pool' = Create(size)
     \/ \E r \in MemalignFails(pool) : life' = "none" /\ pool' = r.pool
  /\ ~pool.wild
  /\ UNCHANGED frees

ngx_palloc      == \E size \in Sizes : Becomes(Palloc(pool, size))
ngx_pnalloc     == \E size \in Sizes : Becomes(Pnalloc(pool, size))
ngx_pmemalign   == Aligned /\ Becomes(Pmemalign(pool))
ngx_pfree       == \E c \in Chunks : Becomes(Pfree(pool, c))
ngx_reset_pool  == Becomes({Got(Reset(pool), Null)})
ngx_pool_cleanup_add ==
  /\ Len(pool.cleanup) < MaxCleanups
  /\ \E size \in CleanupSizes : Becomes(CleanupAdd(pool, size))

ngx_destroy_pool_LeaksLarge ==
  /\ life = "live"
  /\ ~pool.wild
  /\ life' = "destroyed"
  /\ frees' = [j \in 1..Len(pool.blocks) |-> IF j = 1 THEN Len(pool.blocks) ELSE 0]
  /\ UNCHANGED pool

\* The large chunks are freed; then, once for every block, the first block.
ngx_destroy_pool ==
  /\ life = "live"
  /\ ~pool.wild
  /\ life' = "destroyed"
  /\ pool' = [pool EXCEPT !.heap = @ \ Owned(pool)]
  /\ frees' = [j \in 1..Len(pool.blocks) |-> IF j = 1 THEN Len(pool.blocks) ELSE 0]

Next ==
  \/ ngx_create_pool \/ ngx_palloc \/ ngx_pnalloc \/ ngx_pmemalign \/ ngx_pfree
  \/ ngx_pool_cleanup_add \/ ngx_reset_pool \/ ngx_destroy_pool

Spec == Init /\ [][Next]_vars

-----------------------------------------------------------------------------
TypeOK ==
  /\ life \in {"none", "live", "destroyed"}
  /\ pool \in Pools
  /\ frees \in Seq(Nat)

(* Small requests are cut from blocks that exist, between the header and the
   end of the block, and no two of them share a byte: not when an earlier
   block is found to have room again, not after a reset, and not when a
   failing call left half of its work done.  A request of size 0 is granted
   no byte: an array that is given back may leave it inside free memory.   *)
InBounds(P) ==
  \A a \in P.allocs :
    a.blk \in 1..Len(P.blocks) /\ Header(a.blk) <= a.from /\ a.to <= P.size
Apart(P) ==
  \A a, b \in P.allocs :
    a # b /\ a.blk = b.blk =>
      a.to <= b.from \/ b.to <= a.from \/ a.from = a.to \/ b.from = b.to
SmallAllocationsApart == InBounds(pool) /\ Apart(pool)

(* pool->current is past exactly the blocks that failed more than five times:
   a block is given up at its sixth failure, neither sooner nor later, though
   the counters are compared before they grow and a block given up is not
   counted any more.  They never grow along the chain, so that no block is
   skipped before an older one, and a reset takes all of them back.        *)
CurrentSkipsFailedOnly ==
  LET b == pool.blocks IN
  \A j \in 1..Len(b) :
    /\ b[j].failed > 5 <=> j < pool.current
    /\ \A k \in j..Len(b) : b[k].failed <= b[j].failed

(* The chunks malloc() gave and free() did not get back are exactly those
   that the list of large chunks holds, each in one node: neither a failing
   call nor ngx_pfree leaks one or leaves one to be freed twice.           *)
LargeChunksOwned ==
  /\ life = "live" => pool.heap = Owned(pool)
  /\ \A i, j \in 1..Len(pool.large) :
       i # j /\ pool.large[i].alloc = pool.large[j].alloc => pool.large[i].alloc = Null

(* The nodes of the list of large chunks live in the pool they belong to: no
   other request was ever given their bytes.                               *)
LargeNodesIntact ==
  \A i \in 1..Len(pool.large) :
    Span(pool.large[i].node[1], pool.large[i].node[2], LargeHdr) \in pool.allocs

(* ngx_destroy_pool gives back every large chunk, those that were reused
   after ngx_pfree included.                                               *)
NothingLargeLeft == life = "destroyed" => pool.heap = {}

(* As its users see it, the pool is a region allocator: ngx_palloc and its
   kin hand out memory that nobody uses, ngx_pfree returns one chunk of the
   heap, and ngx_reset_pool and ngx_destroy_pool leave nothing in use.  A
   call that fails halfway takes nothing away from anybody.                *)
Granted ==
  (IF life = "live" THEN pool.allocs ELSE {}) \cup {Span(0, c, 1) : c \in pool.heap}
A == INSTANCE Allocator WITH granted <- Granted, HeapBlk <- 0
IsAllocator == A!Spec

-----------------------------------------------------------------------------
(* ngx_destroy_pool: "Free the main pool and its singly-linked list of
   pools": each block is freed once.                                       *)
EachBlockFreedOnce == \A j \in 1..Len(frees) : frees[j] = 1

=============================================================================
