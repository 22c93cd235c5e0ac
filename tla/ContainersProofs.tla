-------------------------- MODULE ContainersProofs --------------------------
(***************************************************************************)
(* Proofs about Containers: an array and a list in one pool, for any       *)
(* element sizes and capacities, any other users of the pool and any       *)
(* failures of the heap.  The lemmas on the pool alone are those of        *)
(* PoolProofs and PoolRefinement.                                          *)
(***************************************************************************)
EXTENDS Containers, PoolRefinement, Induction

LOCAL INSTANCE SequencesExt

(* A piece of memory: it was granted at ptr with n bytes and is still there. *)
Holds(P, ptr, n) ==
  /\ ptr \in Pointers
  /\ IF ptr[1] = 0 THEN ptr[2] \in Owned(P) ELSE Span(ptr[1], ptr[2], n) \in P.allocs

\* The pool's own pieces: the nodes of the list of large chunks.
NodeAt(P, ptr) == \E i \in 1..Len(P.large) : P.large[i].node = ptr

Sound(P) == PoolInv(P) /\ LargeInv(P)

\* Every piece survives, and none is taken over by the pool itself.
Safe(P, Q) ==
  \A ptr \in Pointers, n \in Nat \ {0} :
    Holds(P, ptr, n) => Holds(Q, ptr, n) /\ (NodeAt(Q, ptr) => NodeAt(P, ptr))

\* A piece of n bytes that was nobody's and is not the pool's own.
Fresh(P, Q, ptr, n) ==
  /\ Holds(Q, ptr, n) /\ ~NodeAt(Q, ptr)
  /\ \A k \in Nat \ {0} : ~Holds(P, ptr, k)

LEMMA SafeTwice ==
  ASSUME NEW P, NEW Q, NEW R, Safe(P, Q), Safe(Q, R)
  PROVE  Safe(P, R)
BY DEF Safe

LEMMA SafeSame ==
  ASSUME NEW P, NEW Q, Grows(P, Q), P.heap = Owned(P), Q.heap = Owned(Q), Q.large = P.large
  PROVE  Safe(P, Q)
BY DEF Safe, Grows, Holds, NodeAt

\* What lies in use ends where the free memory of its block begins.
LEMMA UsedBelowLast ==
  ASSUME NEW P, PoolInv(P), NEW ptr \in Pointers, NEW n \in Nat \ {0},
         ptr[1] # 0, Holds(P, ptr, n)
  PROVE  /\ ptr[1] \in 1..Len(P.blocks) /\ ptr[1] \in Nat /\ ptr[2] \in Nat
         /\ Header(ptr[1]) <= ptr[2]
         /\ ptr[2] + n <= P.blocks[ptr[1]].last
<1> DEFINE s == Span(ptr[1], ptr[2], n)
<1>1. s \in P.allocs /\ s.blk = ptr[1] /\ s.from = ptr[2] /\ s.to = ptr[2] + n
  BY DEF Holds, Span
<1>2. ptr[1] \in Nat /\ ptr[2] \in Nat
  BY DEF Pointers
<1>3. s.from # s.to
  BY <1>1, <1>2
<1> HIDE DEF s
<1> QED  BY <1>1, <1>2, <1>3 DEF PoolInv, Layout

\* ngx_palloc_small hands out what nobody holds.
LEMMA SmallFresh ==
  ASSUME NEW P, PoolInv(P), NEW size \in Nat \ {0}, size <= P.size - DataHdr,
         NEW align \in BOOLEAN, NEW r \in PallocSmall(P, size, align), r.ptr # Null
  PROVE  /\ r.ptr \in Pointers /\ r.ptr[1] # 0
         /\ \A k \in Nat \ {0} : ~Holds(P, r.ptr, k)
<1> DEFINE fits == {j \in P.current..Len(P.blocks) : Fits(P, j, size, align)}
<1>1. P \in Pools /\ P.current \in 1..Len(P.blocks) /\ Len(P.blocks) \in Nat
  BY PoolFields DEF PoolInv, Layout
<1>2. r.ptr \in (Nat \ {0}) \X Nat
  BY PallocSmallKeeps
<1>3. r.ptr \in Pointers /\ r.ptr[1] # 0
  BY <1>2 DEF Pointers
<1>4. ASSUME NEW k \in Nat \ {0}, Holds(P, r.ptr, k) PROVE FALSE
  <2>1. /\ r.ptr[1] \in 1..Len(P.blocks) /\ r.ptr[1] \in Nat /\ r.ptr[2] \in Nat
        /\ r.ptr[2] + k <= P.blocks[r.ptr[1]].last
    BY <1>3, <1>4, UsedBelowLast
  <2>2. CASE fits # {}
    <3>1. PICK j \in fits : r = Take(P, j, size, align)
      BY <2>2 DEF PallocSmall, FirstOf
    <3>2. j \in 1..Len(P.blocks) /\ r.ptr = <<j, Start(P, j, align)>>
      BY <1>1, <3>1 DEF Take, Got
    <3>3. P.blocks[j].last \in Nat
      BY <1>1, <3>2, PoolFields
    <3>4. P.blocks[j].last <= Start(P, j, align)
      BY <3>3, AlignUpBounds DEF Start
    <3>5. r.ptr[1] = j /\ r.ptr[2] = Start(P, j, align)
      BY <3>2
    <3> QED  BY <2>1, <3>3, <3>4, <3>5
  <2>3. CASE fits = {}
    <3>1. r \in MemalignFails(P) \/ r \in NewBlock(P, size)
      BY <2>3 DEF PallocSmall, PallocBlock
    <3>2. r \notin MemalignFails(P)
      BY MemalignFailsKeeps
    <3>3. PICK Q : r = Got(Q, <<Len(P.blocks) + 1, AlignUp(DataHdr)>>)
      BY <3>1, <3>2 DEF NewBlock
    <3>4. r.ptr[1] = Len(P.blocks) + 1
      BY <3>3 DEF Got
    <3> QED  BY <1>1, <2>1, <3>4
  <2> QED  BY <2>2, <2>3
<1> QED  BY <1>3, <1>4


\* A large chunk is nobody's until malloc() returns it.
LEMMA HeapFresh ==
  ASSUME NEW P, LargeInv(P), NEW Q, Sound(Q), NEW c \in Chunks \ P.heap, c \in Q.heap, NEW n
  PROVE  Heap(c) # Null /\ Heap(c) \in Pointers /\ Fresh(P, Q, Heap(c), n)
<1>1. Heap(c)[1] = 0 /\ Heap(c)[2] = c /\ Heap(c) \in Pointers /\ Heap(c) # Null
  BY HeapPointers, HeapPointer DEF Heap, Pointers
<1>2. c \in Owned(Q) /\ c \notin Owned(P)
  BY DEF Sound, LargeInv
<1>3. ~NodeAt(Q, Heap(c))
  <2> SUFFICES ASSUME NEW i \in 1..Len(Q.large), Q.large[i].node = Heap(c) PROVE FALSE
    BY DEF NodeAt
  <2>1. NodeSpan(Q, i) \in Q.allocs /\ NodeSpan(Q, i).blk = 0
    BY <1>1 DEF Sound, LargeInv, NodesGranted, NodeSpan, Span
  <2>2. NodeSpan(Q, i).blk \in 1..Len(Q.blocks)
    BY <2>1 DEF Sound, PoolInv, Layout
  <2>3. Len(Q.blocks) \in Nat
    BY PoolFields DEF Sound, PoolInv
  <2> QED  BY <2>1, <2>2, <2>3
<1> QED  BY <1>1, <1>2, <1>3 DEF Fresh, Holds

LEMMA SmallSafe ==
  ASSUME NEW P, Sound(P), NEW size \in Nat, size <= P.size - DataHdr,
         NEW align \in BOOLEAN, NEW r \in PallocSmall(P, size, align)
  PROVE  /\ Sound(r.pool) /\ Safe(P, r.pool) /\ SameLists(P, r.pool)
         /\ size # 0 /\ r.ptr # Null => Fresh(P, r.pool, r.ptr, size)
<1>1. /\ PoolInv(r.pool) /\ SameLists(P, r.pool)
      /\ P.allocs \subseteq r.pool.allocs
      /\ r.ptr # Null => Span(r.ptr[1], r.ptr[2], size) \in r.pool.allocs
  BY PallocSmallKeeps, SmallGrants DEF Sound
<1>2. LargeInv(r.pool) /\ Grows(P, r.pool)
  BY <1>1, LargeSame DEF Sound, SameLists
<1>3. Sound(r.pool) /\ Safe(P, r.pool)
  BY <1>1, <1>2, SafeSame DEF Sound, LargeInv, SameLists
<1>4. ASSUME size # 0, r.ptr # Null PROVE Fresh(P, r.pool, r.ptr, size)
  <2>1. /\ r.ptr \in Pointers /\ r.ptr[1] # 0
        /\ \A k \in Nat \ {0} : ~Holds(P, r.ptr, k)
    BY <1>4, SmallFresh DEF Sound
  <2>2. ~NodeAt(P, r.ptr)
    <3> SUFFICES ASSUME NEW i \in 1..Len(P.large), P.large[i].node = r.ptr PROVE FALSE
      BY DEF NodeAt
    <3>1. Holds(P, r.ptr, LargeHdr)
      BY <2>1 DEF Sound, LargeInv, NodesGranted, NodeSpan, Holds
    <3> QED  BY <2>1, <3>1 DEF LargeHdr
  <2>3. ~NodeAt(r.pool, r.ptr)
    BY <1>1, <2>2 DEF SameLists, NodeAt
  <2> QED  BY <1>1, <1>4, <2>1, <2>3 DEF Fresh, Holds
<1> QED  BY <1>1, <1>3, <1>4

LEMMA AddNodeSafe ==
  ASSUME NEW P, Sound(P), NEW c \in Chunks \ P.heap, NEW r \in AddNode(P, c)
  PROVE  /\ Safe(P, r.pool)
         /\ r.ptr # Null => r.ptr = Heap(c) /\ c \in r.pool.heap
<1> DEFINE H == [P EXCEPT !.heap = P.heap \cup {c}]
<1>0. P \in Pools /\ P.heap \cup {c} \in SUBSET Chunks /\ P.size >= PoolHdr
  BY PoolFields DEF Sound, PoolInv, Layout
<1>1. /\ PoolInv(H) /\ H.size = P.size /\ H.heap = P.heap \cup {c}
      /\ H.large = P.large /\ H.allocs = P.allocs
  BY <1>0, HeapKeeps DEF Sound, Pools
<1>2. PICK s \in PallocSmall(H, LargeHdr, TRUE) :
        r = IF s.ptr = Null THEN Got([s.pool EXCEPT !.heap = s.pool.heap \ {c}], Null)
            ELSE Got(Insert(s.pool, s.ptr, c), Heap(c))
  BY Zenon DEF AddNode
<1>3. LargeHdr \in Nat \ {0} /\ LargeHdr <= H.size - DataHdr
  BY <1>0, <1>1, PoolFields DEF LargeHdr, DataHdr, PoolHdr
<1> HIDE DEF H
<1>4. /\ PoolInv(s.pool) /\ SameLists(H, s.pool)
      /\ s.ptr = Null \/ s.ptr \in (Nat \ {0}) \X Nat
      /\ s.ptr # Null => \A k \in Nat \ {0} : ~Holds(H, s.ptr, k)
  BY <1>1, <1>3, PallocSmallKeeps, SmallFresh
<1>5. s.pool \in Pools /\ s.pool.large = P.large /\ s.pool.heap = P.heap \cup {c}
  BY <1>1, <1>4 DEF SameLists, PoolInv
<1>6. Kept(P, r.pool)
  BY AddNodeKept DEF Sound
<1>7. \A ptr, k : Holds(P, ptr, k) => Holds(H, ptr, k) /\ Holds(r.pool, ptr, k)
  <2>1. Owned(H) = Owned(P) /\ Owned(P) \subseteq Owned(r.pool)
    BY <1>1, <1>6 DEF Owned, Kept, Grows, LargeInv, Sound
  <2> QED  BY <1>1, <1>6, <2>1 DEF Holds, Kept, Grows
<1>8. CASE s.ptr = Null
  <2>1. r.pool = [s.pool EXCEPT !.heap = s.pool.heap \ {c}] /\ r.ptr = Null
    BY <1>2, <1>8 DEF Got
  <2>2. r.pool.large = P.large
    BY <1>5, <2>1 DEF Pools
  <2> QED  BY <1>7, <2>1, <2>2 DEF Safe, NodeAt
<1>9. CASE s.ptr # Null
  <2> DEFINE n == [node |-> s.ptr, alloc |-> Heap(c)]
             l == <<n>> \o s.pool.large
  <2>1. n \in Nodes /\ n.node = s.ptr
    BY <1>4, <1>9, HeapPointer DEF Nodes
  <2>2. r.pool = [s.pool EXCEPT !.large = l] /\ r.ptr = Heap(c)
    BY <1>2, <1>9 DEF Got, Insert
  <2>3. l = <<n>> \o P.large
    BY <1>5
  <2> HIDE DEF l, n
  <2>4. r.pool.large = l /\ r.pool.heap = P.heap \cup {c}
    BY <1>5, <2>2 DEF Pools
  <2>5. \A ptr : NodeAt(r.pool, ptr) => ptr = s.ptr \/ NodeAt(P, ptr)
    <3>1. /\ Len(l) = Len(P.large) + 1 /\ l[1] = n
          /\ \A i \in 1..(Len(P.large) + 1) :
               i # 1 => i - 1 \in 1..Len(P.large) /\ l[i] = P.large[i - 1]
      BY <1>0, <2>1, <2>3, PoolLists, Fronted
    <3> QED  BY <2>1, <2>4, <3>1 DEF NodeAt
  <2>6. \A ptr, k : k \in Nat \ {0} /\ Holds(P, ptr, k) => ptr # s.ptr
    BY <1>4, <1>7, <1>9
  <2> QED  BY <1>7, <2>2, <2>4, <2>5, <2>6 DEF Safe
<1> QED  BY <1>8, <1>9

LEMMA LargeSafe ==
  ASSUME NEW P, Sound(P), NEW r \in PallocLarge(P)
  PROVE  /\ Safe(P, r.pool)
         /\ r.ptr # Null => \E c \in Chunks \ P.heap : r.ptr = Heap(c) /\ c \in r.pool.heap
<1>0. P \in Pools
  BY DEF Sound, PoolInv
<1>1. r \in MallocFails(P) \/ \E c \in Chunks \ P.heap : r \in PlaceLarge(P, c)
  BY DEF PallocLarge
<1>2. CASE r \in MallocFails(P)
  <2>1. r = Got([P EXCEPT !.faults = P.faults + 1], Null)
    BY <1>2 DEF MallocFails
  <2>2. r.pool.large = P.large /\ r.pool.heap = P.heap /\ r.ptr = Null
    BY <1>0, <2>1 DEF Got, Pools
  <2>3. LargeInv(r.pool) /\ Grows(P, r.pool)
    BY <1>0, <1>2, FailsLarge DEF Sound
  <2> QED  BY <2>2, <2>3, SafeSame DEF Sound, LargeInv
<1>3. ASSUME NEW c \in Chunks \ P.heap, r \in PlaceLarge(P, c)
      PROVE  /\ Safe(P, r.pool)
             /\ r.ptr # Null => r.ptr = Heap(c) /\ c \in r.pool.heap
  <2>1. PICK k \in 1..5 :
          \/ \E i \in FirstOf(Empty(P, k)) :
               r = Got([P EXCEPT !.heap = P.heap \cup {c}, !.large[i].alloc = Heap(c)], Heap(c))
          \/ r \in AddNode(P, c)
    BY <1>3 DEF PlaceLarge
  <2>2. ASSUME NEW i \in FirstOf(Empty(P, k)),
               r = Got([P EXCEPT !.heap = P.heap \cup {c}, !.large[i].alloc = Heap(c)], Heap(c))
        PROVE  Safe(P, r.pool) /\ r.ptr = Heap(c) /\ c \in r.pool.heap
    <3> DEFINE l == [P.large EXCEPT ![i] = [P.large[i] EXCEPT !.alloc = Heap(c)]]
               h == P.heap \cup {c}
    <3>1. i \in 1..Len(P.large)
      BY DEF FirstOf, Empty
    <3>2. r.pool = [P EXCEPT !.heap = h, !.large = l] /\ r.ptr = Heap(c)
      BY <1>0, <2>2 DEF Got, Pools
    <3> HIDE DEF l, h
    <3>3. r.pool.large = l /\ r.pool.heap = h
      BY <1>0, <3>2 DEF Pools
    <3>4. Kept(P, r.pool)
      BY <1>3, PallocLargeKept DEF Sound, PallocLarge
    <3>5. \A ptr, n : Holds(P, ptr, n) => Holds(r.pool, ptr, n)
      BY <3>4 DEF Kept, Grows, LargeInv, Sound, Holds
    <3>6. \A ptr : NodeAt(r.pool, ptr) => NodeAt(P, ptr)
      <4>1. Heap(c) \in Pointers
        BY HeapPointer DEF Pointers
      <4>2. Len(l) = Len(P.large) /\ \A j \in 1..Len(P.large) : l[j].node = P.large[j].node
        BY <1>0, <3>1, <4>1, Changed DEF l
      <4> QED  BY <3>3, <4>2 DEF NodeAt
    <3> QED  BY <3>2, <3>3, <3>5, <3>6 DEF Safe, h
  <2> QED  BY <2>1, <2>2, AddNodeSafe
<1> QED  BY <1>1, <1>2, <1>3

(* What every caller of ngx_palloc() and ngx_pnalloc() can rely on: nothing
   that is in use is touched, and the new piece is nobody's.               *)
LEMMA RequestSafe ==
  ASSUME NEW P, Sound(P), NEW size \in Nat, NEW align \in BOOLEAN,
         NEW r \in Request(P, size, align)
  PROVE  /\ Sound(r.pool) /\ Safe(P, r.pool) /\ r.ptr \in Pointers
         /\ size # 0 /\ r.ptr # Null => Fresh(P, r.pool, r.ptr, size)
<1>1. PoolInv(r.pool) /\ r.ptr \in Pointers /\ LargeInv(r.pool)
  BY RequestKeeps, RequestKept DEF Sound, Kept
<1>2. CASE size <= P.max
  <2>1. P.max \in Nat /\ P.size \in Nat /\ P.max <= P.size - PoolHdr
    BY PoolFields DEF Sound, PoolInv, Layout
  <2>2. size <= P.size - DataHdr
    BY <1>2, <2>1 DEF PoolHdr, DataHdr
  <2>3. r \in PallocSmall(P, size, align)
    BY <1>2 DEF Request
  <2> QED  BY <1>1, <2>2, <2>3, SmallSafe
<1>3. CASE ~(size <= P.max)
  <2>1. r \in PallocLarge(P)
    BY <1>3 DEF Request
  <2>2. /\ Safe(P, r.pool)
        /\ r.ptr # Null => \E c \in Chunks \ P.heap : r.ptr = Heap(c) /\ c \in r.pool.heap
    BY <2>1, LargeSafe
  <2>3. LargeInv(P) /\ Sound(r.pool)
    BY <1>1 DEF Sound
  <2>4. r.ptr # Null => Fresh(P, r.pool, r.ptr, size)
    BY <2>2, <2>3, HeapFresh
  <2> QED  BY <1>1, <2>2, <2>3, <2>4
<1> QED  BY <1>2, <1>3

LEMMA PallocSafe ==
  ASSUME NEW P, Sound(P), NEW size \in Nat \ {0}, NEW r \in Palloc(P, size)
  PROVE  /\ Sound(r.pool) /\ Safe(P, r.pool) /\ r.ptr \in Pointers
         /\ r.ptr # Null => Fresh(P, r.pool, r.ptr, size)
BY RequestSafe DEF Palloc

-----------------------------------------------------------------------------
(* An array moves p->d.last of the first block by itself, only when its own
   bytes are the last ones there.                                          *)
AllBut(P, Q, at) ==
  \A ptr \in Pointers, k \in Nat \ {0} : ptr # at /\ Holds(P, ptr, k) => Holds(Q, ptr, k)

SameNodes(P, Q) == \A ptr : NodeAt(Q, ptr) <=> NodeAt(P, ptr)

\* Only the first block and the granted spans differ.
Differ(P, Q, x, spans) ==
  /\ Q.allocs = spans
  /\ Len(Q.blocks) = Len(P.blocks) /\ Q.blocks[1].last = x
  /\ \A i \in 1..Len(P.blocks) : i # 1 => Q.blocks[i] = P.blocks[i]
  /\ Q.size = P.size /\ Q.max = P.max /\ Q.current = P.current
  /\ Q.large = P.large /\ Q.heap = P.heap

LastMoved(P, x, spans) == [P EXCEPT !.blocks[1].last = x, !.allocs = spans]

LEMMA BlockChanged ==
  ASSUME NEW P \in Pools, NEW x \in Nat, NEW spans \in SUBSET Spans, 1 \in 1..Len(P.blocks)
  PROVE  LastMoved(P, x, spans) \in Pools /\ Differ(P, LastMoved(P, x, spans), x, spans)
<1> DEFINE Q == LastMoved(P, x, spans)
<1> DEFINE b  == [P.blocks[1] EXCEPT !.last = x]
           bs == [P.blocks EXCEPT ![1] = b]
<1>1. P.blocks \in Seq(Blocks) /\ P.blocks[1] \in Blocks
  BY PoolFields, ElementOfSeq
<1>2. b \in Blocks /\ b.last = x
  BY <1>1 DEF Blocks
<1>3. Q = [P EXCEPT !.blocks = bs, !.allocs = spans]
  BY DEF LastMoved, Pools
<1> HIDE DEF b, Q
<1>4. /\ bs \in Seq(Blocks) /\ Len(bs) = Len(P.blocks) /\ bs[1] = b
      /\ \A i \in 1..Len(P.blocks) : i # 1 => bs[i] = P.blocks[i]
  BY <1>1, <1>2
<1> HIDE DEF bs
<1>5. Q \in Pools
  BY <1>3, <1>4, Zenon DEF Pools
<1>6. /\ Q.blocks = bs /\ Q.allocs = spans
      /\ Q.size = P.size /\ Q.max = P.max /\ Q.current = P.current
      /\ Q.large = P.large /\ Q.heap = P.heap
  BY <1>3 DEF Pools
<1>7. Q \in Pools /\ Differ(P, Q, x, spans)
  BY <1>2, <1>4, <1>5, <1>6 DEF Differ
<1> QED  BY <1>7 DEF Q

\* What does not touch the chunks keeps every piece but the one that moved.
LEMMA OthersKept ==
  ASSUME NEW P, Sound(P), NEW at \in Pointers, at[1] # 0, ~NodeAt(P, at),
         NEW Q, Q.large = P.large, Q.heap = P.heap,
         \A s \in P.allocs : (s.blk = at[1] /\ s.from = at[2]) \/ s \in Q.allocs
  PROVE  LargeInv(Q) /\ AllBut(P, Q, at) /\ SameNodes(P, Q)
<1>1. Owned(Q) = Owned(P)
  BY DEF Owned
<1>2. ASSUME NEW ptr \in Pointers, NEW k, ptr # at, Holds(P, ptr, k) PROVE Holds(Q, ptr, k)
  <2>1. CASE ptr[1] = 0
    BY <1>1, <1>2, <2>1 DEF Holds
  <2>2. CASE ptr[1] # 0
    <3> DEFINE s == Span(ptr[1], ptr[2], k)
    <3>1. s \in P.allocs /\ s.blk = ptr[1] /\ s.from = ptr[2]
      BY <1>2, <2>2 DEF Holds, Span
    <3>2. ptr[1] # at[1] \/ ptr[2] # at[2]
      BY <1>2 DEF Pointers
    <3> HIDE DEF s
    <3>3. s \in Q.allocs
      BY <3>1, <3>2
    <3> QED  BY <2>2, <3>3 DEF Holds, s
  <2> QED  BY <2>1, <2>2
<1>3. NodesGranted(Q)
  <2> SUFFICES ASSUME NEW i \in 1..Len(P.large) PROVE NodeSpan(P, i) \in Q.allocs
    BY DEF NodesGranted, NodeSpan
  <2>1. NodeSpan(P, i) \in P.allocs
    BY DEF Sound, LargeInv, NodesGranted
  <2>2. NodeSpan(P, i).blk = P.large[i].node[1] /\ NodeSpan(P, i).from = P.large[i].node[2]
    BY DEF NodeSpan, Span
  <2>3. P.large[i].node \in Pointers /\ P.large[i].node # at
    <3>1. P.large[i] \in Nodes
      BY PoolLists, ElementOfSeq DEF Sound, PoolInv
    <3> QED  BY <3>1 DEF Nodes, Pointers, NodeAt
  <2>4. P.large[i].node[1] # at[1] \/ P.large[i].node[2] # at[2]
    BY <2>3 DEF Pointers
  <2> QED  BY <2>1, <2>2, <2>4
<1>4. AllocsOnce(Q)
  BY DEF Sound, LargeInv, AllocsOnce
<1> QED  BY <1>1, <1>2, <1>3, <1>4 DEF Sound, LargeInv, AllBut, SameNodes, NodeAt

\* A piece that ends at p->d.last of the first block is given back.
LEMMA RewindSafe ==
  ASSUME NEW P, Sound(P), NEW from \in Nat, NEW n \in Nat \ {0},
         Holds(P, <<1, from>>, n), ~NodeAt(P, <<1, from>>),
         from + n = P.blocks[1].last,
         NEW Q, Q = Rewind(P, from, Span(1, from, n))
  PROVE  /\ Sound(Q) /\ AllBut(P, Q, <<1, from>>) /\ SameNodes(P, Q)
         /\ Q.blocks[1].last = from /\ Q.size = P.size
<1> DEFINE s  == Span(1, from, n)
           as == P.allocs \ {s}
           at == <<1, from>>
<1>1. P \in Pools /\ Layout(P) /\ Apart(P) /\ P.size \in Nat /\ P.allocs \in SUBSET Spans
  BY PoolFields DEF Sound, PoolInv
<1>2. /\ s \in P.allocs /\ s.blk = 1 /\ s.from = from /\ s.to = from + n
      /\ at \in Pointers /\ at[1] = 1 /\ at[2] = from
  BY DEF Holds, Span, Pointers
<1>3. 1 \in 1..Len(P.blocks) /\ Header(1) <= from /\ from <= P.size
  BY <1>1, <1>2 DEF Layout
<1>4. /\ Q \in Pools /\ Q.allocs = as
      /\ Len(Q.blocks) = Len(P.blocks) /\ Q.blocks[1].last = from
      /\ \A i \in 1..Len(P.blocks) : i # 1 => Q.blocks[i] = P.blocks[i]
      /\ Q.size = P.size /\ Q.max = P.max /\ Q.current = P.current
      /\ Q.large = P.large /\ Q.heap = P.heap
  <2>1. as \in SUBSET Spans
    BY <1>1
  <2>2. Q = LastMoved(P, from, as)
    BY <1>1 DEF Rewind, LastMoved, Pools
  <2> HIDE DEF as
  <2>3. P \in Pools /\ from \in Nat /\ 1 \in 1..Len(P.blocks)
    BY <1>1, <1>3
  <2>4. Q \in Pools /\ Differ(P, Q, from, as)
    BY <2>1, <2>2, <2>3, BlockChanged
  <2> QED  BY <2>4 DEF Differ
<1>5. ASSUME NEW a \in as
      PROVE  /\ a \in P.allocs /\ a.blk \in 1..Len(P.blocks)
             /\ Header(a.blk) <= a.from /\ a.from <= a.to /\ a.to <= P.size
             /\ a.from = a.to \/ a.to <= Q.blocks[a.blk].last
  <2>1. /\ a \in P.allocs /\ a # s /\ a.blk \in 1..Len(P.blocks)
        /\ Header(a.blk) <= a.from /\ a.from <= a.to /\ a.to <= P.size
        /\ a.from = a.to \/ a.to <= P.blocks[a.blk].last
        /\ a.from \in Nat /\ a.to \in Nat
    BY <1>1, PoolFields DEF Layout
  <2>2. CASE a.blk = 1 /\ a.from # a.to
    <3>1. a.to <= s.from \/ s.to <= a.from
      BY <1>1, <1>2, <2>1, <2>2 DEF Apart
    <3>2. a.to <= from
      BY <1>2, <2>1, <2>2, <3>1
    <3> QED  BY <1>4, <2>1, <2>2, <3>2
  <2>3. CASE a.blk # 1 \/ a.from = a.to
    BY <1>4, <2>1, <2>3
  <2> QED  BY <2>1, <2>2, <2>3
<1>6. PoolInv(Q)
  <2>1. ASSUME NEW j \in 1..Len(Q.blocks)
        PROVE  Header(j) <= Q.blocks[j].last /\ Q.blocks[j].last <= Q.size
    <3>1. CASE j = 1
      BY <1>3, <1>4, <3>1
    <3>2. CASE j # 1
      BY <1>1, <1>4, <3>2 DEF Layout
    <3> QED  BY <3>1, <3>2
  <2> HIDE DEF as
  <2>2. Layout(Q)
    BY <1>1, <1>4, <1>5, <2>1 DEF Layout
  <2>3. Apart(Q)
    BY <1>1, <1>4, <1>5, ZenonT(30) DEF Apart
  <2> QED  BY <1>4, <2>2, <2>3 DEF PoolInv
<1>7. \A t \in P.allocs : (t.blk = at[1] /\ t.from = at[2]) \/ t \in Q.allocs
  BY <1>2, <1>4
<1> HIDE DEF at
<1>8. LargeInv(Q) /\ AllBut(P, Q, at) /\ SameNodes(P, Q)
  BY <1>2, <1>4, <1>7, OthersKept DEF at
<1> QED  BY <1>4, <1>6, <1>8 DEF Sound, at

-----------------------------------------------------------------------------
(* The memory of an array and of a list.                                    *)
ArrayUses(a, ptr, n) ==
  /\ a # NoArray
  /\ \/ ptr = a.elts /\ n = Bytes(a)
     \/ a.hdr # Null /\ ptr = a.hdr /\ n = ArrayHdr
ListUses(l, ptr, n) ==
  \/ \E k \in 1..Len(l.parts) : ptr = l.parts[k].elts /\ n = l.nalloc * l.size
  \/ \E k \in 2..Len(l.parts) : ptr = l.parts[k].node /\ n = PartHdr
  \/ l.hdr # Null /\ ptr = l.hdr /\ n = ListHdr

\* An array may give its pieces back, so nobody else may hold them: not the
\* list, and not the pool for its large chunks.
Mine(P, l, ptr, n) ==
  /\ n \in Nat \ {0} /\ Holds(P, ptr, n) /\ ~NodeAt(P, ptr)
  /\ \A k : ~ListUses(l, ptr, k)
ListHeld(P, l) == \A ptr, n : ListUses(l, ptr, n) => n \in Nat \ {0} /\ Holds(P, ptr, n)
ArrayHeld(P, a, l) == \A ptr, n : ArrayUses(a, ptr, n) => Mine(P, l, ptr, n)

MemInv(P, a, l) ==
  /\ Sound(P)
  /\ ListHeld(P, l) /\ ArrayHeld(P, a, l)
  /\ a # NoArray => a.hdr # a.elts

LEMMA HeldPointer ==
  ASSUME NEW P, NEW ptr, NEW n, Holds(P, ptr, n)
  PROVE  ptr \in Pointers
BY DEF Holds

LEMMA ProductPositive ==
  ASSUME NEW x \in Nat \ {0}, NEW y \in Nat \ {0}
  PROVE  x * y \in Nat \ {0}
OBVIOUS

LEMMA MineSafe ==
  ASSUME NEW P, NEW Q, Safe(P, Q), NEW l, NEW ptr, NEW n, Mine(P, l, ptr, n)
  PROVE  Mine(Q, l, ptr, n)
BY HeldPointer DEF Mine, Safe

LEMMA FreshMine ==
  ASSUME NEW P, NEW l, ListHeld(P, l), NEW Q, NEW ptr, NEW n \in Nat \ {0}, Fresh(P, Q, ptr, n)
  PROVE  Mine(Q, l, ptr, n)
BY DEF Fresh, Mine, ListHeld

\* A call that only allocates takes nothing away from the containers.
LEMMA MemSafe ==
  ASSUME NEW P, NEW a, NEW l, MemInv(P, a, l), NEW Q, Sound(Q), Safe(P, Q)
  PROVE  MemInv(Q, a, l)
<1>1. ListHeld(Q, l)
  BY HeldPointer DEF MemInv, ListHeld, Safe
<1>2. ArrayHeld(Q, a, l)
  BY MineSafe DEF MemInv, ArrayHeld
<1> QED  BY <1>1, <1>2 DEF MemInv

LEMMA NoArrayHeld ==
  ASSUME NEW P, NEW l, Sound(P), ListHeld(P, l)
  PROVE  MemInv(P, NoArray, l)
BY DEF MemInv, ArrayHeld, ArrayUses

LEMMA ArrayMade ==
  ASSUME NEW P, NEW l, Sound(P), ListHeld(P, l),
         NEW a, a.hdr # a.elts, Mine(P, l, a.elts, Bytes(a)),
         a.hdr # Null => Mine(P, l, a.hdr, ArrayHdr)
  PROVE  MemInv(P, a, l)
BY DEF MemInv, ArrayHeld, ArrayUses

LEMMA ArrayMines ==
  ASSUME NEW P, NEW a, NEW l, MemInv(P, a, l), a # NoArray
  PROVE  /\ Sound(P) /\ ListHeld(P, l) /\ a.hdr # a.elts
         /\ Mine(P, l, a.elts, Bytes(a))
         /\ a.hdr # Null => Mine(P, l, a.hdr, ArrayHdr)
BY DEF MemInv, ArrayHeld, ArrayUses

-----------------------------------------------------------------------------
(* The functions of ngx_array.c.                                            *)

\* What an array looks like: no slot that was handed out lies outside it.
ArrayShape(a) ==
  \/ a = NoArray
  \/ /\ a \in Arrays
     /\ a.size # 0 /\ a.nalloc # 0 /\ a.nelts <= a.nalloc
     /\ \A i \in 1..Len(a.given) : a.given[i] < a.nalloc

LEMMA ArrayFields ==
  ASSUME NEW a \in Arrays
  PROVE  /\ a.hdr \in Pointers /\ a.elts \in Pointers
         /\ a.nelts \in Nat /\ a.size \in Nat /\ a.nalloc \in Nat
         /\ a.given \in Seq(Nat) /\ Len(a.given) \in Nat
         /\ \A i \in 1..Len(a.given) : a.given[i] \in Nat
<1>1. a.given \in Seq(Nat)
  BY DEF Arrays
<1>2. Len(a.given) \in Nat /\ \A i \in 1..Len(a.given) : a.given[i] \in Nat
  BY <1>1, LenProperties, ElementOfSeq
<1> QED  BY <1>1, <1>2 DEF Arrays, Pointers

LEMMA NoArrayFields ==
  /\ NoArray \in Arrays /\ ArrayShape(NoArray)
  /\ NoArray.hdr = Null /\ NoArray.elts = Null
<1>1. Null \in Nat \X Nat /\ <<>> \in Seq(Nat) /\ 0 \in Nat
  BY EmptySeq DEF Null
<1> QED  BY <1>1 DEF NoArray, Arrays, ArrayShape

LEMMA ArrayInitSafe ==
  ASSUME NEW P, NEW l, Sound(P), ListHeld(P, l),
         NEW hdr \in Pointers, hdr # Null => Mine(P, l, hdr, ArrayHdr),
         NEW n \in Nat \ {0}, NEW size \in Nat \ {0}, NEW r \in ArrayInit(P, hdr, n, size)
  PROVE  MemInv(r.pool, r.array, l) /\ ArrayShape(r.array)
<1>1. PICK s \in Palloc(P, n * size) :
        r = IF s.ptr = Null THEN Made(s.pool, NoArray, FALSE)
            ELSE Made(s.pool, [NoArray EXCEPT !.hdr = hdr, !.elts = s.ptr, !.size = size, !.nalloc = n], TRUE)
  BY Zenon DEF ArrayInit
<1>2. n * size \in Nat \ {0}
  BY ProductPositive
<1>3. /\ Sound(s.pool) /\ Safe(P, s.pool) /\ s.ptr \in Pointers
      /\ s.ptr # Null => Fresh(P, s.pool, s.ptr, n * size)
  BY <1>2, PallocSafe
<1>4. MemInv(s.pool, NoArray, l)
  BY <1>3, NoArrayHeld, MemSafe
<1>5. CASE s.ptr = Null
  BY <1>1, <1>4, <1>5, NoArrayFields DEF Made
<1>6. CASE s.ptr # Null
  <2> DEFINE a == [NoArray EXCEPT !.hdr = hdr, !.elts = s.ptr, !.size = size, !.nalloc = n]
  <2>1. r.pool = s.pool /\ r.array = a
    BY <1>1, <1>6 DEF Made
  <2>2. /\ a.hdr = hdr /\ a.elts = s.ptr /\ a.size = size /\ a.nalloc = n
        /\ a.nelts = 0 /\ a.given = <<>>
    BY DEF NoArray
  <2>3. a \in Arrays
    BY <1>3, NoArrayFields DEF Arrays, Pointers
  <2> HIDE DEF a
  <2>4. Bytes(a) = n * size
    BY <2>2 DEF Bytes
  <2>5. Mine(s.pool, l, a.elts, Bytes(a))
    BY <1>2, <1>3, <1>6, <2>2, <2>4, FreshMine
  <2>6. a.hdr # Null => Mine(s.pool, l, a.hdr, ArrayHdr)
    BY <1>3, <2>2, MineSafe
  <2>7. a.hdr # a.elts
    <3>1. hdr # Null => \E k \in Nat \ {0} : Holds(P, hdr, k)
      BY DEF Mine
    <3> QED  BY <1>3, <1>6, <2>2, <3>1 DEF Fresh
  <2>8. MemInv(s.pool, a, l)
    BY <1>3, <1>4, <2>5, <2>6, <2>7, ArrayMade DEF MemInv
  <2>9. ArrayShape(a)
    BY <2>2, <2>3 DEF ArrayShape
  <2> QED  BY <2>1, <2>8, <2>9
<1> QED  BY <1>5, <1>6

LEMMA ArrayCreateSafe ==
  ASSUME NEW P, NEW l, Sound(P), ListHeld(P, l),
         NEW n \in Nat \ {0}, NEW size \in Nat \ {0}, NEW r \in ArrayCreate(P, n, size)
  PROVE  MemInv(r.pool, r.array, l) /\ ArrayShape(r.array)
<1>1. PICK s \in Palloc(P, ArrayHdr) :
        r \in IF s.ptr = Null THEN {Made(s.pool, NoArray, FALSE)}
              ELSE ArrayInit(s.pool, s.ptr, n, size)
  BY Zenon DEF ArrayCreate
<1>0. ArrayHdr \in Nat \ {0}
  BY DEF ArrayHdr
<1>2. /\ Sound(s.pool) /\ Safe(P, s.pool) /\ s.ptr \in Pointers
      /\ s.ptr # Null => Fresh(P, s.pool, s.ptr, ArrayHdr)
  BY <1>0, PallocSafe
<1>3. MemInv(s.pool, NoArray, l)
  BY <1>2, NoArrayHeld, MemSafe
<1>4. CASE s.ptr = Null
  BY <1>1, <1>3, <1>4, NoArrayFields DEF Made
<1>5. CASE s.ptr # Null
  <2>1. r \in ArrayInit(s.pool, s.ptr, n, size)
    BY <1>1, <1>5
  <2>2. Mine(s.pool, l, s.ptr, ArrayHdr)
    BY <1>0, <1>2, <1>5, FreshMine
  <2> QED  BY <1>2, <1>3, <2>1, <2>2, ArrayInitSafe DEF MemInv
<1> QED  BY <1>4, <1>5

\* When the elements of an array move, its header and the list stay.
LEMMA RestHeld ==
  ASSUME NEW P, NEW a, NEW l, MemInv(P, a, l), a # NoArray,
         NEW Q, AllBut(P, Q, a.elts), SameNodes(P, Q)
  PROVE  /\ ListHeld(Q, l)
         /\ a.hdr # Null => Mine(Q, l, a.hdr, ArrayHdr)
<1>1. /\ ListHeld(P, l) /\ a.hdr # a.elts
      /\ Mine(P, l, a.elts, Bytes(a))
      /\ a.hdr # Null => Mine(P, l, a.hdr, ArrayHdr)
  BY ArrayMines
<1>2. ListHeld(Q, l)
  <2> SUFFICES ASSUME NEW ptr, NEW n, ListUses(l, ptr, n) PROVE n \in Nat \ {0} /\ Holds(Q, ptr, n)
    BY DEF ListHeld
  <2>1. n \in Nat \ {0} /\ Holds(P, ptr, n) /\ ptr \in Pointers
    BY <1>1, HeldPointer DEF ListHeld
  <2>2. ptr # a.elts
    BY <1>1 DEF Mine
  <2> QED  BY <2>1, <2>2 DEF AllBut
<1>3. ASSUME a.hdr # Null PROVE Mine(Q, l, a.hdr, ArrayHdr)
  BY <1>1, <1>3, HeldPointer DEF Mine, AllBut, SameNodes
<1> QED  BY <1>2, <1>3

\* An array at the end of the first block: where it is.
LEMMA EndsThere ==
  ASSUME NEW P, NEW a, NEW l, MemInv(P, a, l), a # NoArray, ArrayShape(a), AtEnd(P, a)
  PROVE  /\ a.elts = <<1, a.elts[2]>> /\ a.elts[2] \in Nat /\ Bytes(a) \in Nat \ {0}
         /\ Sound(P) /\ Holds(P, a.elts, Bytes(a)) /\ ~NodeAt(P, a.elts)
         /\ a.elts[2] + Bytes(a) = P.blocks[1].last
         /\ ElementsOf(a) = Span(1, a.elts[2], Bytes(a)) /\ ElementsOf(a) \in P.allocs
<1>1. Sound(P) /\ Mine(P, l, a.elts, Bytes(a))
  BY ArrayMines
<1>2. a.elts \in Nat \X Nat /\ a.elts[1] = 1 /\ a.elts[2] + Bytes(a) = P.blocks[1].last
  BY ArrayFields DEF ArrayShape, AtEnd, Pointers
<1>3. ElementsOf(a) = Span(1, a.elts[2], Bytes(a)) /\ ElementsOf(a) \in P.allocs
  BY <1>1, <1>2 DEF ElementsOf, Mine, Holds
<1> QED  BY <1>1, <1>2, <1>3 DEF Mine

LEMMA ExtendSafe ==
  ASSUME NEW P, NEW a, NEW l, MemInv(P, a, l), a # NoArray, ArrayShape(a),
         AtEnd(P, a), HasRoom(P, a), NEW r, r = Extend(P, a)
  PROVE  /\ MemInv(r.pool, r.array, l) /\ r.ok
         /\ r.array = [a EXCEPT !.nalloc = a.nalloc + 1]
<1> DEFINE b    == [a EXCEPT !.nalloc = a.nalloc + 1]
           from == a.elts[2]
           n    == Bytes(a)
           m    == n + a.size
           R    == Rewind(P, from, Span(1, from, n))
           ras  == P.allocs \ {ElementsOf(a)}
           qas  == ras \cup {Span(1, from, m)}
           Q    == r.pool
<1>1. a \in Arrays /\ a.size \in Nat \ {0} /\ a.nalloc \in Nat \ {0} /\ a.elts \in Pointers
  BY ArrayFields DEF ArrayShape
<1>2. /\ a.elts = <<1, from>> /\ from \in Nat /\ n \in Nat \ {0}
      /\ Sound(P) /\ Holds(P, a.elts, n) /\ ~NodeAt(P, a.elts)
      /\ from + n = P.blocks[1].last
      /\ ElementsOf(a) = Span(1, from, n) /\ ElementsOf(a) \in P.allocs
  BY EndsThere
<1>3. /\ b \in Arrays /\ b # NoArray /\ b.elts = a.elts /\ b.hdr = a.hdr
      /\ b.size = a.size /\ b.nalloc = a.nalloc + 1
  <2>1. /\ b.elts = a.elts /\ b.hdr = a.hdr /\ b.size = a.size /\ b.nalloc = a.nalloc + 1
        /\ b \in Arrays
    BY <1>1 DEF Arrays
  <2> QED  BY <1>1, <2>1 DEF NoArray
<1>4. Bytes(b) = m
  <2>1. \A x, y \in Nat : x * (y + 1) = x * y + x
    OBVIOUS
  <2> QED  BY <1>1, <1>3, <2>1 DEF Bytes
<1>5. m \in Nat \ {0} /\ ElementsOf(b) = Span(1, from, m)
  BY <1>1, <1>2, <1>3, <1>4 DEF ElementsOf
<1>6. r.array = b /\ r.ok /\ Q = [P EXCEPT !.blocks[1].last = P.blocks[1].last + a.size, !.allocs = qas]
  BY <1>2, <1>5 DEF Extend, Made, Sound, PoolInv, Pools
<1>7. /\ P \in Pools /\ P.size \in Nat /\ P.blocks[1].last \in Nat /\ 1 \in 1..Len(P.blocks)
      /\ P.allocs \in SUBSET Spans /\ Header(1) <= from
  <2> DEFINE at == a.elts
  <2>1. at \in Pointers /\ at[1] = 1 /\ at[2] = from
    BY <1>1, <1>2
  <2> HIDE DEF at, n
  <2>2. /\ at[1] \in 1..Len(P.blocks) /\ Header(at[1]) <= at[2]
    BY <1>2, <2>1, UsedBelowLast DEF Sound, at
  <2> HIDE DEF from
  <2> QED  BY <1>2, <2>1, <2>2, PoolFields DEF Sound, PoolInv
<1> HIDE DEF b, n, from
<1>8. /\ Sound(R) /\ R.blocks[1].last = from /\ R.size = P.size
  BY <1>2, RewindSafe
<1>9. R \in Pools /\ Differ(P, R, from, ras)
  <2>1. R = LastMoved(P, from, ras) /\ ras \in SUBSET Spans
    BY <1>2, <1>7 DEF Rewind, LastMoved, Pools
  <2> HIDE DEF ras, R
  <2> QED  BY <1>2, <1>7, <2>1, BlockChanged
<1>10. Q \in Pools /\ Differ(P, Q, from + m, qas)
  <2>1. P.blocks[1].last + a.size = from + m /\ from + m \in Nat
    BY <1>1, <1>2, <1>5
  <2>2. Q = LastMoved(P, from + m, qas)
    BY <1>6, <2>1 DEF LastMoved
  <2>3. qas \in SUBSET Spans
    BY <1>2, <1>5, <1>7 DEF Span, Spans
  <2> HIDE DEF m, qas, Q
  <2> QED  BY <1>7, <2>1, <2>2, <2>3, BlockChanged
<1>11. Q.large = P.large /\ Q.heap = P.heap /\ Q.allocs = qas
  BY <1>10 DEF Differ
<1>12. LargeInv(Q) /\ AllBut(P, Q, a.elts) /\ SameNodes(P, Q)
  <2>1. \A s \in P.allocs : (s.blk = a.elts[1] /\ s.from = a.elts[2]) \/ s \in Q.allocs
    BY <1>2, <1>11 DEF Span
  <2>2. a.elts[1] # 0
    BY <1>2
  <2> HIDE DEF Q, qas
  <2> QED  BY <1>1, <1>2, <1>11, <2>1, <2>2, OthersKept
<1>13. PoolInv(Q)
  <2>1. from + m <= P.size
    BY <1>1, <1>2, <1>7 DEF HasRoom
  <2>2. R.allocs = ras /\ Q.allocs = R.allocs \cup {Span(1, from, m)}
    BY <1>9, <1>11 DEF Differ
  <2>3. /\ Len(R.blocks) = Len(P.blocks) /\ Len(Q.blocks) = Len(P.blocks)
        /\ Q.size = R.size /\ Q.max = R.max /\ Q.current = R.current
        /\ Q.blocks[1].last = from + m
        /\ \A i \in 1..Len(Q.blocks) :
             i # 1 => i \in 1..Len(R.blocks) /\ Q.blocks[i].last = R.blocks[i].last
    BY <1>9, <1>10 DEF Differ
  <2>4. Layout(R) /\ Apart(R) /\ R.current \in 1..Len(R.blocks)
    BY <1>8 DEF Sound, PoolInv, Layout
  <2>5. 1 \in 1..Len(Q.blocks) /\ Len(R.blocks) <= Len(Q.blocks)
    BY <1>7, <2>3, PoolFields
  <2> HIDE DEF Q, R, m, ras, qas
  <2>6. /\ R \in Pools /\ Q \in Pools /\ from \in Nat /\ m \in Nat
        /\ Header(1) <= from /\ from + m <= R.size
        /\ 1 \in 1..Len(R.blocks) => R.blocks[1].last <= from
        /\ Q.current \in 1..Len(Q.blocks)
    BY <1>2, <1>5, <1>7, <1>8, <1>9, <1>10, <2>1, <2>3, <2>4
  <2> QED  BY <2>2, <2>3, <2>4, <2>5, <2>6, SpanAdded
<1> HIDE DEF Q, R, m, ras, qas
<1>14. ListHeld(Q, l) /\ (a.hdr # Null => Mine(Q, l, a.hdr, ArrayHdr))
  BY <1>12, RestHeld
<1>15. Mine(Q, l, a.elts, m)
  <2>1. Holds(Q, a.elts, m)
    BY <1>1, <1>2, <1>11 DEF Holds, qas
  <2>2. ~NodeAt(Q, a.elts)
    BY <1>2, <1>12 DEF SameNodes
  <2>3. \A k : ~ListUses(l, a.elts, k)
    BY ArrayMines DEF Mine
  <2> QED  BY <1>5, <2>1, <2>2, <2>3 DEF Mine
<1>16. MemInv(Q, b, l)
  <2>1. Sound(Q) /\ b.hdr # b.elts
    BY <1>3, <1>12, <1>13, ArrayMines DEF Sound
  <2>2. Mine(Q, l, b.elts, Bytes(b)) /\ (b.hdr # Null => Mine(Q, l, b.hdr, ArrayHdr))
    BY <1>3, <1>4, <1>14, <1>15
  <2> QED  BY <1>14, <2>1, <2>2, ArrayMade
<1> QED  BY <1>6, <1>16 DEF Q, b

\* The array at its new place.
Moved(a, b) == \E p \in Pointers : b = [a EXCEPT !.elts = p, !.nalloc = 2 * a.nalloc]

LEMMA MoveSafe ==
  ASSUME NEW P, NEW a, NEW l, MemInv(P, a, l), a # NoArray, ArrayShape(a),
         NEW r \in Move(P, a)
  PROVE  /\ MemInv(r.pool, r.array, l)
         /\ \/ ~r.ok /\ r.array = a
            \/ r.ok /\ Moved(a, r.array)
<1>1. PICK s \in Palloc(P, 2 * Bytes(a)) :
        r = IF s.ptr = Null THEN Made(s.pool, a, FALSE)
            ELSE Made(s.pool, [a EXCEPT !.elts = s.ptr, !.nalloc = 2 * a.nalloc], TRUE)
  BY Zenon DEF Move
<1>2. a \in Arrays /\ a.size \in Nat \ {0} /\ a.nalloc \in Nat \ {0}
  BY ArrayFields DEF ArrayShape
<1>3. 2 * Bytes(a) \in Nat \ {0} /\ 2 * Bytes(a) = a.size * (2 * a.nalloc)
  <2>1. Bytes(a) \in Nat \ {0}
    BY <1>2, ProductPositive DEF Bytes
  <2>2. \A x, y \in Nat : 2 * (x * y) = x * (2 * y)
    OBVIOUS
  <2> QED  BY <1>2, <2>1, <2>2 DEF Bytes
<1>4. Sound(P) /\ ListHeld(P, l)
  BY DEF MemInv
<1>5. /\ Sound(s.pool) /\ Safe(P, s.pool) /\ s.ptr \in Pointers
      /\ s.ptr # Null => Fresh(P, s.pool, s.ptr, 2 * Bytes(a))
  BY <1>3, <1>4, PallocSafe
<1>6. MemInv(s.pool, a, l)
  BY <1>5, MemSafe
<1>7. CASE s.ptr = Null
  BY <1>1, <1>6, <1>7 DEF Made
<1>8. CASE s.ptr # Null
  <2> DEFINE b == [a EXCEPT !.elts = s.ptr, !.nalloc = 2 * a.nalloc]
  <2>1. r.pool = s.pool /\ r.array = b /\ r.ok
    BY <1>1, <1>8 DEF Made
  <2>2. b.elts = s.ptr /\ b.hdr = a.hdr /\ b.size = a.size /\ b.nalloc = 2 * a.nalloc
    BY <1>2 DEF Arrays
  <2> HIDE DEF b
  <2>3. Bytes(b) = 2 * Bytes(a)
    BY <1>3, <2>2 DEF Bytes
  <2>4. Mine(s.pool, l, b.elts, Bytes(b))
    BY <1>3, <1>4, <1>5, <1>8, <2>2, <2>3, FreshMine
  <2>5. b.hdr # Null => Mine(s.pool, l, b.hdr, ArrayHdr)
    BY <1>6, <2>2, ArrayMines
  <2>6. b.hdr # b.elts
    <3>1. a.hdr # Null => Holds(P, a.hdr, ArrayHdr) /\ ArrayHdr \in Nat \ {0}
      BY ArrayMines DEF Mine
    <3> QED  BY <1>5, <1>8, <2>2, <3>1 DEF Fresh
  <2>7. MemInv(s.pool, b, l)
    BY <1>6, <2>4, <2>5, <2>6, ArrayMade DEF MemInv
  <2>8. Moved(a, b)
    BY <1>5 DEF b, Moved
  <2> QED  BY <2>1, <2>7, <2>8
<1> QED  BY <1>7, <1>8

\* Room is only said to have been made when there is room for one element.
LEMMA MakeRoomSafe ==
  ASSUME NEW P, NEW a, NEW l, MemInv(P, a, l), a # NoArray, ArrayShape(a),
         NEW r \in MakeRoom(P, a)
  PROVE  /\ MemInv(r.pool, r.array, l) /\ r.array # NoArray /\ ArrayShape(r.array)
         /\ r.ok => r.array.nelts < r.array.nalloc
<1>1. /\ a \in Arrays /\ a.size # 0 /\ a.nalloc # 0 /\ a.nelts <= a.nalloc
      /\ \A i \in 1..Len(a.given) : a.given[i] < a.nalloc
      /\ a.nelts \in Nat /\ a.nalloc \in Nat /\ a.elts \in Pointers
      /\ \A i \in 1..Len(a.given) : a.given[i] \in Nat
  BY ArrayFields DEF ArrayShape
<1>2. CASE a.nelts # a.nalloc
  <2>1. r = Made(P, a, TRUE)
    BY <1>2 DEF MakeRoom
  <2> QED  BY <1>1, <1>2, <2>1 DEF Made
\* An array with more room has the shape of an array.
<1>3. ASSUME NEW p \in Pointers, NEW n \in Nat, n > a.nalloc,
             NEW b, b = [a EXCEPT !.elts = p, !.nalloc = n]
      PROVE  b # NoArray /\ ArrayShape(b) /\ b.nelts < b.nalloc
  <2>1. /\ b \in Arrays /\ b.nalloc = n /\ b.nelts = a.nelts /\ b.size = a.size
        /\ b.given = a.given
    BY <1>1, <1>3 DEF Arrays, Pointers
  <2>2. \A i \in 1..Len(a.given) : a.given[i] < n
    BY <1>1, <1>3
  <2>3. n # 0 /\ a.nelts <= n /\ a.nelts < n
    BY <1>1, <1>3
  <2> QED  BY <1>1, <2>1, <2>2, <2>3 DEF ArrayShape, NoArray
<1>4. CASE a.nelts = a.nalloc /\ AtEnd(P, a) /\ HasRoom(P, a)
  <2>1. r = Extend(P, a)
    BY <1>4 DEF MakeRoom
  <2>2. MemInv(r.pool, r.array, l) /\ r.array = [a EXCEPT !.nalloc = a.nalloc + 1]
    BY <1>4, <2>1, ExtendSafe
  <2>3. r.array = [a EXCEPT !.elts = a.elts, !.nalloc = a.nalloc + 1]
    BY <1>1, <2>2 DEF Arrays
  <2>4. a.nalloc + 1 \in Nat /\ a.nalloc + 1 > a.nalloc
    BY <1>1
  <2> QED  BY <1>1, <1>3, <2>2, <2>3, <2>4
<1>5. CASE a.nelts = a.nalloc /\ ~(AtEnd(P, a) /\ HasRoom(P, a))
  <2>1. r \in Move(P, a)
    BY <1>5 DEF MakeRoom
  <2>2. /\ MemInv(r.pool, r.array, l)
        /\ \/ ~r.ok /\ r.array = a
           \/ Moved(a, r.array)
    BY <2>1, MoveSafe
  <2>3. 2 * a.nalloc \in Nat /\ 2 * a.nalloc > a.nalloc
    BY <1>1
  <2> QED  BY <1>3, <2>2, <2>3 DEF Moved
<1> QED  BY <1>2, <1>4, <1>5

\* The slots that are handed out, n of them from nelts on.
LEMMA GiveShape ==
  ASSUME NEW a, a # NoArray, ArrayShape(a), NEW n \in Nat, a.nelts + n <= a.nalloc
  PROVE  /\ Give(a, n) # NoArray /\ ArrayShape(Give(a, n)) /\ Give(a, n).nelts = a.nelts
         /\ Give(a, n).elts = a.elts /\ Give(a, n).hdr = a.hdr
         /\ Give(a, n).size = a.size /\ Give(a, n).nalloc = a.nalloc
<1> DEFINE new == [i \in 1..n |-> a.nelts + i - 1]
           g   == a.given \o new
           b   == [a EXCEPT !.given = g]
<1>1. /\ a \in Arrays /\ a.size # 0 /\ a.nalloc # 0 /\ a.nelts <= a.nalloc
      /\ \A i \in 1..Len(a.given) : a.given[i] < a.nalloc
      /\ a.nelts \in Nat /\ a.nalloc \in Nat
      /\ a.given \in Seq(Nat) /\ Len(a.given) \in Nat
  BY ArrayFields DEF ArrayShape
<1>2. new \in Seq(Nat) /\ Len(new) = n
  <2>1. \A i \in 1..n : a.nelts + i - 1 \in Nat
    BY <1>1
  <2>2. new \in [1..n -> Nat]
    BY <2>1
  <2> QED  BY <2>2, SeqDef
<1>3. \A i \in 1..n : new[i] < a.nalloc
  BY <1>1
<1> HIDE DEF new
<1>4. /\ g \in Seq(Nat) /\ Len(g) = Len(a.given) + n
      /\ \A i \in 1..Len(g) :
           \/ i \in 1..Len(a.given) /\ g[i] = a.given[i]
           \/ i - Len(a.given) \in 1..n /\ g[i] = new[i - Len(a.given)]
  <2>1. /\ g \in Seq(Nat) /\ Len(g) = Len(a.given) + n
        /\ \A i \in 1..(Len(a.given) + n) :
             g[i] = IF i <= Len(a.given) THEN a.given[i] ELSE new[i - Len(a.given)]
    BY <1>1, <1>2, ConcatProperties
  <2>2. \A i \in 1..(Len(a.given) + n) :
          \/ i \in 1..Len(a.given)
          \/ ~(i <= Len(a.given)) /\ i - Len(a.given) \in 1..n
    BY <1>1
  <2> QED  BY <1>1, <2>1, <2>2
<1> HIDE DEF g
<1>5. \A i \in 1..Len(g) : g[i] < a.nalloc
  BY <1>1, <1>3, <1>4
<1>6. Give(a, n) = b
  BY DEF Give, g, new
<1>7. /\ b \in Arrays /\ b.given = g /\ b.nelts = a.nelts /\ b.nalloc = a.nalloc
      /\ b.size = a.size /\ b.elts = a.elts /\ b.hdr = a.hdr
  BY <1>1, <1>4 DEF Arrays
<1> HIDE DEF b
<1>8. b # NoArray
  BY <1>1, <1>7 DEF NoArray
<1> QED  BY <1>1, <1>5, <1>6, <1>7, <1>8 DEF ArrayShape

\* Only where its pieces are matters to the memory of an array.
LEMMA SamePieces ==
  ASSUME NEW P, NEW a, NEW l, MemInv(P, a, l), a # NoArray,
         NEW b, b.elts = a.elts, b.hdr = a.hdr, b.size = a.size, b.nalloc = a.nalloc
  PROVE  MemInv(P, b, l)
<1>1. Bytes(b) = Bytes(a)
  BY DEF Bytes
<1> QED  BY <1>1, ArrayMines, ArrayMade

LEMMA PushSafe ==
  ASSUME NEW P, NEW a, NEW l, MemInv(P, a, l), a # NoArray, ArrayShape(a),
         NEW r \in Push(P, a)
  PROVE  MemInv(r.pool, r.array, l) /\ ArrayShape(r.array)
<1>1. PICK s \in MakeRoom(P, a) : r = IF s.ok THEN [s EXCEPT !.array = Give(s.array, 1)] ELSE s
  BY Zenon DEF Push
<1>2. /\ MemInv(s.pool, s.array, l) /\ s.array # NoArray /\ ArrayShape(s.array)
      /\ s.ok => s.array.nelts < s.array.nalloc
  BY MakeRoomSafe
<1>3. CASE ~s.ok
  BY <1>1, <1>2, <1>3
<1>4. CASE s.ok
  <2>1. s.array.nelts \in Nat /\ s.array.nalloc \in Nat
    BY <1>2, ArrayFields DEF ArrayShape
  <2>2. s.array.nelts + 1 <= s.array.nalloc
    BY <1>2, <1>4, <2>1
  <2>3. \E Q, x, y : s = Made(Q, x, y)
    BY Zenon DEF MakeRoom, Extend, Move
  <2>4. r.pool = s.pool /\ r.array = Give(s.array, 1)
    BY <1>1, <1>4, <2>3 DEF Made
  <2> QED  BY <1>2, <2>2, <2>4, GiveShape, SamePieces
<1> QED  BY <1>3, <1>4

LEMMA WildSafe ==
  ASSUME NEW P, NEW a, NEW l, MemInv(P, a, l)
  PROVE  MemInv([P EXCEPT !.wild = TRUE], a, l)
<1> DEFINE Q == [P EXCEPT !.wild = TRUE]
<1>1. P \in Pools /\ Sound(P)
  BY DEF MemInv, Sound, PoolInv
<1>2. Q \in Pools
  BY <1>1, Zenon DEF Pools
<1>3. /\ Q.size = P.size /\ Q.max = P.max /\ Q.blocks = P.blocks /\ Q.current = P.current
      /\ Q.allocs = P.allocs /\ Q.large = P.large /\ Q.heap = P.heap
  BY <1>1 DEF Pools
<1> HIDE DEF Q
<1>4. PoolInv(Q)
  BY <1>1, <1>2, <1>3, SameLayoutKeeps DEF Sound
<1>5. LargeInv(Q) /\ Grows(P, Q)
  BY <1>1, <1>3, LargeSame DEF Sound
<1>6. Safe(P, Q)
  BY <1>1, <1>3, <1>5, SafeSame DEF Sound, LargeInv
<1>7. MemInv(Q, a, l)
  BY <1>4, <1>5, <1>6, MemSafe DEF Sound
<1> QED  BY <1>7 DEF Q

LEMMA PushNSafe ==
  ASSUME NEW P, NEW a, NEW l, MemInv(P, a, l), a # NoArray, ArrayShape(a),
         NEW n \in Nat, NEW r \in PushN(P, a, n)
  PROVE  MemInv(r.pool, r.array, l) /\ ArrayShape(r.array)
<1>1. CASE a.nelts + n > a.nalloc
  <2>1. r.pool = [P EXCEPT !.wild = TRUE] /\ r.array = a
    BY <1>1 DEF PushN, Made
  <2> QED  BY <2>1, WildSafe
<1>2. CASE ~(a.nelts + n > a.nalloc)
  <2> DEFINE g == Give(a, n)
             b == [g EXCEPT !.nelts = g.nelts + n]
  <2>1. r.pool = P /\ r.array = b
    BY <1>2 DEF PushN, Made
  <2>2. a.nelts \in Nat /\ a.nalloc \in Nat /\ a.nelts + n <= a.nalloc
    BY <1>2, ArrayFields DEF ArrayShape
  <2>3. /\ g # NoArray /\ ArrayShape(g) /\ g.nelts = a.nelts
        /\ g.elts = a.elts /\ g.hdr = a.hdr /\ g.size = a.size /\ g.nalloc = a.nalloc
    BY <2>2, GiveShape
  <2> HIDE DEF g
  <2>4. g \in Arrays
    BY <2>3 DEF ArrayShape
  <2>5. /\ b \in Arrays /\ b.nelts = a.nelts + n /\ b.given = g.given
        /\ b.elts = a.elts /\ b.hdr = a.hdr /\ b.size = a.size /\ b.nalloc = a.nalloc
    BY <2>2, <2>3, <2>4, SMTT(30) DEF Arrays
  <2> HIDE DEF b
  <2>6. ArrayShape(b)
    BY <2>2, <2>3, <2>5 DEF ArrayShape
  <2> QED  BY <2>1, <2>5, <2>6, SamePieces
<1> QED  BY <1>1, <1>2

\* ngx_array_destroy gives back the elements, the header, both or neither.
LEMMA FreeElementsSafe ==
  ASSUME NEW P, NEW a, NEW l, MemInv(P, a, l), a # NoArray, ArrayShape(a),
         NEW Q, Q = FreeElements(P, a)
  PROVE  Sound(Q) /\ ListHeld(Q, l) /\ (a.hdr # Null => Mine(Q, l, a.hdr, ArrayHdr))
<1>1. CASE ~AtEnd(P, a)
  BY <1>1, ArrayMines DEF FreeElements
<1>2. CASE AtEnd(P, a)
  <2> DEFINE from == a.elts[2]
             n    == Bytes(a)
  <2>1. /\ a.elts = <<1, from>> /\ from \in Nat /\ n \in Nat \ {0}
        /\ Sound(P) /\ Holds(P, a.elts, n) /\ ~NodeAt(P, a.elts)
        /\ from + n = P.blocks[1].last /\ ElementsOf(a) = Span(1, from, n)
    BY <1>2, EndsThere
  <2>2. Q = Rewind(P, from, Span(1, from, n))
    BY <1>2, <2>1 DEF FreeElements
  <2> HIDE DEF from, n
  <2>3. Sound(Q) /\ AllBut(P, Q, a.elts) /\ SameNodes(P, Q)
    BY <2>1, <2>2, RewindSafe
  <2> QED  BY <2>3, RestHeld
<1> QED  BY <1>1, <1>2

LEMMA FreeHeaderSafe ==
  ASSUME NEW P, NEW l, Sound(P), ListHeld(P, l),
         NEW a, a.hdr \in Pointers, a.hdr # Null => Mine(P, l, a.hdr, ArrayHdr)
  PROVE  Sound(FreeHeader(P, a)) /\ ListHeld(FreeHeader(P, a), l)
<1> DEFINE Q    == FreeHeader(P, a)
           from == a.hdr[2]
<1>1. CASE ~(a.hdr[1] = 1 /\ a.hdr[2] + ArrayHdr = P.blocks[1].last)
  BY <1>1 DEF FreeHeader
<1>2. CASE a.hdr[1] = 1 /\ a.hdr[2] + ArrayHdr = P.blocks[1].last
  <2>1. a.hdr = <<1, from>> /\ from \in Nat /\ a.hdr # Null
    BY <1>2 DEF Pointers, Null
  <2>2. /\ ArrayHdr \in Nat \ {0} /\ Holds(P, a.hdr, ArrayHdr) /\ ~NodeAt(P, a.hdr)
        /\ \A k : ~ListUses(l, a.hdr, k)
    BY <2>1 DEF Mine
  <2>3. Q = Rewind(P, from, Span(1, from, ArrayHdr)) /\ from + ArrayHdr = P.blocks[1].last
    BY <1>2 DEF FreeHeader
  <2> HIDE DEF Q, from
  <2>4. Sound(Q) /\ AllBut(P, Q, a.hdr)
    BY <2>1, <2>2, <2>3, RewindSafe
  <2>5. ListHeld(Q, l)
    BY <2>2, <2>4, HeldPointer DEF ListHeld, AllBut
  <2> QED  BY <2>4, <2>5 DEF Q
<1> QED  BY <1>1, <1>2

LEMMA DestroySafe ==
  ASSUME NEW P, NEW a, NEW l, MemInv(P, a, l), a # NoArray, ArrayShape(a)
  PROVE  MemInv(FreeHeader(FreeElements(P, a), a), NoArray, l)
<1> DEFINE Q == FreeElements(P, a)
<1>1. Sound(Q) /\ ListHeld(Q, l) /\ (a.hdr # Null => Mine(Q, l, a.hdr, ArrayHdr))
  BY FreeElementsSafe
<1>2. a.hdr \in Pointers
  BY ArrayFields DEF ArrayShape
<1> HIDE DEF Q
<1>3. Sound(FreeHeader(Q, a)) /\ ListHeld(FreeHeader(Q, a), l)
  BY <1>1, <1>2, FreeHeaderSafe
<1> QED  BY <1>3, NoArrayHeld DEF Q

-----------------------------------------------------------------------------
(* Recursion.  The loop over a list is defined with the recursive operator
   FlattenSeq; the proofs below follow its partial results instead.        *)

\* f runs the sequences of s together: f[k] is the first k of them in one.
Joins(s, f) ==
  f = [k \in 1..Len(s) |-> IF k = 1 THEN s[k] ELSE f[k - 1] \o s[k]]

LEMMA JoinsOnce ==
  ASSUME NEW s, Len(s) \in Nat, NEW f, Joins(s, f), NEW g, Joins(s, g)
  PROVE  f = g
<1> DEFINE n == Len(s)
           T == {k \in 1..n : f[k] # g[k]}
<1>1. /\ f = [k \in 1..n |-> IF k = 1 THEN s[k] ELSE f[k - 1] \o s[k]]
      /\ g = [k \in 1..n |-> IF k = 1 THEN s[k] ELSE g[k - 1] \o s[k]]
  BY DEF Joins
<1> HIDE DEF n
<1>2. T = {}
  <2> SUFFICES ASSUME T # {} PROVE FALSE
    OBVIOUS
  <2>1. n \in Nat /\ T \in SUBSET Nat
    BY DEF n
  <2>2. PICK k \in T : \A m \in T : k <= m
    BY <2>1, LeastNumber
  <2>3. k # 1 /\ k - 1 \in 1..n /\ ~(k <= k - 1)
    BY <1>1, <2>1, <2>2
  <2>4. f[k - 1] = g[k - 1]
    BY <2>2, <2>3
  <2>5. k \in 1..n /\ f[k] # g[k]
    BY <2>2
  <2>6. f[k] = f[k - 1] \o s[k] /\ g[k] = g[k - 1] \o s[k]
    BY <1>1, <2>3, <2>5
  <2> QED  BY <2>4, <2>5, <2>6
<1>3. \A k \in 1..n : f[k] = g[k]
  BY <1>2
<1>4. f = [k \in 1..n |-> f[k]] /\ g = [k \in 1..n |-> g[k]]
  BY <1>1
<1> QED  BY <1>3, <1>4

\* FlattenSeq joins all sequences.
LEMMA FlattenJoins ==
  ASSUME NEW s, Len(s) \in Nat \ {0}, NEW f, Joins(s, f)
  PROVE  FlattenSeq(s) = f[Len(s)]
<1>1. f = [k \in 1..Len(s) |-> IF k = 1 THEN s[k] ELSE f[k - 1] \o s[k]]
  BY DEF Joins
<1>2. ASSUME NEW g, g = [k \in 1..Len(s) |-> IF k = 1 THEN s[k] ELSE g[k - 1] \o s[k]]
      PROVE  g = f
  <2>1. Joins(s, g)
    BY <1>2 DEF Joins
  <2> QED  BY <2>1, JoinsOnce
<1> QED  BY <1>1, <1>2 DEF FlattenSeq

-----------------------------------------------------------------------------
(* The functions of ngx_list.c.                                             *)

LEMMA NewListHeld ==
  ASSUME NEW P, NEW a, NEW l, MemInv(P, a, l),
         NEW m, \A ptr, n : ListUses(m, ptr, n) =>
                  \/ ListUses(l, ptr, n)
                  \/ n \in Nat \ {0} /\ Holds(P, ptr, n) /\ \A k : ~ArrayUses(a, ptr, k)
  PROVE  MemInv(P, a, m)
<1>1. ListHeld(P, m)
  BY DEF MemInv, ListHeld
<1>2. ASSUME NEW ptr, NEW n, ArrayUses(a, ptr, n) PROVE Mine(P, m, ptr, n)
  <2>1. Mine(P, l, ptr, n)
    BY <1>2 DEF MemInv, ArrayHeld
  <2>2. \A k : ~ListUses(m, ptr, k)
    BY <1>2, <2>1 DEF Mine
  <2> QED  BY <2>1, <2>2 DEF Mine
<1> QED  BY <1>1, <1>2 DEF MemInv, ArrayHeld

\* The array does not have what the pool hands out.
LEMMA FreshNotArray ==
  ASSUME NEW P, NEW a, NEW l, MemInv(P, a, l), NEW Q, NEW ptr, NEW n, Fresh(P, Q, ptr, n)
  PROVE  \A k : ~ArrayUses(a, ptr, k)
BY DEF MemInv, ArrayHeld, Mine, Fresh

\* The slots of a part that were handed out, and those of the parts so far.
Given(l, k) == [i \in 1..l.parts[k].nelts |-> <<l.parts[k].elts, i - 1>>]
Runs(l, f) ==
  f = [k \in 1..Len(l.parts) |-> IF k = 1 THEN Given(l, 1) ELSE f[k - 1] \o Given(l, k)]
InOrder(l) ==
  \E f \in [1..Len(l.parts) -> Seq(Slots)] : Runs(l, f) /\ l.given = f[Len(l.parts)]

\* What a list looks like, also when its last part was just added ...
Chained(l) ==
  /\ l \in Lists
  /\ l.size # 0 /\ l.nalloc # 0 /\ Len(l.parts) # 0
  /\ \A k \in 1..Len(l.parts) : l.parts[k].nelts <= l.nalloc
  /\ InOrder(l)

\* ... and between two calls, when only the first part can be empty.
ListShape(l) ==
  \/ l = NoList
  \/ Chained(l) /\ \A k \in 1..Len(l.parts) : k = 1 \/ l.parts[k].nelts # 0

LEMMA ListFields ==
  ASSUME NEW l \in Lists
  PROVE  /\ l.hdr \in Pointers /\ l.size \in Nat /\ l.nalloc \in Nat
         /\ l.parts \in Seq(Parts) /\ Len(l.parts) \in Nat
         /\ DOMAIN l.parts = 1..Len(l.parts)
         /\ \A k \in 1..Len(l.parts) :
              /\ l.parts[k] \in Parts
              /\ l.parts[k].node \in Pointers /\ l.parts[k].elts \in Pointers
              /\ l.parts[k].nelts \in Nat
         /\ l.given \in Seq(Slots)
<1>1. l.parts \in Seq(Parts) /\ l.given \in Seq(Slots)
  BY DEF Lists
<1>2. /\ Len(l.parts) \in Nat /\ DOMAIN l.parts = 1..Len(l.parts)
      /\ \A k \in 1..Len(l.parts) : l.parts[k] \in Parts
  BY <1>1, LenProperties, ElementOfSeq
<1> QED  BY <1>1, <1>2 DEF Lists, Parts, Pointers

LEMMA GivenSeq ==
  ASSUME NEW l \in Lists, NEW k \in 1..Len(l.parts)
  PROVE  Given(l, k) \in Seq(Slots) /\ Len(Given(l, k)) = l.parts[k].nelts
<1>1. l.parts[k].nelts \in Nat /\ l.parts[k].elts \in Pointers
  BY ListFields
<1>2. \A i \in 1..l.parts[k].nelts : <<l.parts[k].elts, i - 1>> \in Slots
  BY <1>1 DEF Slots, Pointers
<1>3. Given(l, k) \in [1..l.parts[k].nelts -> Slots]
  BY <1>2 DEF Given
<1>4. ASSUME NEW n \in Nat, NEW s \in [1..n -> Slots] PROVE s \in Seq(Slots) /\ Len(s) = n
  BY SeqDef
<1> QED  BY <1>1, <1>3, <1>4

LEMMA AppendLast ==
  ASSUME NEW S, NEW s \in Seq(S), NEW t \in Seq(S), NEW e \in S
  PROVE  s \o Append(t, e) = Append(s \o t, e)
<1>1. <<e>> \in Seq(S) /\ s \o t \in Seq(S)
  BY ConcatProperties
<1>2. Append(t, e) = t \o <<e>> /\ Append(s \o t, e) = (s \o t) \o <<e>>
  BY <1>1, AppendIsConcat
<1>3. (s \o t) \o <<e>> = s \o (t \o <<e>>)
  BY <1>1, ConcatAssociative
<1> QED  BY <1>2, <1>3

LEMMA NoListFields ==
  /\ NoList \in Lists /\ ListShape(NoList)
  /\ NoList.hdr = Null /\ NoList.parts = <<>> /\ NoList.given = <<>>
  /\ \A ptr, n : ~ListUses(NoList, ptr, n)
<1>1. Null \in Nat \X Nat /\ <<>> \in Seq(Parts) /\ <<>> \in Seq(Slots) /\ 0 \in Nat
  BY EmptySeq DEF Null
<1>2. NoList \in Lists /\ NoList.hdr = Null /\ NoList.parts = <<>> /\ NoList.given = <<>>
  BY <1>1 DEF NoList, Lists
<1>3. \A ptr, n : ~ListUses(NoList, ptr, n)
  BY <1>2 DEF ListUses
<1> QED  BY <1>2, <1>3 DEF ListShape

\* One more element in the last part, which is where it was.
Pushed(l, m) ==
  /\ m \in Lists
  /\ m.hdr = l.hdr /\ m.size = l.size /\ m.nalloc = l.nalloc
  /\ Len(m.parts) = Len(l.parts)
  /\ \A k \in 1..Len(l.parts) :
       /\ m.parts[k].node = l.parts[k].node /\ m.parts[k].elts = l.parts[k].elts
       /\ m.parts[k].nelts = l.parts[k].nelts + (IF k = Len(l.parts) THEN 1 ELSE 0)
  /\ LET n == Len(l.parts)
     IN  m.given = Append(l.given, <<l.parts[n].elts, l.parts[n].nelts>>)

LEMMA PushLastPushes ==
  ASSUME NEW P, NEW l \in Lists, Len(l.parts) # 0
  PROVE  PushLast(P, l).pool = P /\ Pushed(l, PushLast(P, l).list)
<1> DEFINE n    == Len(l.parts)
           slot == <<l.parts[n].elts, l.parts[n].nelts>>
           g    == Append(l.given, slot)
           part == [l.parts[n] EXCEPT !.nelts = l.parts[n].nelts + 1]
           ps   == [l.parts EXCEPT ![n] = part]
           m    == [l EXCEPT !.parts = ps, !.given = g]
<1>1. /\ n \in 1..n /\ l.parts \in Seq(Parts) /\ l.given \in Seq(Slots)
      /\ \A k \in 1..n : l.parts[k] \in Parts /\ l.parts[k].nelts \in Nat /\ l.parts[k].elts \in Pointers
  BY ListFields
<1>2. PushLast(P, l) = Listed(P, m)
  BY DEF PushLast
<1>3. /\ part \in Parts /\ part.node = l.parts[n].node /\ part.elts = l.parts[n].elts
      /\ part.nelts = l.parts[n].nelts + 1
  <2>1. ASSUME NEW p \in Parts, NEW x \in Nat
        PROVE  LET q == [p EXCEPT !.nelts = x]
               IN  q \in Parts /\ q.node = p.node /\ q.elts = p.elts /\ q.nelts = x
    BY DEF Parts
  <2>2. l.parts[n] \in Parts /\ l.parts[n].nelts + 1 \in Nat
    BY <1>1
  <2> QED  BY <2>1, <2>2
<1>4. slot \in Slots
  BY <1>1 DEF Slots, Pointers
<1> HIDE DEF n, slot, part
<1>5. g \in Seq(Slots)
  BY <1>1, <1>4, AppendProperties
<1>6. /\ ps \in Seq(Parts) /\ Len(ps) = n
      /\ \A k \in 1..n : ps[k] = IF k = n THEN part ELSE l.parts[k]
  BY <1>1, <1>3, ExceptSeq DEF n
<1> HIDE DEF g, ps
<1>7. /\ m \in Lists /\ m.parts = ps /\ m.given = g
      /\ m.hdr = l.hdr /\ m.size = l.size /\ m.nalloc = l.nalloc
  BY <1>5, <1>6 DEF Lists
<1> HIDE DEF m
<1>8. \A k \in 1..n :
        /\ m.parts[k].node = l.parts[k].node /\ m.parts[k].elts = l.parts[k].elts
        /\ m.parts[k].nelts = l.parts[k].nelts + (IF k = n THEN 1 ELSE 0)
  BY <1>1, <1>3, <1>6, <1>7
<1>9. Pushed(l, m)
  BY <1>6, <1>7, <1>8 DEF Pushed, n, g, slot
<1> QED  BY <1>2, <1>9 DEF Listed

\* The new slot comes behind all the others.
LEMMA PushedInOrder ==
  ASSUME NEW l, Chained(l), NEW m, Pushed(l, m)
  PROVE  InOrder(m)
<1> DEFINE n    == Len(l.parts)
           slot == <<l.parts[n].elts, l.parts[n].nelts>>
<1>1. /\ l \in Lists /\ m \in Lists /\ n \in Nat \ {0} /\ n \in 1..n /\ Len(m.parts) = n
      /\ \A k \in 1..n : /\ m.parts[k].elts = l.parts[k].elts /\ l.parts[k].nelts \in Nat
                         /\ l.parts[k].elts \in Pointers
                         /\ m.parts[k].nelts = l.parts[k].nelts + (IF k = n THEN 1 ELSE 0)
      /\ m.given = Append(l.given, slot)
  BY ListFields DEF Chained, Pushed
<1>2. PICK f \in [1..n -> Seq(Slots)] : Runs(l, f) /\ l.given = f[n]
  BY DEF Chained, InOrder
<1>3. slot \in Slots
  BY <1>1 DEF Slots, Pointers
<1>0. \A s, t \in Seq(Slots) : s \o Append(t, slot) = Append(s \o t, slot)
  BY <1>3, AppendLast
<1>4. \A k \in 1..n : Given(l, k) \in Seq(Slots) /\ f[k] \in Seq(Slots)
  BY <1>1, <1>2, GivenSeq
<1>5. \A k \in 1..n : k # n => Given(m, k) = Given(l, k)
  <2> SUFFICES ASSUME NEW k \in 1..n, k # n PROVE Given(m, k) = Given(l, k)
    OBVIOUS
  <2>1. m.parts[k].nelts = l.parts[k].nelts /\ m.parts[k].elts = l.parts[k].elts
    BY <1>1
  <2> QED  BY <2>1 DEF Given
<1>6. Given(m, n) = Append(Given(l, n), slot)
  <2> DEFINE s == Given(l, n)
             x == l.parts[n].nelts
  <2>1. m.parts[n].nelts = x + 1 /\ m.parts[n].elts = l.parts[n].elts /\ x \in Nat
    BY <1>1
  <2>2. /\ Given(m, n) \in Seq(Slots) /\ Len(Given(m, n)) = x + 1
        /\ s \in Seq(Slots) /\ Len(s) = x
    <3>1. Given(m, n) \in Seq(Slots) /\ Len(Given(m, n)) = m.parts[n].nelts
      BY <1>1, GivenSeq
    <3>2. s \in Seq(Slots) /\ Len(s) = x
      BY <1>1, GivenSeq
    <3> QED  BY <2>1, <3>1, <3>2
  <2>3. \A i \in 1..(x + 1) : Given(m, n)[i] = <<l.parts[n].elts, i - 1>>
    BY <2>1 DEF Given
  <2>4. \A i \in 1..x : s[i] = <<l.parts[n].elts, i - 1>>
    BY <2>1 DEF Given
  <2> HIDE DEF s, x, slot
  <2>5. /\ Append(s, slot) \in Seq(Slots) /\ Len(Append(s, slot)) = x + 1
        /\ \A i \in 1..x : Append(s, slot)[i] = s[i]
        /\ Append(s, slot)[x + 1] = slot
    BY <1>3, <2>2, AppendProperties
  <2>6. \A i \in 1..(x + 1) : Given(m, n)[i] = Append(s, slot)[i]
    <3> SUFFICES ASSUME NEW i \in 1..(x + 1) PROVE Given(m, n)[i] = Append(s, slot)[i]
      OBVIOUS
    <3>1. CASE i = x + 1
      <4>1. Given(m, n)[i] = <<l.parts[n].elts, i - 1>> /\ i - 1 = x
        BY <2>1, <2>3, <3>1
      <4> QED  BY <2>5, <3>1, <4>1 DEF slot, x
    <3>2. CASE i # x + 1
      <4>1. i \in 1..x
        BY <2>1, <3>2
      <4> QED  BY <2>3, <2>4, <2>5, <4>1
    <3> QED  BY <3>1, <3>2
  <2>7. Given(m, n) = Append(s, slot)
    BY <2>2, <2>5, <2>6, SeqEqual
  <2> QED  BY <2>7 DEF s
<1> HIDE DEF slot
<1> DEFINE h == [f EXCEPT ![n] = Append(f[n], slot)]
<1>7. h \in [1..n -> Seq(Slots)]
  <2>1. Append(f[n], slot) \in Seq(Slots)
    BY <1>1, <1>3, <1>4, AppendProperties
  <2> QED  BY <1>2, <2>1
<1>8. \A k \in 1..n : h[k] = IF k = 1 THEN Given(m, 1) ELSE h[k - 1] \o Given(m, k)
  <2> SUFFICES ASSUME NEW k \in 1..n
               PROVE  h[k] = IF k = 1 THEN Given(m, 1) ELSE h[k - 1] \o Given(m, k)
    OBVIOUS
  <2>1. f[k] = IF k = 1 THEN Given(l, 1) ELSE f[k - 1] \o Given(l, k)
    BY <1>2 DEF Runs
  <2>2. k # 1 => k - 1 \in 1..n /\ k - 1 # n
    BY <1>1
  <2>3. k # 1 => h[k - 1] = f[k - 1]
    BY <1>2, <2>2
  <2>4. CASE k # n
    <3>1. h[k] = f[k] /\ Given(m, k) = Given(l, k)
      BY <1>2, <1>5, <2>4
    <3> QED  BY <2>1, <2>3, <3>1
  <2>5. CASE k = n
    <3>1. h[k] = Append(f[k], slot) /\ Given(m, k) = Append(Given(l, k), slot)
      BY <1>2, <1>6, <2>5
    <3>2. CASE k = 1
      BY <2>1, <3>1, <3>2
    <3>3. CASE k # 1
      <4>1. f[k - 1] \in Seq(Slots) /\ Given(l, k) \in Seq(Slots)
        BY <1>4, <2>2, <3>3
      <4>2. f[k - 1] \o Append(Given(l, k), slot) = Append(f[k - 1] \o Given(l, k), slot)
        BY <1>0, <4>1
      <4> QED  BY <2>1, <2>3, <3>1, <3>3, <4>2
    <3> QED  BY <3>2, <3>3
  <2> QED  BY <2>4, <2>5
<1>9. h = [k \in 1..n |-> IF k = 1 THEN Given(m, 1) ELSE h[k - 1] \o Given(m, k)]
  <2>1. h = [k \in 1..n |-> h[k]]
    BY <1>7
  <2> HIDE DEF h
  <2> QED  BY <1>8, <2>1
<1>10. h[n] = Append(l.given, slot)
  BY <1>1, <1>2
<1> HIDE DEF h
<1>11. Runs(m, h) /\ m.given = h[Len(m.parts)] /\ h \in [1..Len(m.parts) -> Seq(Slots)]
  BY <1>1, <1>7, <1>9, <1>10 DEF Runs
<1> QED  BY <1>11 DEF InOrder

LEMMA PushLastSafe ==
  ASSUME NEW P, NEW a, NEW l, MemInv(P, a, l), Chained(l),
         l.parts[Len(l.parts)].nelts # l.nalloc,
         \A k \in 1..Len(l.parts) : k = 1 \/ k = Len(l.parts) \/ l.parts[k].nelts # 0
  PROVE  /\ MemInv(PushLast(P, l).pool, a, PushLast(P, l).list)
         /\ ListShape(PushLast(P, l).list)
<1> DEFINE m == PushLast(P, l).list
           n == Len(l.parts)
<1>1. PushLast(P, l).pool = P /\ Pushed(l, m)
  BY PushLastPushes DEF Chained
<1> HIDE DEF m
<1>2. /\ n \in Nat \ {0} /\ l.nalloc \in Nat /\ l.size # 0 /\ l.nalloc # 0
      /\ \A k \in 1..n : l.parts[k].nelts \in Nat /\ l.parts[k].nelts <= l.nalloc
  BY ListFields DEF Chained
<1>3. /\ m \in Lists /\ m.hdr = l.hdr /\ m.size = l.size /\ m.nalloc = l.nalloc
      /\ Len(m.parts) = n
      /\ \A k \in 1..n :
           /\ m.parts[k].node = l.parts[k].node /\ m.parts[k].elts = l.parts[k].elts
           /\ m.parts[k].nelts = l.parts[k].nelts + (IF k = n THEN 1 ELSE 0)
  BY <1>1 DEF Pushed
<1>4. \A ptr, s : ListUses(m, ptr, s) => ListUses(l, ptr, s)
  BY <1>2, <1>3 DEF ListUses
<1>5. MemInv(P, a, m)
  BY <1>4, NewListHeld
<1>6. \A k \in 1..n : m.parts[k].nelts <= l.nalloc /\ (k = 1 \/ m.parts[k].nelts # 0)
  <2> SUFFICES ASSUME NEW k \in 1..n
               PROVE  m.parts[k].nelts <= l.nalloc /\ (k = 1 \/ m.parts[k].nelts # 0)
    OBVIOUS
  <2>1. CASE k = n
    BY <1>2, <1>3, <2>1
  <2>2. CASE k # n
    BY <1>2, <1>3, <2>2
  <2> QED  BY <2>1, <2>2
<1>7. InOrder(m)
  BY <1>1, PushedInOrder
<1>8. ListShape(m)
  BY <1>2, <1>3, <1>6, <1>7 DEF ListShape, Chained
<1> QED  BY <1>1, <1>5, <1>8 DEF m

LEMMA ListInitSafe ==
  ASSUME NEW P, NEW a, MemInv(P, a, NoList),
         NEW hdr \in Pointers,
         hdr # Null => Holds(P, hdr, ListHdr) /\ \A k : ~ArrayUses(a, hdr, k),
         NEW n \in Nat \ {0}, NEW size \in Nat \ {0}, NEW r \in ListInit(P, hdr, n, size)
  PROVE  MemInv(r.pool, a, r.list) /\ ListShape(r.list)
<1>1. PICK s \in Palloc(P, n * size) :
        r = Listed(s.pool, IF s.ptr = Null THEN NoList
                           ELSE [NoList EXCEPT !.hdr = hdr, !.parts = <<NewPart(Null, s.ptr)>>,
                                               !.size = size, !.nalloc = n])
  BY Zenon DEF ListInit
<1>2. n * size \in Nat \ {0}
  BY ProductPositive
<1>3. /\ Sound(s.pool) /\ Safe(P, s.pool) /\ s.ptr \in Pointers
      /\ s.ptr # Null => Fresh(P, s.pool, s.ptr, n * size)
  BY <1>2, PallocSafe DEF MemInv
<1>4. MemInv(s.pool, a, NoList)
  BY <1>3, MemSafe
<1>5. CASE s.ptr = Null
  BY <1>1, <1>4, <1>5, NoListFields DEF Listed
<1>6. CASE s.ptr # Null
  <2> DEFINE part == NewPart(Null, s.ptr)
             m    == [NoList EXCEPT !.hdr = hdr, !.parts = <<part>>, !.size = size, !.nalloc = n]
  <2>1. r.pool = s.pool /\ r.list = m
    BY <1>1, <1>6 DEF Listed
  <2>2. part \in Parts /\ part.elts = s.ptr /\ part.nelts = 0
    BY <1>3 DEF NewPart, Parts, Pointers, Null
  <2> HIDE DEF part
  <2>3. <<part>> \in Seq(Parts) /\ Len(<<part>>) = 1 /\ <<part>>[1] = part
    BY <2>2
  <2>4. /\ m \in Lists /\ m.hdr = hdr /\ m.parts = <<part>> /\ m.size = size /\ m.nalloc = n
        /\ m.given = <<>>
    BY <2>3, NoListFields DEF Lists, Pointers
  <2> HIDE DEF m
  <2>5. Len(m.parts) = 1 /\ m.parts[1] = part
    BY <2>3, <2>4
  <2>6. \A ptr, k : ListUses(m, ptr, k) =>
          \/ ptr = s.ptr /\ k = n * size
          \/ hdr # Null /\ ptr = hdr /\ k = ListHdr
    BY <2>2, <2>4, <2>5 DEF ListUses
  <2>7. Holds(s.pool, s.ptr, n * size) /\ \A k : ~ArrayUses(a, s.ptr, k)
    <3>1. Fresh(P, s.pool, s.ptr, n * size)
      BY <1>3, <1>6
    <3> QED  BY <3>1, FreshNotArray DEF Fresh
  <2>8. ListHdr \in Nat \ {0} /\ (hdr # Null => Holds(s.pool, hdr, ListHdr))
    BY <1>3 DEF ListHdr, Safe
  <2>9. MemInv(s.pool, a, m)
    BY <1>2, <1>4, <2>6, <2>7, <2>8, NewListHeld
  <2>10. Given(m, 1) = <<>>
    <3>1. m.parts[1].nelts = 0
      BY <2>2, <2>5
    <3>2. Given(m, 1) \in Seq(Slots) /\ Len(Given(m, 1)) = 0
      <4>1. 1 \in 1..Len(m.parts)
        BY <2>5
      <4> QED  BY <2>4, <3>1, <4>1, GivenSeq
    <3> QED  BY <3>2, EmptySeq
  <2>11. InOrder(m)
    <3> DEFINE f == [k \in 1..1 |-> <<>>]
    <3>1. f \in [1..Len(m.parts) -> Seq(Slots)]
      BY <2>5, EmptySeq
    <3>2. Runs(m, f)
      <4>1. f = [k \in 1..1 |-> IF k = 1 THEN Given(m, 1) ELSE f[k - 1] \o Given(m, k)]
        BY <2>10
      <4> QED  BY <2>5, <4>1 DEF Runs
    <3>3. m.given = f[Len(m.parts)]
      BY <2>4, <2>5
    <3> HIDE DEF f
    <3> QED  BY <3>1, <3>2, <3>3 DEF InOrder
  <2>12. ListShape(m)
    BY <2>2, <2>4, <2>5, <2>11 DEF ListShape, Chained
  <2> QED  BY <2>1, <2>9, <2>12
<1> QED  BY <1>5, <1>6

LEMMA ListCreateSafe ==
  ASSUME NEW P, NEW a, MemInv(P, a, NoList),
         NEW n \in Nat \ {0}, NEW size \in Nat \ {0}, NEW r \in ListCreate(P, n, size)
  PROVE  MemInv(r.pool, a, r.list) /\ ListShape(r.list)
<1>1. PICK s \in Palloc(P, ListHdr) :
        r \in IF s.ptr = Null THEN {Listed(s.pool, NoList)} ELSE ListInit(s.pool, s.ptr, n, size)
  BY Zenon DEF ListCreate
<1>2. ListHdr \in Nat \ {0}
  BY DEF ListHdr
<1>3. /\ Sound(s.pool) /\ Safe(P, s.pool) /\ s.ptr \in Pointers
      /\ s.ptr # Null => Fresh(P, s.pool, s.ptr, ListHdr)
  BY <1>2, PallocSafe DEF MemInv
<1>4. MemInv(s.pool, a, NoList)
  BY <1>3, MemSafe
<1>5. CASE s.ptr = Null
  BY <1>1, <1>4, <1>5, NoListFields DEF Listed
<1>6. CASE s.ptr # Null
  <2>1. r \in ListInit(s.pool, s.ptr, n, size)
    BY <1>1, <1>6
  <2>2. Holds(s.pool, s.ptr, ListHdr) /\ \A k : ~ArrayUses(a, s.ptr, k)
    <3>1. Fresh(P, s.pool, s.ptr, ListHdr)
      BY <1>3, <1>6
    <3> QED  BY <3>1, FreshNotArray DEF Fresh
  <2> QED  BY <1>3, <1>4, <2>1, <2>2, ListInitSafe
<1> QED  BY <1>5, <1>6

\* The list with an empty part behind the others.
LEMMA PartAppended ==
  ASSUME NEW l, Chained(l), NEW part \in Parts, part.nelts = 0
  PROVE  LET m == [l EXCEPT !.parts = Append(l.parts, part)]
         IN  /\ Chained(m)
             /\ m.hdr = l.hdr /\ m.size = l.size /\ m.nalloc = l.nalloc
             /\ Len(m.parts) = Len(l.parts) + 1
             /\ \A k \in 1..Len(l.parts) : m.parts[k] = l.parts[k]
             /\ m.parts[Len(l.parts) + 1] = part
<1> DEFINE n  == Len(l.parts)
           ps == Append(l.parts, part)
           m  == [l EXCEPT !.parts = ps]
<1>1. /\ l \in Lists /\ n \in Nat \ {0} /\ l.parts \in Seq(Parts) /\ l.nalloc \in Nat
      /\ l.size # 0 /\ l.nalloc # 0
      /\ \A k \in 1..n : l.parts[k].nelts <= l.nalloc
  BY ListFields DEF Chained
<1>2. /\ ps \in Seq(Parts) /\ Len(ps) = n + 1
      /\ \A k \in 1..n : ps[k] = l.parts[k]
      /\ ps[n + 1] = part
  BY <1>1, AppendProperties
<1> HIDE DEF ps, n
<1>3. /\ m \in Lists /\ m.parts = ps /\ m.given = l.given
      /\ m.hdr = l.hdr /\ m.size = l.size /\ m.nalloc = l.nalloc
  BY <1>1, <1>2 DEF Lists
<1> HIDE DEF m
<1>4. \A k \in 1..(n + 1) : m.parts[k].nelts <= l.nalloc
  <2> SUFFICES ASSUME NEW k \in 1..(n + 1) PROVE m.parts[k].nelts <= l.nalloc
    OBVIOUS
  <2>1. CASE k = n + 1
    BY <1>1, <1>2, <1>3, <2>1
  <2>2. CASE k # n + 1
    <3>1. k \in 1..n
      BY <1>1, <2>2
    <3> QED  BY <1>1, <1>2, <1>3, <3>1
  <2> QED  BY <2>1, <2>2
<1>5. InOrder(m)
  <2>1. PICK f \in [1..n -> Seq(Slots)] : Runs(l, f) /\ l.given = f[n]
    BY DEF Chained, InOrder, n
  <2> DEFINE h == [k \in 1..(n + 1) |-> IF k = n + 1 THEN f[n] ELSE f[k]]
  <2>2. n \in 1..n /\ n \in 1..(n + 1) /\ n # n + 1 /\ n + 1 \in 1..(n + 1) /\ n + 1 # 1
    BY <1>1
  <2>3. \A k \in 1..(n + 1) : k # n + 1 => k \in 1..n
    BY <1>1
  <2>4. h \in [1..(n + 1) -> Seq(Slots)]
    BY <2>1, <2>2, <2>3
  <2>5. \A k \in 1..n : Given(m, k) = Given(l, k)
    BY <1>2, <1>3 DEF Given
  <2>6. Given(m, n + 1) = <<>>
    <3>1. n + 1 \in 1..Len(m.parts) /\ m.parts[n + 1].nelts = 0
      BY <1>2, <1>3, <2>2
    <3>2. Given(m, n + 1) \in Seq(Slots) /\ Len(Given(m, n + 1)) = 0
      BY <1>3, <3>1, GivenSeq
    <3> QED  BY <3>2, EmptySeq
  <2>7. \A k \in 1..(n + 1) : h[k] = IF k = 1 THEN Given(m, 1) ELSE h[k - 1] \o Given(m, k)
    <3> SUFFICES ASSUME NEW k \in 1..(n + 1)
                 PROVE  h[k] = IF k = 1 THEN Given(m, 1) ELSE h[k - 1] \o Given(m, k)
      OBVIOUS
    <3>1. CASE k = n + 1
      <4>1. h[k] = f[n] /\ h[k - 1] = f[n] /\ k # 1
        BY <1>1, <2>2, <3>1
      <4>2. f[n] \in Seq(Slots) /\ f[n] \o <<>> = f[n]
        BY <2>1, <2>2
      <4> QED  BY <2>6, <3>1, <4>1, <4>2
    <3>2. CASE k # n + 1
      <4>1. k \in 1..n /\ (k # 1 => k - 1 \in 1..n /\ k - 1 \in 1..(n + 1) /\ k - 1 # n + 1)
        BY <1>1, <3>2
      <4>2. h[k] = f[k] /\ (k # 1 => h[k - 1] = f[k - 1])
        BY <3>2, <4>1
      <4>3. f[k] = IF k = 1 THEN Given(l, 1) ELSE f[k - 1] \o Given(l, k)
        BY <2>1, <4>1 DEF Runs, n
      <4> HIDE DEF h
      <4>4. Given(m, k) = Given(l, k)
        BY <2>5, <4>1
      <4>5. CASE k = 1
        BY <4>2, <4>3, <4>4, <4>5
      <4>6. CASE k # 1
        BY <4>2, <4>3, <4>4, <4>6
      <4> QED  BY <4>5, <4>6
    <3> QED  BY <3>1, <3>2
  <2>8. h = [k \in 1..(n + 1) |-> IF k = 1 THEN Given(m, 1) ELSE h[k - 1] \o Given(m, k)]
    <3>1. h = [k \in 1..(n + 1) |-> h[k]]
      BY <2>4
    <3> HIDE DEF h
    <3> QED  BY <2>7, <3>1
  <2>9. h[n + 1] = l.given
    BY <2>1, <2>2
  <2> HIDE DEF h
  <2>10. Runs(m, h) /\ m.given = h[Len(m.parts)] /\ h \in [1..Len(m.parts) -> Seq(Slots)]
    BY <1>2, <1>3, <2>4, <2>8, <2>9 DEF Runs
  <2> QED  BY <2>10 DEF InOrder
<1>6. Chained(m)
  BY <1>1, <1>2, <1>3, <1>4, <1>5 DEF Chained
<1> QED  BY <1>2, <1>3, <1>6 DEF m, n, ps

LEMMA AddPartSafe ==
  ASSUME NEW P, NEW a, NEW l, MemInv(P, a, l), l # NoList, ListShape(l), NEW r \in AddPart(P, l)
  PROVE  MemInv(r.pool, a, r.list) /\ ListShape(r.list)
<1>1. PICK s \in Palloc(P, PartHdr) :
        r \in IF s.ptr = Null THEN {Listed(s.pool, l)}
              ELSE {IF e.ptr = Null THEN Listed(e.pool, l)
                    ELSE PushLast(e.pool, [l EXCEPT !.parts = Append(l.parts, NewPart(s.ptr, e.ptr))]) :
                      e \in Palloc(s.pool, l.nalloc * l.size)}
  BY Zenon DEF AddPart
<1>2. /\ Chained(l) /\ l.nalloc \in Nat \ {0} /\ l.size \in Nat \ {0} /\ Len(l.parts) \in Nat \ {0}
      /\ \A k \in 1..Len(l.parts) : k = 1 \/ l.parts[k].nelts # 0
  BY ListFields DEF ListShape, Chained
<1>3. PartHdr \in Nat \ {0}
  BY DEF PartHdr
<1>4. /\ Sound(s.pool) /\ Safe(P, s.pool) /\ s.ptr \in Pointers
      /\ s.ptr # Null => Fresh(P, s.pool, s.ptr, PartHdr)
  BY <1>3, PallocSafe DEF MemInv
<1>5. MemInv(s.pool, a, l)
  BY <1>4, MemSafe
<1>6. CASE s.ptr = Null
  BY <1>1, <1>5, <1>6 DEF Listed
<1>7. CASE s.ptr # Null
  <2>1. PICK e \in Palloc(s.pool, l.nalloc * l.size) :
          r = IF e.ptr = Null THEN Listed(e.pool, l)
              ELSE PushLast(e.pool, [l EXCEPT !.parts = Append(l.parts, NewPart(s.ptr, e.ptr))])
    BY <1>1, <1>7, Zenon
  <2>2. l.nalloc * l.size \in Nat \ {0}
    BY <1>2, ProductPositive
  <2>3. /\ Sound(e.pool) /\ Safe(s.pool, e.pool) /\ e.ptr \in Pointers
        /\ e.ptr # Null => Fresh(s.pool, e.pool, e.ptr, l.nalloc * l.size)
    BY <1>4, <2>2, PallocSafe
  <2>4. MemInv(e.pool, a, l)
    BY <1>5, <2>3, MemSafe
  <2>5. CASE e.ptr = Null
    BY <2>1, <2>4, <2>5 DEF Listed
  <2>6. CASE e.ptr # Null
    <3> DEFINE n    == Len(l.parts)
               part == NewPart(s.ptr, e.ptr)
               m    == [l EXCEPT !.parts = Append(l.parts, part)]
    <3>1. r = PushLast(e.pool, m)
      BY <2>1, <2>6
    <3>2. part \in Parts /\ part.node = s.ptr /\ part.elts = e.ptr /\ part.nelts = 0
      BY <1>4, <2>3 DEF NewPart, Parts, Pointers
    <3> HIDE DEF part
    <3>3. /\ Chained(m)
          /\ m.hdr = l.hdr /\ m.size = l.size /\ m.nalloc = l.nalloc
          /\ Len(m.parts) = n + 1
          /\ \A k \in 1..n : m.parts[k] = l.parts[k]
          /\ m.parts[n + 1] = part
      BY <1>2, <3>2, PartAppended
    <3> HIDE DEF m
    <3>4. /\ Holds(e.pool, s.ptr, PartHdr) /\ \A k : ~ArrayUses(a, s.ptr, k)
          /\ Holds(e.pool, e.ptr, l.nalloc * l.size) /\ \A k : ~ArrayUses(a, e.ptr, k)
      <4>1. Fresh(P, s.pool, s.ptr, PartHdr) /\ Fresh(s.pool, e.pool, e.ptr, l.nalloc * l.size)
        BY <1>4, <1>7, <2>3, <2>6
      <4>2. Holds(e.pool, s.ptr, PartHdr)
        BY <1>3, <1>4, <2>3, <4>1 DEF Fresh, Safe
      <4> QED  BY <1>5, <4>1, <4>2, FreshNotArray DEF Fresh
    <3>5. \A ptr, k : ListUses(m, ptr, k) =>
            \/ ListUses(l, ptr, k)
            \/ ptr = e.ptr /\ k = l.nalloc * l.size
            \/ ptr = s.ptr /\ k = PartHdr
      <4> SUFFICES ASSUME NEW ptr, NEW k, ListUses(m, ptr, k)
                   PROVE  \/ ListUses(l, ptr, k)
                          \/ ptr = e.ptr /\ k = l.nalloc * l.size
                          \/ ptr = s.ptr /\ k = PartHdr
        OBVIOUS
      <4>1. \A i \in 1..(n + 1) : i \in 1..n \/ i = n + 1
        BY <1>2
      <4>2. \A i \in 2..(n + 1) : i \in 2..n \/ i = n + 1
        BY <1>2
      <4>3. \A i \in 2..n : i \in 1..n
        BY <1>2
      <4>4. ASSUME NEW i \in 1..Len(m.parts), ptr = m.parts[i].elts, k = m.nalloc * m.size
            PROVE  ListUses(l, ptr, k) \/ (ptr = e.ptr /\ k = l.nalloc * l.size)
        BY <3>2, <3>3, <4>1, <4>4 DEF ListUses
      <4>5. ASSUME NEW i \in 2..Len(m.parts), ptr = m.parts[i].node, k = PartHdr
            PROVE  ListUses(l, ptr, k) \/ (ptr = s.ptr /\ k = PartHdr)
        BY <3>2, <3>3, <4>2, <4>3, <4>5 DEF ListUses
      <4>6. m.hdr # Null /\ ptr = m.hdr /\ k = ListHdr => ListUses(l, ptr, k)
        BY <3>3 DEF ListUses
      <4> QED  BY <4>4, <4>5, <4>6 DEF ListUses
    <3>6. MemInv(e.pool, a, m)
      BY <1>3, <2>2, <2>4, <3>4, <3>5, NewListHeld
    <3>7. \A k \in 1..Len(m.parts) : k = 1 \/ k = Len(m.parts) \/ m.parts[k].nelts # 0
      <4>1. \A k \in 1..(n + 1) : k = n + 1 \/ k \in 1..n
        BY <1>2
      <4> QED  BY <1>2, <3>3, <4>1
    <3>8. m.parts[Len(m.parts)].nelts # m.nalloc
      BY <1>2, <3>2, <3>3
    <3> QED  BY <3>1, <3>3, <3>6, <3>7, <3>8, PushLastSafe
  <2> QED  BY <2>5, <2>6
<1> QED  BY <1>6, <1>7

LEMMA ListPushSafe ==
  ASSUME NEW P, NEW a, NEW l, MemInv(P, a, l), l # NoList, ListShape(l), NEW r \in ListPush(P, l)
  PROVE  MemInv(r.pool, a, r.list) /\ ListShape(r.list)
<1>1. CASE l.parts[Len(l.parts)].nelts = l.nalloc
  BY <1>1, AddPartSafe DEF ListPush
<1>2. CASE l.parts[Len(l.parts)].nelts # l.nalloc
  <2>1. r = PushLast(P, l)
    BY <1>2 DEF ListPush
  <2>2. Chained(l) /\ \A k \in 1..Len(l.parts) : k = 1 \/ k = Len(l.parts) \/ l.parts[k].nelts # 0
    BY DEF ListShape
  <2> QED  BY <1>2, <2>1, <2>2, PushLastSafe
<1> QED  BY <1>1, <1>2

-----------------------------------------------------------------------------
(* The invariant of the whole: while the pool is live every piece of the
   containers is held, and the containers are forgotten with the pool.      *)
CInv ==
  /\ Inv /\ FreesInv
  /\ life = "live" => MemInv(pool, array, list)
  /\ life # "live" => array = NoArray /\ list = NoList
  /\ ArrayShape(array) /\ ListShape(list)

LEMMA EmptyMem ==
  ASSUME NEW P, Sound(P)
  PROVE  MemInv(P, NoArray, NoList)
BY NoListFields, NoArrayHeld DEF ListHeld

LEMMA CInvInit == CInit => CInv
<1>1. <<>> \in Seq(Nat)
  BY EmptySeq
<1>2. ArrayShape(NoArray) /\ ListShape(NoList)
  BY NoArrayFields, NoListFields
<1> QED  BY <1>1, <1>2, InvInit DEF CInit, Init, CInv, FreesInv

\* A call on the pool alone.
LEMMA OtherStep ==
  ASSUME CInv, Other, UNCHANGED <<array, list>>
  PROVE  CInv'
<1>1. PICK size \in Sizes, align \in BOOLEAN : Becomes(Request(pool, size, align))
  BY DEF Other, ngx_palloc, ngx_pnalloc, Palloc, Pnalloc
<1>2. PICK r \in Request(pool, size, align) :
        life = "live" /\ life' = "live" /\ pool' = r.pool /\ frees' = frees
  BY <1>1 DEF Becomes
<1>3. size \in Nat
  BY PoolAssumption DEF PoolAssumption
<1>4. MemInv(pool, array, list)
  BY <1>2 DEF CInv
<1>5. Sound(r.pool) /\ Safe(pool, r.pool)
  BY <1>3, <1>4, RequestSafe DEF MemInv
<1>6. MemInv(pool', array', list')
  BY <1>2, <1>4, <1>5, MemSafe
<1> QED  BY <1>2, <1>6 DEF CInv, Inv, FreesInv, MemInv, Sound

\* A call on the array, and one on the list.
LEMMA ArrayStep ==
  ASSUME CInv, NEW outcomes, ArrayBecomes(outcomes), UNCHANGED list,
         \A r \in outcomes : MemInv(r.pool, r.array, list) /\ ArrayShape(r.array)
  PROVE  CInv'
<1>1. PICK r \in outcomes : pool' = r.pool /\ array' = r.array
  BY DEF ArrayBecomes
<1>2. life = "live" /\ life' = "live" /\ frees' = frees
  BY DEF ArrayBecomes
<1>3. MemInv(pool', array', list') /\ ArrayShape(array')
  BY <1>1
<1> QED  BY <1>2, <1>3 DEF CInv, Inv, FreesInv, MemInv, Sound

LEMMA ListStep ==
  ASSUME CInv, NEW outcomes, ListBecomes(outcomes), UNCHANGED array,
         \A r \in outcomes : MemInv(r.pool, array, r.list) /\ ListShape(r.list)
  PROVE  CInv'
<1>1. PICK r \in outcomes : pool' = r.pool /\ list' = r.list
  BY DEF ListBecomes
<1>2. life = "live" /\ life' = "live" /\ frees' = frees
  BY DEF ListBecomes
<1>3. MemInv(pool', array', list') /\ ListShape(list')
  BY <1>1
<1> QED  BY <1>2, <1>3 DEF CInv, Inv, FreesInv, MemInv, Sound

LEMMA CInvStep == WholeWords /\ CInv /\ [CNext]_cvars => CInv'
<1> SUFFICES ASSUME WholeWords, CInv, [CNext]_cvars PROVE CInv'
  OBVIOUS
<1>0. life = "live" => MemInv(pool, array, list)
  BY DEF CInv
<1>1. CASE ngx_create_pool /\ UNCHANGED <<array, list>>
  <2>1. Inv' /\ FreesInv'
    BY <1>1, InvStep, FreesStep DEF CInv, Next
  <2>2. life = "none" /\ array = NoArray /\ list = NoList
    BY <1>1 DEF ngx_create_pool, CInv
  <2>3. life' = "live" => \E size \in PoolSizes : pool' = Create(size)
    BY <1>1 DEF ngx_create_pool
  <2>4. \A size \in PoolSizes : Sound(Create(size))
    BY CreateKeeps, CreateKept DEF Sound
  <2>5. life' = "live" => MemInv(pool', array', list')
    BY <1>1, <2>2, <2>3, <2>4, EmptyMem
  <2> QED  BY <1>1, <2>1, <2>2, <2>5 DEF CInv
<1>2. CASE Other /\ UNCHANGED <<array, list>>
  BY <1>2, OtherStep
<1>3. CASE ngx_reset_pool /\ Forget
  <2>1. Inv' /\ FreesInv'
    BY <1>3, InvStep, FreesStep DEF CInv, Next
  <2>2. life = "live" /\ pool' = Reset(pool)
    BY <1>3 DEF ngx_reset_pool, Becomes, Got
  <2>3. Sound(Reset(pool))
    BY <1>0, <2>2, ResetKeeps, ResetKept DEF MemInv, Sound
  <2>4. MemInv(pool', array', list')
    BY <1>3, <2>2, <2>3, EmptyMem DEF Forget
  <2> QED  BY <1>3, <2>1, <2>4, NoArrayFields, NoListFields DEF CInv, Forget
<1>4. CASE ngx_destroy_pool /\ Forget
  <2>1. Inv' /\ FreesInv'
    BY <1>4, InvStep, FreesStep DEF CInv, Next
  <2>2. life' = "destroyed"
    BY <1>4 DEF ngx_destroy_pool
  <2> QED  BY <1>4, <2>1, <2>2, NoArrayFields, NoListFields DEF CInv, Forget
<1>5. CASE (ngx_array_create \/ ngx_array_init \/ ngx_array_push \/ ngx_array_push_n \/ ngx_array_destroy)
           /\ UNCHANGED list
  <2>0. life = "live"
    BY <1>5 DEF ngx_array_create, ngx_array_init, ngx_array_push, ngx_array_push_n,
                ngx_array_destroy, ArrayBecomes
  <2>1. MemInv(pool, array, list) /\ Sound(pool) /\ ListHeld(pool, list) /\ ArrayShape(array)
    BY <1>0, <2>0 DEF MemInv, CInv
  <2>2. CASE ngx_array_create
    <3>1. PICK n \in ArrayCounts, size \in ElementSizes : ArrayBecomes(ArrayCreate(pool, n, size))
      BY <2>2 DEF ngx_array_create
    <3>2. n \in Nat \ {0} /\ size \in Nat \ {0}
      BY ArrayAssumption DEF ArrayAssumption
    <3>3. \A r \in ArrayCreate(pool, n, size) : MemInv(r.pool, r.array, list) /\ ArrayShape(r.array)
      BY <2>1, <3>2, ArrayCreateSafe
    <3> QED  BY <1>5, <3>1, <3>3, ArrayStep
  <2>3. CASE ngx_array_init
    <3>1. PICK n \in ArrayCounts, size \in ElementSizes : ArrayBecomes(ArrayInit(pool, Null, n, size))
      BY <2>3 DEF ngx_array_init
    <3>2. n \in Nat \ {0} /\ size \in Nat \ {0} /\ Null \in Pointers
      BY ArrayAssumption DEF ArrayAssumption, Null, Pointers
    <3>3. \A r \in ArrayInit(pool, Null, n, size) : MemInv(r.pool, r.array, list) /\ ArrayShape(r.array)
      BY <2>1, <3>2, ArrayInitSafe
    <3> QED  BY <1>5, <3>1, <3>3, ArrayStep
  <2>4. CASE ngx_array_push
    <3>1. array # NoArray /\ ArrayBecomes(Push(pool, array))
      BY <2>4 DEF ngx_array_push
    <3>2. \A r \in Push(pool, array) : MemInv(r.pool, r.array, list) /\ ArrayShape(r.array)
      BY <2>1, <3>1, PushSafe
    <3> QED  BY <1>5, <3>1, <3>2, ArrayStep
  <2>5. CASE ngx_array_push_n
    <3>1. PICK n \in PushCounts : array # NoArray /\ ArrayBecomes(PushN(pool, array, n))
      BY <2>5 DEF ngx_array_push_n
    <3>2. n \in Nat
      BY ArrayAssumption DEF ArrayAssumption
    <3>3. \A r \in PushN(pool, array, n) : MemInv(r.pool, r.array, list) /\ ArrayShape(r.array)
      BY <2>1, <3>1, <3>2, PushNSafe
    <3> QED  BY <1>5, <3>1, <3>3, ArrayStep
  <2>6. CASE ngx_array_destroy
    <3> DEFINE Q == FreeHeader(FreeElements(pool, array), array)
    <3>1. array # NoArray /\ ArrayBecomes({Made(Q, NoArray, TRUE)})
      BY <2>6 DEF ngx_array_destroy
    <3>2. MemInv(Q, NoArray, list)
      BY <2>1, <3>1, DestroySafe
    <3> HIDE DEF Q
    <3>3. \A r \in {Made(Q, NoArray, TRUE)} : MemInv(r.pool, r.array, list) /\ ArrayShape(r.array)
      BY <3>2, NoArrayFields DEF Made
    <3> QED  BY <1>5, <3>1, <3>3, ArrayStep
  <2> QED  BY <1>5, <2>2, <2>3, <2>4, <2>5, <2>6
<1>6. CASE (ngx_list_create \/ ngx_list_init \/ ngx_list_push) /\ UNCHANGED array
  <2>0. life = "live"
    BY <1>6 DEF ngx_list_create, ngx_list_init, ngx_list_push, ListBecomes
  <2>1. MemInv(pool, array, list) /\ ListShape(list)
    BY <1>0, <2>0 DEF CInv
  <2>2. CASE ngx_list_create
    <3>1. PICK n \in ListCounts, size \in ListSizes :
            list = NoList /\ ListBecomes(ListCreate(pool, n, size))
      BY <2>2 DEF ngx_list_create
    <3>2. n \in Nat \ {0} /\ size \in Nat \ {0}
      BY ListAssumption DEF ListAssumption
    <3>3. \A r \in ListCreate(pool, n, size) : MemInv(r.pool, array, r.list) /\ ListShape(r.list)
      BY <2>1, <3>1, <3>2, ListCreateSafe
    <3> QED  BY <1>6, <3>1, <3>3, ListStep
  <2>3. CASE ngx_list_init
    <3>1. PICK n \in ListCounts, size \in ListSizes :
            list = NoList /\ ListBecomes(ListInit(pool, Null, n, size))
      BY <2>3 DEF ngx_list_init
    <3>2. n \in Nat \ {0} /\ size \in Nat \ {0} /\ Null \in Pointers
      BY ListAssumption DEF ListAssumption, Null, Pointers
    <3>3. \A r \in ListInit(pool, Null, n, size) : MemInv(r.pool, array, r.list) /\ ListShape(r.list)
      BY <2>1, <3>1, <3>2, ListInitSafe
    <3> QED  BY <1>6, <3>1, <3>3, ListStep
  <2>4. CASE ngx_list_push
    <3>1. list # NoList /\ ListBecomes(ListPush(pool, list))
      BY <2>4 DEF ngx_list_push
    <3>2. \A r \in ListPush(pool, list) : MemInv(r.pool, array, r.list) /\ ListShape(r.list)
      BY <2>1, <3>1, ListPushSafe
    <3> QED  BY <1>6, <3>1, <3>2, ListStep
  <2> QED  BY <1>6, <2>2, <2>3, <2>4
<1>7. CASE UNCHANGED cvars
  <2>1. UNCHANGED vars /\ UNCHANGED <<array, list>>
    BY <1>7 DEF cvars, vars
  <2>2. Inv' /\ FreesInv'
    BY <2>1, InvStep, FreesStep DEF CInv
  <2> QED  BY <2>1, <2>2 DEF CInv, vars
<1> QED  BY <1>1, <1>2, <1>3, <1>4, <1>5, <1>6, <1>7 DEF CNext

LEMMA CInvAlways ==
  ASSUME WholeWords
  PROVE  CSpec => []CInv
BY CInvInit, CInvStep, PTL DEF CSpec

-----------------------------------------------------------------------------
(* The array and the list keep their types through every function, whoever
   else uses the pool and however often the heap fails.                     *)
THEOREM ContainersTypeCorrect ==
  ASSUME WholeWords
  PROVE  CSpec => []CTypeOK
<1>1. ArrayShape(array) => array \in Arrays
  BY NoArrayFields DEF ArrayShape
<1>2. ListShape(list) => list \in Lists
  BY NoListFields DEF ListShape, Chained
<1>3. CInv => CTypeOK
  BY <1>1, <1>2 DEF CInv, CTypeOK, TypeOK, Inv, PoolInv, FreesInv
<1> QED  BY CInvAlways, <1>3, PTL

(* What the pool promises its users survives an array that moves p->d.last
   behind its back, when ngx_array_push() grows in place and when
   ngx_array_destroy() gives back: small requests stay apart.               *)
THEOREM ContainersStayApart ==
  ASSUME WholeWords
  PROVE  CSpec => []SmallAllocationsApart
<1>1. pool.allocs = {} => SmallAllocationsApart
  BY DEF SmallAllocationsApart, InBounds, Apart
<1>2. CInv => SmallAllocationsApart
  BY <1>1, InvImpliesApart DEF CInv, Inv, SmallAllocationsApart
<1> QED  BY CInvAlways, <1>2, PTL

\* A piece of the array or the list, and who uses it.
LEMMA ArrayPieceUsed ==
  ASSUME NEW s \in ArrayPieces
  PROVE  \E ptr, n : ArrayUses(array, ptr, n) /\ s = Piece(ptr, n)
<1>1. array # NoArray
  BY DEF ArrayPieces
<1>2. \/ s = Piece(array.elts, Bytes(array))
      \/ array.hdr # Null /\ s = Piece(array.hdr, ArrayHdr)
  BY <1>1 DEF ArrayPieces
<1> QED  BY <1>1, <1>2, Zenon DEF ArrayUses

LEMMA ListPieceUsed ==
  ASSUME NEW s \in ListPieces
  PROVE  \E ptr, n : ListUses(list, ptr, n) /\ s = Piece(ptr, n)
<1>1. \/ \E k \in 1..Len(list.parts) : s = Piece(list.parts[k].elts, list.nalloc * list.size)
      \/ \E k \in 2..Len(list.parts) : s = Piece(list.parts[k].node, PartHdr)
      \/ list.hdr # Null /\ s = Piece(list.hdr, ListHdr)
  BY DEF ListPieces
<1> QED  BY <1>1, Zenon DEF ListUses

LEMMA PieceGranted ==
  ASSUME NEW ptr, NEW n, Holds(pool, ptr, n)
  PROVE  IF Piece(ptr, n).blk = 0 THEN Piece(ptr, n).from \in Owned(pool)
         ELSE Piece(ptr, n) \in pool.allocs
BY DEF Holds, Piece, Span

LEMMA SamePiece ==
  ASSUME NEW p \in Pointers, NEW m, NEW q \in Pointers, NEW n, Piece(p, m) = Piece(q, n)
  PROVE  p = q
<1>1. Piece(p, m).blk = p[1] /\ Piece(p, m).from = p[2]
  BY DEF Piece, Span
<1>2. Piece(q, n).blk = q[1] /\ Piece(q, n).from = q[2]
  BY DEF Piece, Span
<1>3. p = <<p[1], p[2]>> /\ q = <<q[1], q[2]>>
  BY DEF Pointers
<1> QED  BY <1>1, <1>2, <1>3

(* Every piece of memory an array or a list uses is still granted to it at
   its full length, and none is in use by both: no sequence of in-place
   growths, moves, half-made parts and ngx_array_destroy() calls takes a
   byte from the other or leaves one behind.                                *)
THEOREM ContainersKeepPieces ==
  ASSUME WholeWords
  PROVE  CSpec => []PiecesGranted
<1> DEFINE StillGranted(s) == IF s.blk = 0 THEN s.from \in Owned(pool) ELSE s \in pool.allocs
<1>1. ASSUME MemInv(pool, array, list) PROVE PiecesGranted
  <2>1. ASSUME NEW s \in ArrayPieces PROVE StillGranted(s)
    <3>1. PICK ptr, n : ArrayUses(array, ptr, n) /\ s = Piece(ptr, n)
      BY ArrayPieceUsed
    <3>2. Holds(pool, ptr, n)
      BY <1>1, <3>1 DEF MemInv, ArrayHeld, Mine
    <3> QED  BY <3>1, <3>2, PieceGranted
  <2>2. ASSUME NEW s \in ListPieces PROVE StillGranted(s)
    <3>1. PICK ptr, n : ListUses(list, ptr, n) /\ s = Piece(ptr, n)
      BY ListPieceUsed
    <3>2. Holds(pool, ptr, n)
      BY <1>1, <3>1 DEF MemInv, ListHeld
    <3> QED  BY <3>1, <3>2, PieceGranted
  <2>3. ASSUME NEW s \in ArrayPieces, s \in ListPieces PROVE FALSE
    <3>1. PICK p, m : ArrayUses(array, p, m) /\ s = Piece(p, m)
      BY ArrayPieceUsed
    <3>2. PICK q, n : ListUses(list, q, n) /\ s = Piece(q, n)
      BY <2>3, ListPieceUsed
    <3>3. p \in Pointers /\ ~ListUses(list, p, n)
      BY <1>1, <3>1, HeldPointer DEF MemInv, ArrayHeld, Mine
    <3>4. q \in Pointers
      BY <1>1, <3>2, HeldPointer DEF MemInv, ListHeld
    <3>5. p = q
      BY <3>1, <3>2, <3>3, <3>4, SamePiece
    <3> QED  BY <3>2, <3>3, <3>5
  <2> QED  BY <2>1, <2>2, <2>3 DEF PiecesGranted
<1>2. ASSUME array = NoArray, list = NoList PROVE PiecesGranted
  <2>1. ArrayPieces = {}
    BY <1>2 DEF ArrayPieces
  <2>2. ListPieces = {}
    <3>1. \A s : s \notin ListPieces
      BY <1>2, ListPieceUsed, NoListFields
    <3> QED  BY <3>1
  <2> QED  BY <2>1, <2>2 DEF PiecesGranted
<1>3. CInv => PiecesGranted
  BY <1>1, <1>2 DEF CInv
<1> QED  BY CInvAlways, <1>3, PTL

(* ngx_array_push() and ngx_array_push_n() only hand out slots inside the
   memory of the array, after any number of extensions and moves.           *)
THEOREM ArraySlotsStayInside ==
  ASSUME WholeWords
  PROVE  CSpec => []ArraySlotsInside
<1>1. ArrayShape(array) => ArraySlotsInside
  BY DEF ArrayShape, ArraySlotsInside, NoArray
<1>2. CInv => ArraySlotsInside
  BY <1>1 DEF CInv
<1> QED  BY CInvAlways, <1>2, PTL

\* The loop of ngx_list.h meets no empty part but the first.
LEMMA LoopInOrder ==
  ASSUME NEW l, Chained(l), \A k \in 1..Len(l.parts) : k = 1 \/ l.parts[k].nelts # 0
  PROVE  Iteration(l) = l.given
<1> DEFINE n == Len(l.parts)
           s == [k \in 1..n |-> Visits(l, k)]
<1>1. n \in Nat \ {0} /\ n \in 1..n
  BY ListFields DEF Chained
<1>2. PICK f \in [1..n -> Seq(Slots)] : Runs(l, f) /\ l.given = f[n]
  BY DEF Chained, InOrder
<1>3. \A k \in 1..n : Visits(l, k) = Given(l, k)
  <2> SUFFICES ASSUME NEW k \in 1..n PROVE Visits(l, k) = Given(l, k)
    OBVIOUS
  <2>1. ~(k > 1 /\ l.parts[k].nelts = 0)
    OBVIOUS
  <2> QED  BY <2>1 DEF Visits, Given
<1>4. Len(s) = n /\ \A k \in 1..n : s[k] = Given(l, k)
  BY <1>1, <1>3
<1> HIDE DEF s
<1>5. Joins(s, f)
  <2>1. f = [k \in 1..n |-> IF k = 1 THEN Given(l, 1) ELSE f[k - 1] \o Given(l, k)]
    BY <1>2 DEF Runs
  <2>2. \A k \in 1..n : (IF k = 1 THEN Given(l, 1) ELSE f[k - 1] \o Given(l, k))
                      = (IF k = 1 THEN s[k] ELSE f[k - 1] \o s[k])
    BY <1>4
  <2>3. f = [k \in 1..n |-> IF k = 1 THEN s[k] ELSE f[k - 1] \o s[k]]
    BY <2>1, <2>2
  <2> QED  BY <1>4, <2>3 DEF Joins
<1>6. FlattenSeq(s) = f[n]
  BY <1>1, <1>4, <1>5, FlattenJoins
<1> QED  BY <1>2, <1>6 DEF Iteration, s

(* The loop that ngx_list.h prescribes visits exactly the slots that
   ngx_list_push() handed out, in order and inside their parts, for lists of
   any length: a new part is linked only when its first slot is given.      *)
THEOREM LoopVisitsPushes ==
  ASSUME WholeWords
  PROVE  CSpec => []IterationVisitsPushes
<1>1. ASSUME list = NoList PROVE IterationVisitsPushes
  <2>1. Len(list.parts) = 0 /\ list.given = <<>>
    BY <1>1, NoListFields
  <2>2. [k \in 1..Len(list.parts) |-> Visits(list, k)] = <<>>
    BY <2>1
  <2>3. Iteration(list) = <<>>
    BY <2>2 DEF Iteration, FlattenSeq
  <2> QED  BY <2>1, <2>3 DEF IterationVisitsPushes
<1>2. ASSUME Chained(list), \A k \in 1..Len(list.parts) : k = 1 \/ list.parts[k].nelts # 0
      PROVE  IterationVisitsPushes
  BY <1>2, LoopInOrder DEF IterationVisitsPushes, Chained
<1>3. CInv => IterationVisitsPushes
  BY <1>1, <1>2 DEF CInv, ListShape
<1> QED  BY CInvAlways, <1>3, PTL

=============================================================================
