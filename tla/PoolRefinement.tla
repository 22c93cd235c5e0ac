--------------------------- MODULE PoolRefinement ---------------------------
(***************************************************************************)
(* Proofs about the large chunks of Pool and about the pool as a whole:    *)
(* every chunk has one owner, which lives in the pool, and what users see  *)
(* of the pool is an allocator.  The lemmas on small requests are those of *)
(* PoolProofs.                                                             *)
(***************************************************************************)
EXTENDS PoolProofs

AllocsOnce(P) ==
  \A i, j \in 1..Len(P.large) :
    i # j /\ P.large[i].alloc = P.large[j].alloc => P.large[i].alloc = Null
NodeSpan(P, i) == Span(P.large[i].node[1], P.large[i].node[2], LargeHdr)
NodesGranted(P) == \A i \in 1..Len(P.large) : NodeSpan(P, i) \in P.allocs

\* The chunks of the heap that a pool has are those its list holds.
LargeInv(P) == P.heap = Owned(P) /\ AllocsOnce(P) /\ NodesGranted(P)

\* Nobody loses memory.
Grows(P, Q) == P.allocs \subseteq Q.allocs /\ P.heap \subseteq Q.heap

LEMMA HeapPointers ==
  ASSUME NEW c \in Chunks
  PROVE  /\ Heap(c) # Null
         /\ \A d \in Chunks : Heap(c) = Heap(d) => c = d
BY PoolAssumption DEF PoolAssumption, Heap, Null

\* What does not touch the list of large chunks keeps it as it is.
LEMMA LargeSame ==
  ASSUME NEW P, LargeInv(P), NEW Q, Q.large = P.large, Q.heap = P.heap,
         P.allocs \subseteq Q.allocs
  PROVE  LargeInv(Q) /\ Grows(P, Q)
<1>1. Owned(Q) = Owned(P)
  BY DEF Owned
<1>2. AllocsOnce(Q)
  BY DEF LargeInv, AllocsOnce
<1>3. NodesGranted(Q)
  BY DEF LargeInv, NodesGranted, NodeSpan
<1> QED  BY <1>1, <1>2, <1>3 DEF LargeInv, Grows

-----------------------------------------------------------------------------
\* ngx_palloc_small only adds to what is granted, and grants what it returns.
LEMMA SmallGrants ==
  ASSUME NEW P, PoolInv(P), NEW size \in Nat, size <= P.size - DataHdr,
         NEW align \in BOOLEAN, NEW r \in PallocSmall(P, size, align)
  PROVE  /\ P.allocs \subseteq r.pool.allocs
         /\ r.ptr # Null => Span(r.ptr[1], r.ptr[2], size) \in r.pool.allocs
<1> DEFINE fits == {j \in P.current..Len(P.blocks) : Fits(P, j, size, align)}
<1>1. P \in Pools
  BY DEF PoolInv
<1>2. CASE fits # {}
  <2>1. PICK j \in fits : r = Take(P, j, size, align)
    BY <1>2 DEF PallocSmall, FirstOf
  <2> DEFINE m == Start(P, j, align)
             as == P.allocs \cup {Span(j, m, size)}
  <2>2. r.ptr = <<j, m>> /\ r.pool.allocs = as
    BY <1>1, <2>1 DEF Take, Got, Pools
  <2> QED  BY <2>2
<1>3. CASE fits = {}
  <2>1. r \in MemalignFails(P) \/ r \in NewBlock(P, size)
    BY <1>3 DEF PallocSmall, PallocBlock
  <2>2. CASE r \in MemalignFails(P)
    <3>1. PICK w \in BOOLEAN : r = Got([P EXCEPT !.faults = P.faults + 1, !.wild = w], Null)
      BY <2>2, Zenon DEF MemalignFails
    <3> QED  BY <1>1, <3>1 DEF Got, Pools
  <2>3. CASE r \in NewBlock(P, size)
    <3> DEFINE n  == Len(P.blocks) + 1
               m  == AlignUp(DataHdr)
               bs == Append(CountFailures(P), [last |-> m + size, failed |-> 0])
               as == P.allocs \cup {Span(n, m, size)}
    <3>1. PICK c \in Skip(P) :
            r = Got([P EXCEPT !.blocks = bs, !.current = c, !.allocs = as], <<n, m>>)
      BY <2>3 DEF NewBlock
    <3> HIDE DEF bs, as, n, m
    <3>2. r.pool.allocs = as /\ r.ptr = <<n, m>>
      BY <1>1, <3>1 DEF Got, Pools
    <3> QED  BY <3>2 DEF as
  <2> QED  BY <2>1, <2>2, <2>3
<1> QED  BY <1>2, <1>3

\* A failing call of malloc() or posix_memalign() changes nothing here.
LEMMA FailsLarge ==
  ASSUME NEW P \in Pools, LargeInv(P), NEW r \in MemalignFails(P) \cup MallocFails(P)
  PROVE  LargeInv(r.pool) /\ Grows(P, r.pool)
<1>1. CASE r \in MemalignFails(P)
  <2>1. PICK w \in BOOLEAN : r = Got([P EXCEPT !.faults = P.faults + 1, !.wild = w], Null)
    BY <1>1, Zenon DEF MemalignFails
  <2>2. r.pool.large = P.large /\ r.pool.heap = P.heap /\ r.pool.allocs = P.allocs
    BY <2>1 DEF Got, Pools
  <2> QED  BY <2>2, LargeSame
<1>2. CASE r \in MallocFails(P)
  <2>1. r = Got([P EXCEPT !.faults = P.faults + 1], Null)
    BY <1>2 DEF MallocFails
  <2>2. r.pool.large = P.large /\ r.pool.heap = P.heap /\ r.pool.allocs = P.allocs
    BY <2>1 DEF Got, Pools
  <2> QED  BY <2>2, LargeSame
<1> QED  BY <1>1, <1>2

-----------------------------------------------------------------------------
\* The list with a node in front, and with a node changed.
LEMMA Fronted ==
  ASSUME NEW n \in Nodes, NEW l \in Seq(Nodes)
  PROVE  /\ Len(<<n>> \o l) = Len(l) + 1 /\ Len(l) \in Nat
         /\ (<<n>> \o l)[1] = n
         /\ \A i \in 1..(Len(l) + 1) : i # 1 => i - 1 \in 1..Len(l) /\ (<<n>> \o l)[i] = l[i - 1]
BY SMT

\* A new node in front of the list takes over a chunk that had no owner.
LEMMA LargeAdded ==
  ASSUME NEW P \in Pools, LargeInv(P), NEW c \in Chunks, c \notin P.heap,
         NEW n \in Nodes, n.alloc = Heap(c),
         NEW Q, Q.large = <<n>> \o P.large, Q.heap = P.heap \cup {c},
         P.allocs \subseteq Q.allocs, Span(n.node[1], n.node[2], LargeHdr) \in Q.allocs
  PROVE  LargeInv(Q) /\ Grows(P, Q)
<1> DEFINE k == Len(P.large)
<1>1. /\ Len(Q.large) = k + 1 /\ k \in Nat /\ Q.large[1] = n
      /\ \A i \in 1..(k + 1) : i # 1 => i - 1 \in 1..k /\ Q.large[i] = P.large[i - 1]
  BY PoolLists, Fronted
<1>2. \A i \in 1..k : i + 1 \in 1..(k + 1) /\ Q.large[i + 1] = P.large[i]
  <2> TAKE i \in 1..k
  <2>1. i + 1 \in 1..(k + 1) /\ i + 1 # 1 /\ (i + 1) - 1 = i
    BY <1>1, SMT
  <2> QED  BY <1>1, <2>1
<1>3. \A i \in 1..k : P.large[i].alloc # Heap(c)
  BY DEF LargeInv, Owned
<1>4. 1 \in 1..(k + 1)
  BY <1>1, SMT
<1> HIDE DEF k
<1>5. Owned(Q) = P.heap \cup {c}
  <2>1. ASSUME NEW d \in Owned(Q) PROVE d \in P.heap \cup {c}
    <3>1. PICK i \in 1..(k + 1) : Q.large[i].alloc = Heap(d)
      BY <2>1, <1>1 DEF Owned
    <3>2. d \in Chunks
      BY <2>1 DEF Owned
    <3>3. CASE i = 1
      BY <3>1, <3>2, <3>3, <1>1, HeapPointers
    <3>4. CASE i # 1
      BY <3>1, <3>2, <3>4, <1>1 DEF LargeInv, Owned, k
    <3> QED  BY <3>3, <3>4
  <2>2. ASSUME NEW d \in P.heap PROVE d \in Owned(Q)
    <3>1. d \in Chunks /\ \E i \in 1..k : P.large[i].alloc = Heap(d)
      BY DEF LargeInv, Owned, k
    <3> QED  BY <3>1, <1>1, <1>2 DEF Owned
  <2>3. c \in Owned(Q)
    BY <1>1, <1>4 DEF Owned
  <2> QED  BY <2>1, <2>2, <2>3
<1>6. AllocsOnce(Q)
  <2> SUFFICES ASSUME NEW i \in 1..(k + 1), NEW j \in 1..(k + 1), i # j,
                      Q.large[i].alloc = Q.large[j].alloc
               PROVE  Q.large[i].alloc = Null
    BY <1>1 DEF AllocsOnce
  <2>1. CASE i = 1
    BY <2>1, <1>1, <1>3
  <2>2. CASE j = 1
    BY <2>2, <1>1, <1>3
  <2>3. CASE i # 1 /\ j # 1
    <3>1. i - 1 # j - 1
      BY <1>1, SMT
    <3> QED  BY <2>3, <3>1, <1>1 DEF LargeInv, AllocsOnce, k
  <2> QED  BY <2>1, <2>2, <2>3
<1>7. NodesGranted(Q)
  <2> SUFFICES ASSUME NEW i \in 1..(k + 1) PROVE NodeSpan(Q, i) \in Q.allocs
    BY <1>1 DEF NodesGranted
  <2>1. CASE i = 1
    BY <2>1, <1>1 DEF NodeSpan
  <2>2. CASE i # 1
    <3>1. NodeSpan(Q, i) = NodeSpan(P, i - 1) /\ i - 1 \in 1..k
      BY <2>2, <1>1 DEF NodeSpan
    <3> QED  BY <3>1 DEF LargeInv, NodesGranted, k
  <2> QED  BY <2>1, <2>2
<1> QED  BY <1>5, <1>6, <1>7 DEF LargeInv, Grows

\* A node of the list with its chunk changed.
LEMMA Changed ==
  ASSUME NEW P \in Pools, NEW i \in 1..Len(P.large), NEW a \in Pointers,
         NEW l, l = [P.large EXCEPT ![i] = [P.large[i] EXCEPT !.alloc = a]]
  PROVE  /\ Len(l) = Len(P.large) /\ l[i].alloc = a
         /\ \A k \in 1..Len(P.large) : l[k].node = P.large[k].node
         /\ \A k \in 1..Len(P.large) : k # i => l[k] = P.large[k]
<1>1. P.large \in Seq(Nodes) /\ P.large[i] \in Nodes
  BY PoolLists, ElementOfSeq
<1> DEFINE n == [P.large[i] EXCEPT !.alloc = a]
<1>2. n.alloc = a /\ n.node = P.large[i].node
  BY <1>1 DEF Nodes
<1> HIDE DEF n
<1>3. l = [P.large EXCEPT ![i] = n]
  BY DEF n
<1>4. Len(l) = Len(P.large) /\ l[i] = n /\ \A k \in 1..Len(P.large) : k # i => l[k] = P.large[k]
  BY <1>1, <1>3
<1> QED  BY <1>2, <1>4

\* A node emptied by ngx_pfree gets a chunk that had no owner.
LEMMA LargeReused ==
  ASSUME NEW P \in Pools, LargeInv(P), NEW c \in Chunks, c \notin P.heap,
         NEW i \in 1..Len(P.large), P.large[i].alloc = Null,
         NEW Q, Q.large = [P.large EXCEPT ![i] = [P.large[i] EXCEPT !.alloc = Heap(c)]],
         Q.heap = P.heap \cup {c}, Q.allocs = P.allocs
  PROVE  LargeInv(Q) /\ Grows(P, Q)
<1> DEFINE k == Len(P.large)
<1>1. /\ Len(Q.large) = k /\ Q.large[i].alloc = Heap(c)
      /\ \A j \in 1..k : Q.large[j].node = P.large[j].node
      /\ \A j \in 1..k : j # i => Q.large[j] = P.large[j]
  BY Changed, HeapPointer DEF Pointers
<1>2. \A j \in 1..k : P.large[j].alloc # Heap(c)
  BY DEF LargeInv, Owned
<1> HIDE DEF k
<1>3. Owned(Q) = P.heap \cup {c}
  <2>1. ASSUME NEW d \in Owned(Q) PROVE d \in P.heap \cup {c}
    <3>1. d \in Chunks /\ \E j \in 1..k : Q.large[j].alloc = Heap(d)
      BY <2>1, <1>1 DEF Owned
    <3>2. PICK j \in 1..k : Q.large[j].alloc = Heap(d)
      BY <3>1
    <3>3. CASE j = i
      BY <3>1, <3>2, <3>3, <1>1, HeapPointers
    <3>4. CASE j # i
      BY <3>1, <3>2, <3>4, <1>1 DEF LargeInv, Owned, k
    <3> QED  BY <3>3, <3>4
  <2>2. ASSUME NEW d \in P.heap PROVE d \in Owned(Q)
    <3>1. d \in Chunks /\ \E j \in 1..k : P.large[j].alloc = Heap(d)
      BY DEF LargeInv, Owned, k
    <3>2. PICK j \in 1..k : P.large[j].alloc = Heap(d)
      BY <3>1
    <3>3. j # i
      BY <3>1, <3>2, HeapPointers
    <3> QED  BY <3>1, <3>2, <3>3, <1>1 DEF Owned
  <2>3. c \in Owned(Q)
    BY <1>1 DEF Owned, k
  <2> QED  BY <2>1, <2>2, <2>3
<1>4. AllocsOnce(Q)
  <2> SUFFICES ASSUME NEW a \in 1..k, NEW b \in 1..k, a # b,
                      Q.large[a].alloc = Q.large[b].alloc
               PROVE  Q.large[a].alloc = Null
    BY <1>1 DEF AllocsOnce
  <2>1. a # i /\ b # i
    BY <1>1, <1>2
  <2> QED  BY <2>1, <1>1 DEF LargeInv, AllocsOnce, k
<1>5. NodesGranted(Q)
  BY <1>1 DEF LargeInv, NodesGranted, NodeSpan, k
<1> QED  BY <1>3, <1>4, <1>5 DEF LargeInv, Grows

\* ngx_pfree: a node loses its chunk, which no other node holds.
LEMMA LargeFreed ==
  ASSUME NEW P \in Pools, LargeInv(P), NEW c \in Chunks,
         NEW i \in 1..Len(P.large), P.large[i].alloc = Heap(c),
         NEW Q, Q.large = [P.large EXCEPT ![i] = [P.large[i] EXCEPT !.alloc = Null]],
         Q.heap = P.heap \ {c}, Q.allocs = P.allocs
  PROVE  LargeInv(Q)
<1> DEFINE k == Len(P.large)
<1>1. /\ Len(Q.large) = k /\ Q.large[i].alloc = Null
      /\ \A j \in 1..k : Q.large[j].node = P.large[j].node
      /\ \A j \in 1..k : j # i => Q.large[j] = P.large[j]
  BY Changed, NullPointer
<1>2. \A j \in 1..k : j # i => P.large[j].alloc # Heap(c)
  BY HeapPointers DEF LargeInv, AllocsOnce
<1> HIDE DEF k
<1>3. Owned(Q) = P.heap \ {c}
  <2>1. ASSUME NEW d \in Owned(Q) PROVE d \in P.heap \ {c}
    <3>1. d \in Chunks /\ \E j \in 1..k : Q.large[j].alloc = Heap(d)
      BY <2>1, <1>1 DEF Owned
    <3>2. PICK j \in 1..k : Q.large[j].alloc = Heap(d)
      BY <3>1
    <3>3. j # i
      BY <3>1, <3>2, <1>1, HeapPointers
    <3>4. P.large[j].alloc = Heap(d)
      BY <3>2, <3>3, <1>1
    <3>5. d # c
      BY <3>3, <3>4, <1>2
    <3> QED  BY <3>1, <3>4, <3>5 DEF LargeInv, Owned, k
  <2>2. ASSUME NEW d \in P.heap \ {c} PROVE d \in Owned(Q)
    <3>1. d \in Chunks /\ \E j \in 1..k : P.large[j].alloc = Heap(d)
      BY DEF LargeInv, Owned, k
    <3>2. PICK j \in 1..k : P.large[j].alloc = Heap(d)
      BY <3>1
    <3>3. j # i
      BY <3>1, <3>2, HeapPointers
    <3> QED  BY <3>1, <3>2, <3>3, <1>1 DEF Owned
  <2> QED  BY <2>1, <2>2
<1>4. AllocsOnce(Q)
  <2> SUFFICES ASSUME NEW a \in 1..k, NEW b \in 1..k, a # b,
                      Q.large[a].alloc = Q.large[b].alloc
               PROVE  Q.large[a].alloc = Null
    BY <1>1 DEF AllocsOnce
  <2>1. CASE a = i \/ b = i
    BY <2>1, <1>1
  <2>2. CASE a # i /\ b # i
    BY <2>2, <1>1 DEF LargeInv, AllocsOnce, k
  <2> QED  BY <2>1, <2>2
<1>5. NodesGranted(Q)
  BY <1>1 DEF LargeInv, NodesGranted, NodeSpan, k
<1> QED  BY <1>3, <1>4, <1>5 DEF LargeInv

-----------------------------------------------------------------------------
(* The functions that allocate: the list stays in order and nobody loses
   memory, whether the call succeeds or fails halfway.                     *)
Kept(P, Q) == LargeInv(Q) /\ Grows(P, Q)

LEMMA AddNodeKept ==
  ASSUME NEW P, PoolInv(P), LargeInv(P), NEW c \in Chunks \ P.heap, NEW r \in AddNode(P, c)
  PROVE  Kept(P, r.pool)
<1> DEFINE H == [P EXCEPT !.heap = P.heap \cup {c}]
<1>0. P \in Pools /\ P.heap \cup {c} \in SUBSET Chunks /\ P.size >= PoolHdr
  BY PoolFields DEF PoolInv, Layout
<1>1. /\ PoolInv(H) /\ H.size = P.size /\ H.heap = P.heap \cup {c}
      /\ H.large = P.large /\ H.allocs = P.allocs
  BY <1>0, HeapKeeps DEF Pools
<1>2. PICK s \in PallocSmall(H, LargeHdr, TRUE) :
        r = IF s.ptr = Null THEN Got([s.pool EXCEPT !.heap = s.pool.heap \ {c}], Null)
            ELSE Got(Insert(s.pool, s.ptr, c), Heap(c))
  BY Zenon DEF AddNode
<1>3. LargeHdr \in Nat /\ LargeHdr <= H.size - DataHdr
  BY <1>0, <1>1, PoolFields DEF LargeHdr, DataHdr, PoolHdr
<1> HIDE DEF H
<1>4. /\ PoolInv(s.pool) /\ SameLists(H, s.pool)
      /\ s.ptr = Null \/ s.ptr \in (Nat \ {0}) \X Nat
      /\ H.allocs \subseteq s.pool.allocs
      /\ s.ptr # Null => Span(s.ptr[1], s.ptr[2], LargeHdr) \in s.pool.allocs
  BY <1>1, <1>3, PallocSmallKeeps, SmallGrants
<1>5. /\ s.pool \in Pools /\ s.pool.large = P.large /\ s.pool.heap = P.heap \cup {c}
      /\ P.allocs \subseteq s.pool.allocs
  BY <1>1, <1>4 DEF SameLists, PoolInv
<1>6. CASE s.ptr = Null
  <2> DEFINE h == s.pool.heap \ {c}
  <2>1. r.pool = [s.pool EXCEPT !.heap = h] /\ h = P.heap
    BY <1>2, <1>5, <1>6 DEF Got
  <2> HIDE DEF h
  <2>2. r.pool.large = P.large /\ r.pool.heap = P.heap /\ P.allocs \subseteq r.pool.allocs
    BY <1>5, <2>1 DEF Pools
  <2> QED  BY <2>2, LargeSame DEF Kept
<1>7. CASE s.ptr # Null
  <2> DEFINE n == [node |-> s.ptr, alloc |-> Heap(c)]
             l == <<n>> \o s.pool.large
  <2>1. n \in Nodes /\ n.node = s.ptr /\ n.alloc = Heap(c)
    BY <1>4, <1>7, HeapPointer DEF Nodes
  <2>2. r.pool = [s.pool EXCEPT !.large = l]
    BY <1>2, <1>7 DEF Got, Insert
  <2>3. l = <<n>> \o P.large
    BY <1>5
  <2> HIDE DEF l, n
  <2>4. r.pool.large = l /\ r.pool.heap = P.heap \cup {c} /\ r.pool.allocs = s.pool.allocs
    BY <1>5, <2>2 DEF Pools
  <2>5. Span(n.node[1], n.node[2], LargeHdr) \in r.pool.allocs /\ P.allocs \subseteq r.pool.allocs
    BY <1>4, <1>5, <1>7, <2>1, <2>4
  <2> QED  BY <1>0, <2>1, <2>3, <2>4, <2>5, LargeAdded DEF Kept
<1> QED  BY <1>6, <1>7

LEMMA PallocLargeKept ==
  ASSUME NEW P, PoolInv(P), LargeInv(P), NEW r \in PallocLarge(P)
  PROVE  Kept(P, r.pool)
<1>0. P \in Pools
  BY DEF PoolInv
<1>1. r \in MallocFails(P) \/ \E c \in Chunks \ P.heap : r \in PlaceLarge(P, c)
  BY DEF PallocLarge
<1>2. CASE r \in MallocFails(P)
  BY <1>0, <1>2, FailsLarge DEF Kept
<1>3. ASSUME NEW c \in Chunks \ P.heap, r \in PlaceLarge(P, c)
      PROVE  Kept(P, r.pool)
  <2>1. PICK k \in 1..5 :
          \/ \E i \in FirstOf(Empty(P, k)) :
               r = Got([P EXCEPT !.heap = P.heap \cup {c}, !.large[i].alloc = Heap(c)], Heap(c))
          \/ r \in AddNode(P, c)
    BY <1>3 DEF PlaceLarge
  <2>2. ASSUME NEW i \in FirstOf(Empty(P, k)),
               r = Got([P EXCEPT !.heap = P.heap \cup {c}, !.large[i].alloc = Heap(c)], Heap(c))
        PROVE  Kept(P, r.pool)
    <3> DEFINE l == [P.large EXCEPT ![i] = [P.large[i] EXCEPT !.alloc = Heap(c)]]
               h == P.heap \cup {c}
    <3>1. i \in 1..Len(P.large) /\ P.large[i].alloc = Null
      BY DEF FirstOf, Empty
    <3>2. r.pool = [P EXCEPT !.heap = h, !.large = l]
      BY <1>0, <2>2 DEF Got, Pools
    <3> HIDE DEF l, h
    <3>3. r.pool.large = l /\ r.pool.heap = h /\ r.pool.allocs = P.allocs
      BY <1>0, <3>2 DEF Pools
    <3> QED  BY <1>0, <3>1, <3>3, LargeReused DEF Kept, l, h
  <2> QED  BY <2>1, <2>2, AddNodeKept
<1> QED  BY <1>1, <1>2, <1>3

LEMMA RequestKept ==
  ASSUME NEW P, PoolInv(P), LargeInv(P), NEW size \in Nat, NEW align \in BOOLEAN,
         NEW r \in Request(P, size, align)
  PROVE  Kept(P, r.pool)
<1>1. CASE size <= P.max
  <2>1. P.max \in Nat /\ P.size \in Nat /\ P.max <= P.size - PoolHdr
    BY PoolFields DEF PoolInv, Layout
  <2>2. size <= P.size - DataHdr
    BY <1>1, <2>1 DEF PoolHdr, DataHdr
  <2>3. r \in PallocSmall(P, size, align)
    BY <1>1 DEF Request
  <2>4. SameLists(P, r.pool) /\ P.allocs \subseteq r.pool.allocs
    BY <2>2, <2>3, PallocSmallKeeps, SmallGrants
  <2> QED  BY <2>4, LargeSame DEF SameLists, Kept
<1>2. CASE ~(size <= P.max)
  BY <1>2, PallocLargeKept DEF Request
<1> QED  BY <1>1, <1>2

LEMMA PmemalignKept ==
  ASSUME NEW P, PoolInv(P), LargeInv(P), NEW r \in Pmemalign(P)
  PROVE  Kept(P, r.pool)
<1>1. r \in MemalignFails(P) \/ \E c \in Chunks \ P.heap : r \in AddNode(P, c)
  BY DEF Pmemalign
<1>2. P \in Pools
  BY DEF PoolInv
<1>3. CASE r \in MemalignFails(P)
  BY <1>2, <1>3, FailsLarge DEF Kept
<1> QED  BY <1>1, <1>3, AddNodeKept

LEMMA KeptTwice ==
  ASSUME NEW P, NEW Q, NEW R, Kept(P, Q), Kept(Q, R)
  PROVE  Kept(P, R)
BY DEF Kept, Grows

LEMMA RegisterKept ==
  ASSUME NEW P \in Pools, LargeInv(P), NEW x
  PROVE  Kept(P, [P EXCEPT !.cleanup = x])
<1> DEFINE Q == [P EXCEPT !.cleanup = x]
<1>1. Q.large = P.large /\ Q.heap = P.heap /\ Q.allocs = P.allocs
  BY DEF Pools
<1> HIDE DEF Q
<1>2. Kept(P, Q)
  BY <1>1, LargeSame DEF Kept
<1> QED  BY <1>2 DEF Q

LEMMA CleanupAddKept ==
  ASSUME NEW P, PoolInv(P), LargeInv(P), NEW size \in Nat, NEW r \in CleanupAdd(P, size)
  PROVE  Kept(P, r.pool)
<1>1. PICK s \in Palloc(P, CleanupHdr) :
        \/ r = s
        \/ r = Got([s.pool EXCEPT !.cleanup = <<[node |-> s.ptr, alloc |-> Null]>> \o s.pool.cleanup], s.ptr)
        \/ \E d \in Palloc(s.pool, size) :
             \/ r = d
             \/ r = Got([d.pool EXCEPT !.cleanup = <<[node |-> s.ptr, alloc |-> d.ptr]>> \o d.pool.cleanup], s.ptr)
  BY DEF CleanupAdd
<1>2. PoolInv(s.pool) /\ Kept(P, s.pool)
  BY RequestKeeps, RequestKept DEF Palloc, CleanupHdr
<1>3. s.pool \in Pools /\ LargeInv(s.pool)
  BY <1>2 DEF PoolInv, Kept
<1>4. CASE r = s
  BY <1>2, <1>4
<1>5. CASE r = Got([s.pool EXCEPT !.cleanup = <<[node |-> s.ptr, alloc |-> Null]>> \o s.pool.cleanup], s.ptr)
  <2>1. Kept(s.pool, r.pool)
    BY <1>3, <1>5, RegisterKept DEF Got
  <2> QED  BY <1>2, <2>1, KeptTwice
<1>6. ASSUME NEW d \in Palloc(s.pool, size),
             \/ r = d
             \/ r = Got([d.pool EXCEPT !.cleanup = <<[node |-> s.ptr, alloc |-> d.ptr]>> \o d.pool.cleanup], s.ptr)
      PROVE  Kept(P, r.pool)
  <2>1. PoolInv(d.pool) /\ Kept(s.pool, d.pool)
    BY <1>2, <1>3, RequestKeeps, RequestKept DEF Palloc
  <2>2. Kept(P, d.pool)
    BY <1>2, <2>1, KeptTwice
  <2>3. r = d \/ Kept(d.pool, r.pool)
    <3>1. d.pool \in Pools /\ LargeInv(d.pool)
      BY <2>1 DEF PoolInv, Kept
    <3> DEFINE x == <<[node |-> s.ptr, alloc |-> d.ptr]>> \o d.pool.cleanup
    <3>2. ASSUME r = Got([d.pool EXCEPT !.cleanup = x], s.ptr) PROVE Kept(d.pool, r.pool)
      <4> HIDE DEF x
      <4>1. r.pool = [d.pool EXCEPT !.cleanup = x]
        BY <3>2 DEF Got
      <4> QED  BY <3>1, <4>1, RegisterKept
    <3> QED  BY <1>6, <3>2, Zenon
  <2> QED  BY <2>2, <2>3, KeptTwice
<1> QED  BY <1>1, <1>4, <1>5, <1>6

-----------------------------------------------------------------------------
\* The functions that take memory back.
LEMMA PfreeKept ==
  ASSUME NEW P, PoolInv(P), LargeInv(P), NEW c \in Chunks, NEW r \in Pfree(P, c)
  PROVE  /\ LargeInv(r.pool) /\ r.pool.allocs = P.allocs
         /\ \/ r.pool.heap = P.heap
            \/ c \in P.heap /\ r.pool.heap = P.heap \ {c}
<1> DEFINE holders == {i \in 1..Len(P.large) : P.large[i].alloc = Heap(c)}
           h == P.heap \ {c}
<1>0. P \in Pools
  BY DEF PoolInv
<1>1. CASE holders = {}
  BY <1>1 DEF Pfree, Got
<1>2. CASE holders # {}
  <2>1. PICK i \in FirstOf(holders) :
          r = Got([P EXCEPT !.heap = h, !.large[i].alloc = Null], Null)
    BY <1>2, Zenon DEF Pfree
  <2> DEFINE l == [P.large EXCEPT ![i] = [P.large[i] EXCEPT !.alloc = Null]]
  <2>2. i \in 1..Len(P.large) /\ P.large[i].alloc = Heap(c)
    BY DEF FirstOf
  <2>3. r.pool = [P EXCEPT !.heap = h, !.large = l]
    BY <1>0, <2>1 DEF Got, Pools
  <2>4. c \in P.heap
    BY <2>2 DEF LargeInv, Owned
  <2> HIDE DEF l, h
  <2>5. r.pool.large = l /\ r.pool.heap = h /\ r.pool.allocs = P.allocs
    BY <1>0, <2>3 DEF Pools
  <2>6. LargeInv(r.pool)
    BY <1>0, <2>2, <2>5, LargeFreed DEF l, h
  <2> QED  BY <2>4, <2>5, <2>6 DEF h
<1> QED  BY <1>1, <1>2

LEMMA ResetKept ==
  ASSUME NEW P, PoolInv(P), LargeInv(P)
  PROVE  LargeInv(Reset(P)) /\ Reset(P).heap = {} /\ Reset(P).allocs = {}
<1> DEFINE Q  == Reset(P)
           bs == [j \in 1..Len(P.blocks) |-> [last |-> PoolHdr, failed |-> 0]]
<1>1. P \in Pools /\ P.heap \ Owned(P) = {}
  BY DEF PoolInv, LargeInv
<1> HIDE DEF bs
<1>2. Q = [P EXCEPT !.heap = P.heap \ Owned(P), !.blocks = bs, !.current = 1,
                    !.large = <<>>, !.allocs = {}]
  BY DEF Reset, bs
<1> HIDE DEF Q
<1>3. Q.heap = {} /\ Q.large = <<>> /\ Q.allocs = {}
  BY <1>1, <1>2 DEF Pools
<1>4. LargeInv(Q)
  BY <1>3 DEF LargeInv, Owned, AllocsOnce, NodesGranted
<1> QED  BY <1>3, <1>4 DEF Q

LEMMA CreateKept ==
  ASSUME NEW size \in PoolSizes
  PROVE  LargeInv(Create(size)) /\ Create(size).heap = {} /\ Create(size).allocs = {}
<1>1. Create(size).large = <<>> /\ Create(size).heap = {} /\ Create(size).allocs = {}
  BY DEF Create, NoPool
<1> QED  BY <1>1 DEF LargeInv, Owned, AllocsOnce, NodesGranted

-----------------------------------------------------------------------------
LargeStateInv ==
  /\ life \in {"none", "live", "destroyed"}
  /\ life # "destroyed" => LargeInv(pool)
  /\ life = "none" => pool.heap = {}
  /\ life = "destroyed" => pool.heap = {} /\ AllocsOnce(pool) /\ NodesGranted(pool)

\* What a step of the pool does to what its users hold.
Allocates == life = "live" /\ life' = "live" /\ Kept(pool, pool')
TakesBack ==
  /\ life = "live" /\ life' = "live" /\ LargeInv(pool') /\ pool'.allocs = pool.allocs
  /\ \/ pool'.heap = pool.heap
     \/ \E c \in pool.heap : pool'.heap = pool.heap \ {c}
Empties ==
  /\ LargeStateInv'
  /\ pool'.heap = {}
  /\ life' = "live" => pool'.allocs = {}

LEMMA StepAllocates ==
  ASSUME NEW outcomes, Becomes(outcomes), \A r \in outcomes : Kept(pool, r.pool)
  PROVE  Allocates
BY DEF Becomes, Allocates

LEMMA StepKinds ==
  WholeWords /\ Inv /\ LargeStateInv /\ [Next]_vars
    => Allocates \/ TakesBack \/ Empties \/ UNCHANGED vars
<1> SUFFICES ASSUME WholeWords, Inv, LargeStateInv, [Next]_vars
             PROVE  Allocates \/ TakesBack \/ Empties \/ UNCHANGED vars
  OBVIOUS
<1>0. life = "live" => PoolInv(pool) /\ LargeInv(pool)
  BY DEF Inv, LargeStateInv
<1>1. CASE ngx_create_pool
  <2>1. ASSUME NEW size \in PoolSizes, life' = "live", pool' = Create(size) PROVE Empties
    BY <2>1, CreateKept DEF Empties, LargeStateInv
  <2>2. ASSUME NEW r \in MemalignFails(pool), life = "none", life' = "none", pool' = r.pool
        PROVE  Empties
    <3>1. pool \in Pools /\ pool.heap = {} /\ LargeInv(pool)
      BY <2>2 DEF Inv, LargeStateInv
    <3>2. LargeInv(r.pool)
      BY <2>2, <3>1, FailsLarge
    <3>3. PICK w \in BOOLEAN : r = Got([pool EXCEPT !.faults = pool.faults + 1, !.wild = w], Null)
      BY <2>2, Zenon DEF MemalignFails
    <3>4. r.pool.heap = {}
      BY <3>1, <3>3 DEF Got, Pools
    <3> QED  BY <2>2, <3>2, <3>4 DEF Empties, LargeStateInv
  <2> QED  BY <1>1, <2>1, <2>2 DEF ngx_create_pool
<1>2. CASE ngx_palloc
  <2>1. PICK size \in Sizes : Becomes(Palloc(pool, size))
    BY <1>2 DEF ngx_palloc
  <2>2. size \in Nat
    BY PoolAssumption DEF PoolAssumption
  <2>3. \A r \in Palloc(pool, size) : Kept(pool, r.pool)
    BY <1>0, <2>1, <2>2, RequestKept DEF Becomes, Palloc
  <2> QED  BY <2>1, <2>3, StepAllocates
<1>3. CASE ngx_pnalloc
  <2>1. PICK size \in Sizes : Becomes(Pnalloc(pool, size))
    BY <1>3 DEF ngx_pnalloc
  <2>2. size \in Nat
    BY PoolAssumption DEF PoolAssumption
  <2>3. \A r \in Pnalloc(pool, size) : Kept(pool, r.pool)
    BY <1>0, <2>1, <2>2, RequestKept DEF Becomes, Pnalloc
  <2> QED  BY <2>1, <2>3, StepAllocates
<1>4. CASE ngx_pmemalign
  <2>1. Becomes(Pmemalign(pool)) /\ life = "live"
    BY <1>4 DEF ngx_pmemalign, Becomes
  <2>2. \A r \in Pmemalign(pool) : Kept(pool, r.pool)
    BY <1>0, <2>1, PmemalignKept
  <2> QED  BY <2>1, <2>2, StepAllocates
<1>5. CASE ngx_pool_cleanup_add
  <2>1. PICK size \in CleanupSizes : Becomes(CleanupAdd(pool, size))
    BY <1>5 DEF ngx_pool_cleanup_add
  <2>2. size \in Nat
    BY PoolAssumption DEF PoolAssumption
  <2>3. \A r \in CleanupAdd(pool, size) : Kept(pool, r.pool)
    BY <1>0, <2>1, <2>2, CleanupAddKept DEF Becomes
  <2> QED  BY <2>1, <2>3, StepAllocates
<1>6. CASE ngx_pfree
  <2>1. PICK c \in Chunks : Becomes(Pfree(pool, c))
    BY <1>6 DEF ngx_pfree
  <2>2. PICK r \in Pfree(pool, c) : pool' = r.pool
    BY <2>1 DEF Becomes
  <2>3. /\ LargeInv(r.pool) /\ r.pool.allocs = pool.allocs
        /\ \/ r.pool.heap = pool.heap
           \/ c \in pool.heap /\ r.pool.heap = pool.heap \ {c}
    BY <1>0, <2>1, PfreeKept DEF Becomes
  <2> QED  BY <2>1, <2>2, <2>3 DEF Becomes, TakesBack
<1>7. CASE ngx_reset_pool
  <2>1. life = "live" /\ life' = "live" /\ pool' = Reset(pool)
    BY <1>7 DEF ngx_reset_pool, Becomes, Got
  <2> QED  BY <1>0, <2>1, ResetKept DEF Empties, LargeStateInv
<1>8. CASE ngx_destroy_pool
  <2> DEFINE h == pool.heap \ Owned(pool)
  <2>1. PoolInv(pool) /\ LargeInv(pool) /\ life' = "destroyed"
    BY <1>0, <1>8 DEF ngx_destroy_pool
  <2>2. pool \in Pools /\ h = {}
    BY <2>1 DEF PoolInv, LargeInv
  <2>3. pool' = [pool EXCEPT !.heap = h]
    BY <1>8 DEF ngx_destroy_pool
  <2> HIDE DEF h
  <2>4. pool'.heap = {} /\ pool'.large = pool.large /\ pool'.allocs = pool.allocs
    BY <2>2, <2>3 DEF Pools
  <2>5. AllocsOnce(pool') /\ NodesGranted(pool')
    BY <2>1, <2>4 DEF LargeInv, AllocsOnce, NodesGranted, NodeSpan
  <2> QED  BY <2>1, <2>4, <2>5 DEF Empties, LargeStateInv
<1> QED  BY <1>1, <1>2, <1>3, <1>4, <1>5, <1>6, <1>7, <1>8 DEF Next

LEMMA LargeStateStep ==
  WholeWords /\ Inv /\ LargeStateInv /\ [Next]_vars => LargeStateInv'
<1>1. Allocates \/ TakesBack \/ Empties => LargeStateInv'
  BY DEF Allocates, TakesBack, Empties, Kept, LargeStateInv
<1>2. LargeStateInv /\ UNCHANGED vars => LargeStateInv'
  BY DEF vars, LargeStateInv, LargeInv, Owned, AllocsOnce, NodesGranted, NodeSpan
<1> QED  BY <1>1, <1>2, StepKinds

LEMMA LargeStateInit == Init => LargeStateInv
BY DEF Init, NoPool, LargeStateInv, LargeInv, Owned, AllocsOnce, NodesGranted

LEMMA LargeStateAlways ==
  ASSUME WholeWords
  PROVE  Spec => [](Inv /\ LargeStateInv)
<1>1. Inv /\ LargeStateInv /\ [Next]_vars => Inv' /\ LargeStateInv'
  BY InvStep, LargeStateStep
<1> QED  BY <1>1, InvInit, LargeStateInit, PTL DEF Spec

(* The chunks of ngx_palloc_large() and ngx_pmemalign() are neither leaked
   nor held twice, through failing calls, ngx_pfree(), the reuse of emptied
   nodes and resets.                                                       *)
THEOREM ChunksOwnedOnce ==
  ASSUME WholeWords
  PROVE  Spec => []LargeChunksOwned
<1>1. LargeStateInv => LargeChunksOwned
  BY DEF LargeStateInv, LargeInv, AllocsOnce, LargeChunksOwned
<1> QED  BY <1>1, LargeStateAlways, PTL

(* The nodes of pool->large are small requests of the pool itself, so that
   what SmallRequestsStayApart says holds of them as well.                 *)
THEOREM NodesLiveInPool ==
  ASSUME WholeWords
  PROVE  Spec => []LargeNodesIntact
<1>1. LargeStateInv => LargeNodesIntact
  BY DEF LargeStateInv, LargeInv, NodesGranted, NodeSpan, LargeNodesIntact
<1> QED  BY <1>1, LargeStateAlways, PTL

(* ngx_destroy_pool() gives back every large chunk.                         *)
THEOREM DestroyFreesLarge ==
  ASSUME WholeWords
  PROVE  Spec => []NothingLargeLeft
<1>1. LargeStateInv => NothingLargeLeft
  BY DEF LargeStateInv, NothingLargeLeft
<1> QED  BY <1>1, LargeStateAlways, PTL

-----------------------------------------------------------------------------
(* The pool implements the allocator.                                       *)
Pieces(P) == P.allocs \cup {Span(0, c, 1) : c \in P.heap}

LEMMA PiecesApart ==
  ASSUME NEW P, PoolInv(P), NEW a \in Pieces(P), NEW b \in Pieces(P), a # b
  PROVE  ~A!Overlap(a, b)
<1>1. P \in Pools
  BY DEF PoolInv
<1>2. ASSUME NEW x \in P.allocs PROVE x.blk # 0 /\ x.from \in Nat /\ x.to \in Nat
  <2>1. x.blk \in 1..Len(P.blocks) /\ Len(P.blocks) \in Nat
    BY <1>1, PoolFields DEF PoolInv, Layout
  <2> QED  BY <1>1, <2>1, PoolFields
<1>3. ASSUME NEW x \in {Span(0, c, 1) : c \in P.heap}
      PROVE  x.blk = 0 /\ x.from \in Nat /\ x = Span(0, x.from, 1) /\ x.to = x.from + 1
  <2>1. PICK c \in P.heap : x = Span(0, c, 1)
    OBVIOUS
  <2>2. c \in Nat
    BY <1>1, PoolFields, PoolAssumption DEF PoolAssumption
  <2> QED  BY <2>1, <2>2 DEF Span
<1>4. CASE a \in P.allocs /\ b \in P.allocs
  <2>1. a.blk = b.blk =>
          a.to <= b.from \/ b.to <= a.from \/ a.from = a.to \/ b.from = b.to
    BY <1>4 DEF PoolInv, Apart
  <2> QED  BY <1>2, <1>4, <2>1 DEF A!Overlap
<1>5. CASE a \notin P.allocs /\ b \notin P.allocs
  <2>1. a.from # b.from
    BY <1>3, <1>5 DEF Pieces
  <2> QED  BY <1>3, <1>5, <2>1 DEF A!Overlap, Pieces
<1>6. CASE (a \in P.allocs) # (b \in P.allocs)
  BY <1>2, <1>3, <1>6 DEF A!Overlap, Pieces
<1> QED  BY <1>4, <1>5, <1>6

LEMMA ChunkRemoved ==
  ASSUME NEW P, PoolInv(P), NEW c \in P.heap,
         NEW Q, Q.allocs = P.allocs, Q.heap = P.heap \ {c}
  PROVE  /\ Span(0, c, 1) \in Pieces(P) /\ Span(0, c, 1).blk = 0
         /\ Pieces(Q) = Pieces(P) \ {Span(0, c, 1)}
<1>1. ASSUME NEW d \in P.heap, Span(0, d, 1) = Span(0, c, 1) PROVE d = c
  BY <1>1 DEF Span
<1>2. Span(0, c, 1) \notin P.allocs
  <2>1. P \in Pools
    BY DEF PoolInv
  <2>2. \A a \in P.allocs : a.blk \in 1..Len(P.blocks) /\ Len(P.blocks) \in Nat
    BY <2>1, PoolFields DEF PoolInv, Layout
  <2>3. Span(0, c, 1).blk = 0
    BY DEF Span
  <2> QED  BY <2>2, <2>3
<1> QED  BY <1>1, <1>2 DEF Pieces, Span

LEMMA LiveGranted ==
  /\ life = "live" => Granted = Pieces(pool)
  /\ life # "live" /\ pool.heap = {} => Granted = {}
BY DEF Granted, Pieces

LEMMA AllocatorInit == Init => A!Init
BY LiveGranted DEF Init, NoPool, A!Init

LEMMA AllocatorStep ==
  WholeWords /\ Inv /\ LargeStateInv /\ [Next]_vars => [A!Next]_A!vars
<1> SUFFICES ASSUME WholeWords, Inv, LargeStateInv, [Next]_vars
             PROVE  [A!Next]_A!vars
  OBVIOUS
<1>0. Inv'
  BY InvStep
<1>1. CASE Allocates
  <2>1. Granted = Pieces(pool) /\ Granted' = Pieces(pool')
    BY <1>1, LiveGranted DEF Allocates, Granted, Pieces
  <2>2. Pieces(pool) \subseteq Pieces(pool')
    BY <1>1 DEF Allocates, Kept, Grows, Pieces
  <2>3. PoolInv(pool')
    BY <1>0, <1>1 DEF Inv, Allocates
  <2>4. \A a, b \in Pieces(pool') : a # b => ~A!Overlap(a, b)
    BY <2>3, PiecesApart
  <2>5. A!Grant
    BY <2>1, <2>2, <2>4 DEF A!Grant
  <2> QED  BY <2>5 DEF A!Next
<1>2. CASE TakesBack
  <2>1. Granted = Pieces(pool) /\ Granted' = Pieces(pool') /\ PoolInv(pool)
    BY <1>2, LiveGranted DEF TakesBack, Inv, Granted, Pieces
  <2>2. CASE pool'.heap = pool.heap
    BY <1>2, <2>1, <2>2 DEF TakesBack, Pieces, A!vars
  <2>3. ASSUME NEW c \in pool.heap, pool'.heap = pool.heap \ {c} PROVE A!Return
    <3>1. /\ Span(0, c, 1) \in Pieces(pool) /\ Span(0, c, 1).blk = 0
          /\ Pieces(pool') = Pieces(pool) \ {Span(0, c, 1)}
      BY <1>2, <2>1, <2>3, ChunkRemoved DEF TakesBack
    <3> QED  BY <2>1, <3>1 DEF A!Return
  <2> QED  BY <1>2, <2>2, <2>3 DEF TakesBack, A!Next
<1>3. CASE Empties
  <2>1. Granted' = {}
    BY <1>3 DEF Empties, Granted
  <2> QED  BY <2>1 DEF A!Clear, A!Next
<1>4. CASE UNCHANGED vars
  BY <1>4 DEF vars, A!vars, Granted
<1> QED  BY <1>1, <1>2, <1>3, <1>4, StepKinds

(* As its users see it the pool is a region allocator: no call hands out
   memory that is in use, and nothing is taken away but by ngx_pfree(),
   ngx_reset_pool() and ngx_destroy_pool().                                *)
THEOREM ImplementsAllocator ==
  ASSUME WholeWords
  PROVE  Spec => IsAllocator
<1>1. Inv /\ LargeStateInv /\ [Next]_vars => [A!Next]_A!vars
  BY AllocatorStep
<1>2. Spec => [](Inv /\ LargeStateInv)
  BY LargeStateAlways
<1> QED  BY <1>1, <1>2, AllocatorInit, PTL DEF Spec, IsAllocator, A!Spec

-----------------------------------------------------------------------------
(* The chain.  A block is left behind when its sixth failure is counted, and
   because failures are counted from pool->current to the last block but
   one, counters never grow along the chain.                               *)
Ordered(b, c) ==
  /\ c \in 1..Len(b)
  /\ \A j \in 1..Len(b) :
       /\ b[j].failed \in Nat
       /\ j < c => b[j].failed >= 6
       /\ j >= c => b[j].failed <= 5
       /\ j = Len(b) => b[j].failed = 0
       /\ \A k \in j..Len(b) : b[k].failed <= b[j].failed
ChainInv(P) == Ordered(P.blocks, P.current)

LEMMA ChainSame ==
  ASSUME NEW P, ChainInv(P), NEW Q, Q.blocks = P.blocks, Q.current = P.current
  PROVE  ChainInv(Q)
BY DEF ChainInv

LEMMA TakeChain ==
  ASSUME NEW P \in Pools, ChainInv(P), NEW j \in 1..Len(P.blocks), NEW x,
         NEW Q, Q.blocks = [P.blocks EXCEPT ![j] = [P.blocks[j] EXCEPT !.last = x]],
         Q.current = P.current
  PROVE  ChainInv(Q)
<1> DEFINE b == P.blocks
           n == [b[j] EXCEPT !.last = x]
<1>1. b \in Seq(Blocks) /\ b[j] \in Blocks
  BY PoolFields, ElementOfSeq
<1>2. n.failed = b[j].failed
  BY <1>1 DEF Blocks
<1> HIDE DEF n
<1>3. Q.blocks = [b EXCEPT ![j] = n]
  BY DEF n
<1>4. Len(Q.blocks) = Len(b) /\ \A i \in 1..Len(b) : Q.blocks[i].failed = b[i].failed
  BY <1>1, <1>2, <1>3
<1>5. Len(b) \in Nat
  BY PoolFields
<1> QED  BY <1>4, <1>5 DEF ChainInv, Ordered

\* What the failure counters are after ngx_palloc_block.
LEMMA Counted ==
  ASSUME NEW P \in Pools, P.current \in 1..Len(P.blocks)
  PROVE  \A i \in 1..Len(P.blocks) :
           CountFailures(P)[i].failed =
             IF P.current <= i /\ i < Len(P.blocks)
             THEN P.blocks[i].failed + 1 ELSE P.blocks[i].failed
<1> TAKE i \in 1..Len(P.blocks)
<1>1. P.blocks[i] \in Blocks
  BY PoolFields, ElementOfSeq
<1> QED  BY <1>1 DEF CountFailures, Blocks

\* The block that pool->current moves to: all before it were at 5, none
\* from it on was.
LEMMA SkipsOverFive ==
  ASSUME NEW P \in Pools, ChainInv(P), NEW c \in Skip(P)
  PROVE  /\ c \in P.current..Len(P.blocks)
         /\ \A j \in 1..Len(P.blocks) : P.current <= j /\ j < c => P.blocks[j].failed = 5
         /\ \A j \in 1..Len(P.blocks) : c <= j => P.blocks[j].failed <= 4
<1> DEFINE b == P.blocks
           n == Len(b)
           S == {i \in P.current..(n - 1) : b[i].failed > 4}
<1>1. n \in Nat /\ P.current \in 1..n
  BY PoolFields DEF ChainInv, Ordered
<1>2. \A j \in 1..n :
        /\ b[j].failed \in Nat
        /\ j >= P.current => b[j].failed <= 5
        /\ j = n => b[j].failed = 0
        /\ \A k \in j..n : b[k].failed <= b[j].failed
  BY DEF ChainInv, Ordered
<1>3. /\ c \in {P.current} \cup {j + 1 : j \in S}
      /\ \A k \in {P.current} \cup {j + 1 : j \in S} : c >= k
  BY DEF Skip, LastOf
<1>4. \A j \in S : c >= j + 1
  BY <1>3
<1>5. c = P.current \/ \E j \in S : c = j + 1
  BY <1>3
<1>6. c \in P.current..n
  BY <1>1, <1>5
<1>7. ASSUME NEW j \in 1..n, P.current <= j, j < c PROVE b[j].failed = 5
  <2>1. PICK k \in S : c = k + 1
    BY <1>1, <1>5, <1>7
  <2>2. k \in 1..n /\ k \in j..n /\ b[k].failed > 4
    BY <1>1, <1>7, <2>1
  <2>3. b[k].failed <= b[j].failed /\ b[j].failed <= 5 /\ b[j].failed \in Nat /\ b[k].failed \in Nat
    BY <1>1, <1>2, <1>7, <2>2
  <2> QED  BY <2>2, <2>3
<1>8. ASSUME NEW j \in 1..n, c <= j PROVE b[j].failed <= 4
  <2>1. CASE j = n
    BY <1>2, <2>1
  <2>2. CASE j # n
    <3>1. j \in P.current..(n - 1) /\ j \notin S
      BY <1>1, <1>4, <1>6, <1>8, <2>2
    <3> QED  BY <1>2, <3>1
  <2> QED  BY <2>1, <2>2
<1> QED  BY <1>6, <1>7, <1>8

\* The counters of a longer chain in numbers.
Longer(n, cur, c, f, g) ==
  /\ n \in Nat /\ cur \in 1..n /\ c \in cur..n
  /\ f \in [1..n -> Nat] /\ g \in [1..(n + 1) -> Nat]
  /\ \A i \in 1..n : g[i] = IF cur <= i /\ i < n THEN f[i] + 1 ELSE f[i]
  /\ g[n + 1] = 0 /\ f[n] = 0
  /\ \A j \in 1..n : j < cur => f[j] >= 6
  /\ \A j \in 1..n : cur <= j /\ j < c => f[j] = 5
  /\ \A j \in 1..n : c <= j => f[j] <= 4
  /\ \A j \in 1..n : \A k \in j..n : f[k] <= f[j]

LEMMA OrderedLonger ==
  ASSUME NEW n, NEW cur, NEW c, NEW f, NEW g, Longer(n, cur, c, f, g)
  PROVE  /\ c \in 1..(n + 1)
         /\ \A j \in 1..(n + 1) :
              /\ j < c => g[j] >= 6
              /\ j >= c => g[j] <= 5
              /\ j = n + 1 => g[j] = 0
              /\ \A k \in j..(n + 1) : g[k] <= g[j]
<1> USE DEF Longer
<1>1. c \in 1..(n + 1)
  OBVIOUS
<1> SUFFICES ASSUME NEW j \in 1..(n + 1)
             PROVE  /\ j < c => g[j] >= 6
                    /\ j >= c => g[j] <= 5
                    /\ j = n + 1 => g[j] = 0
                    /\ \A k \in j..(n + 1) : g[k] <= g[j]
  BY <1>1
<1>2. CASE j = n + 1
  BY <1>2
<1>3. CASE j \in 1..n
  <2>1. j < c => g[j] >= 6
    BY <1>3, SMTT(30)
  <2>2. j >= c => g[j] <= 5
    BY <1>3, SMTT(30)
  <2>3. ASSUME NEW k \in j..(n + 1) PROVE g[k] <= g[j]
    <3>1. CASE k = n + 1
      BY <1>3, <3>1
    <3>2. CASE k \in 1..n
      <4>1. f[k] <= f[j] /\ f[k] \in Nat /\ f[j] \in Nat /\ g[k] \in Nat /\ g[j] \in Nat
        BY <1>3, <2>3, <3>2
      <4>2. CASE k = n \/ k < cur \/ j >= cur
        BY <1>3, <2>3, <3>2, <4>1, <4>2
      <4>3. CASE k # n /\ k >= cur /\ j < cur
        <5>1. f[k] <= 5 /\ f[j] >= 6
          BY <1>3, <3>2, <4>3, SMTT(30)
        <5> QED  BY <1>3, <3>2, <4>1, <4>3, <5>1
      <4> QED  BY <1>3, <3>2, <4>2, <4>3
    <3> QED  BY <1>3, <2>3, <3>1, <3>2
  <2> QED  BY <1>3, <2>1, <2>2, <2>3
<1> QED  BY <1>2, <1>3

LEMMA NewBlockChain ==
  ASSUME NEW P, PoolInv(P), ChainInv(P), NEW size \in Nat, NEW r \in NewBlock(P, size)
  PROVE  ChainInv(r.pool)
<1> DEFINE b  == P.blocks
           n  == Len(b)
           m  == AlignUp(DataHdr)
           e  == [last |-> m + size, failed |-> 0]
           bs == Append(CountFailures(P), e)
           as == P.allocs \cup {Span(n + 1, m, size)}
           f  == [i \in 1..n |-> b[i].failed]
           g  == [i \in 1..(n + 1) |-> bs[i].failed]
<1>1. P \in Pools /\ n \in Nat /\ P.current \in 1..n
  BY PoolFields DEF PoolInv, Layout
<1>2. PICK c \in Skip(P) :
        r = Got([P EXCEPT !.blocks = bs, !.current = c, !.allocs = as], <<n + 1, m>>)
  BY DEF NewBlock
<1>3. m \in Nat
  BY AlignUpBounds DEF DataHdr
<1>4. e \in Blocks /\ e.failed = 0
  BY <1>3 DEF Blocks
<1> HIDE DEF e, as
<1>5. /\ bs \in Seq(Blocks) /\ Len(bs) = n + 1 /\ bs[n + 1] = e
      /\ \A i \in 1..n : bs[i] = CountFailures(P)[i]
  BY <1>1, <1>4, CountFailuresKeepsLast
<1> HIDE DEF bs
<1>6. r.pool.blocks = bs /\ r.pool.current = c
  BY <1>1, <1>2 DEF Got, Pools
<1>7. /\ c \in P.current..n
      /\ \A j \in 1..n : P.current <= j /\ j < c => f[j] = 5
      /\ \A j \in 1..n : c <= j => f[j] <= 4
  BY <1>1, SkipsOverFive
<1>8. \A i \in 1..n : g[i] = IF P.current <= i /\ i < n THEN f[i] + 1 ELSE f[i]
  <2> TAKE i \in 1..n
  <2>1. i \in 1..(n + 1)
    BY <1>1
  <2> QED  BY <1>1, <1>5, <2>1, Counted
<1>9. f \in [1..n -> Nat] /\ g \in [1..(n + 1) -> Nat]
  <2>1. \A i \in 1..n : b[i].failed \in Nat
    BY <1>1, PoolFields
  <2>2. ASSUME NEW i \in 1..(n + 1) PROVE bs[i].failed \in Nat
    <3>1. bs[i] \in Blocks
      BY <1>5, ElementOfSeq
    <3> QED  BY <3>1 DEF Blocks
  <2> QED  BY <2>1, <2>2
<1>10. g[n + 1] = 0
  BY <1>1, <1>4, <1>5
<1>11. /\ f[n] = 0
       /\ \A j \in 1..n : j < P.current => f[j] >= 6
       /\ \A j \in 1..n : \A k \in j..n : f[k] <= f[j]
  <2>1. n \in 1..n /\ \A j \in 1..n : \A k \in j..n : k \in 1..n
    BY <1>1
  <2> QED  BY <2>1 DEF ChainInv, Ordered
<1>12. \A i \in 1..(n + 1) : bs[i].failed = g[i]
  OBVIOUS
<1>13. \A j \in 1..(n + 1) : \A k \in j..(n + 1) : k \in 1..(n + 1)
  BY <1>1
<1> HIDE DEF f, g, b, n
<1>14. /\ c \in 1..(n + 1)
       /\ \A j \in 1..(n + 1) :
            /\ j < c => g[j] >= 6
            /\ j >= c => g[j] <= 5
            /\ j = n + 1 => g[j] = 0
            /\ \A k \in j..(n + 1) : g[k] <= g[j]
  <2>1. Longer(n, P.current, c, f, g)
    BY <1>1, <1>7, <1>8, <1>9, <1>10, <1>11 DEF Longer
  <2> QED  BY <2>1, OrderedLonger
<1>15. Ordered(bs, c)
  BY <1>5, <1>9, <1>12, <1>13, <1>14 DEF Ordered
<1> QED  BY <1>6, <1>15 DEF ChainInv

LEMMA FailsChain ==
  ASSUME NEW P \in Pools, ChainInv(P), NEW r \in MemalignFails(P) \cup MallocFails(P)
  PROVE  ChainInv(r.pool)
<1>1. CASE r \in MemalignFails(P)
  <2>1. PICK w \in BOOLEAN : r = Got([P EXCEPT !.faults = P.faults + 1, !.wild = w], Null)
    BY <1>1, Zenon DEF MemalignFails
  <2>2. r.pool.blocks = P.blocks /\ r.pool.current = P.current
    BY <2>1 DEF Got, Pools
  <2> QED  BY <2>2, ChainSame
<1>2. CASE r \in MallocFails(P)
  <2>1. r = Got([P EXCEPT !.faults = P.faults + 1], Null)
    BY <1>2 DEF MallocFails
  <2>2. r.pool.blocks = P.blocks /\ r.pool.current = P.current
    BY <2>1 DEF Got, Pools
  <2> QED  BY <2>2, ChainSame
<1> QED  BY <1>1, <1>2

LEMMA PallocSmallChain ==
  ASSUME NEW P, PoolInv(P), ChainInv(P), NEW size \in Nat, NEW align \in BOOLEAN,
         NEW r \in PallocSmall(P, size, align)
  PROVE  ChainInv(r.pool)
<1> DEFINE fits == {j \in P.current..Len(P.blocks) : Fits(P, j, size, align)}
<1>1. P \in Pools /\ P.current \in 1..Len(P.blocks)
  BY DEF PoolInv, Layout
<1>2. CASE fits # {}
  <2>1. PICK j \in fits : r = Take(P, j, size, align)
    BY <1>2 DEF PallocSmall, FirstOf
  <2>2. j \in 1..Len(P.blocks)
    BY <1>1, PoolFields
  <2> DEFINE x  == Start(P, j, align) + size
             bs == [P.blocks EXCEPT ![j] = [P.blocks[j] EXCEPT !.last = x]]
             as == P.allocs \cup {Span(j, Start(P, j, align), size)}
  <2>3. r.pool = [P EXCEPT !.blocks = bs, !.allocs = as]
    BY <1>1, <2>1 DEF Take, Got, Pools
  <2> HIDE DEF x, bs, as
  <2>4. r.pool.blocks = bs /\ r.pool.current = P.current
    BY <1>1, <2>3 DEF Pools
  <2> QED  BY <1>1, <2>2, <2>4, TakeChain DEF bs
<1>3. CASE fits = {}
  <2>1. r \in MemalignFails(P) \/ r \in NewBlock(P, size)
    BY <1>3 DEF PallocSmall, PallocBlock
  <2> QED  BY <1>1, <2>1, FailsChain, NewBlockChain
<1> QED  BY <1>2, <1>3

LEMMA AddNodeChain ==
  ASSUME NEW P, PoolInv(P), ChainInv(P), NEW c \in Chunks, NEW r \in AddNode(P, c)
  PROVE  ChainInv(r.pool)
<1> DEFINE H == [P EXCEPT !.heap = P.heap \cup {c}]
<1>0. P \in Pools /\ P.heap \cup {c} \in SUBSET Chunks /\ P.size >= PoolHdr
  BY PoolFields DEF PoolInv, Layout
<1>1. PoolInv(H) /\ H.size = P.size /\ H.blocks = P.blocks /\ H.current = P.current
  BY <1>0, HeapKeeps DEF Pools
<1>2. PICK s \in PallocSmall(H, LargeHdr, TRUE) :
        r = IF s.ptr = Null THEN Got([s.pool EXCEPT !.heap = s.pool.heap \ {c}], Null)
            ELSE Got(Insert(s.pool, s.ptr, c), Heap(c))
  BY Zenon DEF AddNode
<1>3. LargeHdr \in Nat /\ LargeHdr <= H.size - DataHdr
  BY <1>0, <1>1, PoolFields DEF LargeHdr, DataHdr, PoolHdr
<1> HIDE DEF H
<1>4. ChainInv(H)
  BY <1>1, ChainSame
<1>5. ChainInv(s.pool) /\ s.pool \in Pools
  BY <1>1, <1>3, <1>4, PallocSmallChain, PallocSmallKeeps DEF PoolInv
<1>6. CASE s.ptr = Null
  <2> DEFINE h == s.pool.heap \ {c}
  <2>1. r.pool = [s.pool EXCEPT !.heap = h]
    BY <1>2, <1>6 DEF Got
  <2> HIDE DEF h
  <2>2. r.pool.blocks = s.pool.blocks /\ r.pool.current = s.pool.current
    BY <1>5, <2>1 DEF Pools
  <2> QED  BY <1>5, <2>2, ChainSame
<1>7. CASE s.ptr # Null
  <2> DEFINE l == <<[node |-> s.ptr, alloc |-> Heap(c)]>> \o s.pool.large
  <2>1. r.pool = [s.pool EXCEPT !.large = l]
    BY <1>2, <1>7 DEF Got, Insert
  <2> HIDE DEF l
  <2>2. r.pool.blocks = s.pool.blocks /\ r.pool.current = s.pool.current
    BY <1>5, <2>1 DEF Pools
  <2> QED  BY <1>5, <2>2, ChainSame
<1> QED  BY <1>6, <1>7

LEMMA RequestChain ==
  ASSUME NEW P, PoolInv(P), ChainInv(P), NEW size \in Nat, NEW align \in BOOLEAN,
         NEW r \in Request(P, size, align)
  PROVE  ChainInv(r.pool)
<1>0. P \in Pools
  BY DEF PoolInv
<1>1. CASE size <= P.max
  BY <1>1, PallocSmallChain DEF Request
<1>2. CASE ~(size <= P.max)
  <2>1. r \in MallocFails(P) \/ \E c \in Chunks : r \in PlaceLarge(P, c)
    BY <1>2 DEF Request, PallocLarge
  <2>2. CASE r \in MallocFails(P)
    BY <1>0, <2>2, FailsChain
  <2>3. ASSUME NEW c \in Chunks, r \in PlaceLarge(P, c) PROVE ChainInv(r.pool)
    <3>1. PICK k \in 1..5 :
            \/ \E i \in FirstOf(Empty(P, k)) :
                 r = Got([P EXCEPT !.heap = P.heap \cup {c}, !.large[i].alloc = Heap(c)], Heap(c))
            \/ r \in AddNode(P, c)
      BY <2>3 DEF PlaceLarge
    <3>2. ASSUME NEW i \in FirstOf(Empty(P, k)),
                 r = Got([P EXCEPT !.heap = P.heap \cup {c}, !.large[i].alloc = Heap(c)], Heap(c))
          PROVE  ChainInv(r.pool)
      <4>1. r.pool.blocks = P.blocks /\ r.pool.current = P.current
        BY <1>0, <3>2 DEF Got, Pools
      <4> QED  BY <4>1, ChainSame
    <3> QED  BY <3>1, <3>2, AddNodeChain
  <2> QED  BY <2>1, <2>2, <2>3
<1> QED  BY <1>1, <1>2

LEMMA RegisterChain ==
  ASSUME NEW P \in Pools, ChainInv(P), NEW x
  PROVE  ChainInv([P EXCEPT !.cleanup = x])
<1> DEFINE Q == [P EXCEPT !.cleanup = x]
<1>1. Q.blocks = P.blocks /\ Q.current = P.current
  BY DEF Pools
<1> HIDE DEF Q
<1>2. ChainInv(Q)
  BY <1>1, ChainSame
<1> QED  BY <1>2 DEF Q

LEMMA CleanupAddChain ==
  ASSUME NEW P, PoolInv(P), ChainInv(P), NEW size \in Nat, NEW r \in CleanupAdd(P, size)
  PROVE  ChainInv(r.pool)
<1>1. PICK s \in Palloc(P, CleanupHdr) :
        \/ r = s
        \/ r = Got([s.pool EXCEPT !.cleanup = <<[node |-> s.ptr, alloc |-> Null]>> \o s.pool.cleanup], s.ptr)
        \/ \E d \in Palloc(s.pool, size) :
             \/ r = d
             \/ r = Got([d.pool EXCEPT !.cleanup = <<[node |-> s.ptr, alloc |-> d.ptr]>> \o d.pool.cleanup], s.ptr)
  BY DEF CleanupAdd
<1>2. PoolInv(s.pool) /\ ChainInv(s.pool) /\ s.pool \in Pools
  BY RequestKeeps, RequestChain DEF Palloc, CleanupHdr, PoolInv
<1>3. CASE r = s
  BY <1>2, <1>3
<1>4. CASE r = Got([s.pool EXCEPT !.cleanup = <<[node |-> s.ptr, alloc |-> Null]>> \o s.pool.cleanup], s.ptr)
  BY <1>2, <1>4, RegisterChain DEF Got
<1>5. ASSUME NEW d \in Palloc(s.pool, size),
             \/ r = d
             \/ r = Got([d.pool EXCEPT !.cleanup = <<[node |-> s.ptr, alloc |-> d.ptr]>> \o d.pool.cleanup], s.ptr)
      PROVE  ChainInv(r.pool)
  <2>1. ChainInv(d.pool) /\ d.pool \in Pools
    BY <1>2, RequestKeeps, RequestChain DEF Palloc, PoolInv
  <2> DEFINE x == <<[node |-> s.ptr, alloc |-> d.ptr]>> \o d.pool.cleanup
  <2>2. ASSUME r = Got([d.pool EXCEPT !.cleanup = x], s.ptr) PROVE ChainInv(r.pool)
    <3> HIDE DEF x
    <3>1. r.pool = [d.pool EXCEPT !.cleanup = x]
      BY <2>2 DEF Got
    <3> QED  BY <2>1, <3>1, RegisterChain
  <2> QED  BY <1>5, <2>1, <2>2, Zenon
<1> QED  BY <1>1, <1>3, <1>4, <1>5

LEMMA FreshChain ==
  ASSUME NEW n \in Nat \ {0}, NEW b, b = [j \in 1..n |-> [last |-> PoolHdr, failed |-> 0]]
  PROVE  Ordered(b, 1)
<1> DEFINE e == [last |-> PoolHdr, failed |-> 0]
<1>0. e \in Blocks /\ e.failed = 0 /\ b = [j \in 1..n |-> e]
  BY DEF Blocks, PoolHdr
<1> HIDE DEF e
<1>1. Len(b) = n /\ \A j \in 1..n : b[j].failed = 0
  BY <1>0, SeqDef
<1> QED  BY <1>1 DEF Ordered

ChainStateInv ==
  /\ life \in {"none", "live", "destroyed"}
  /\ life = "none" => pool.blocks = <<>>
  /\ life # "none" => ChainInv(pool)

LEMMA ChainBecomes ==
  ASSUME NEW outcomes, Becomes(outcomes), \A r \in outcomes : ChainInv(r.pool)
  PROVE  ChainStateInv'
BY DEF Becomes, ChainStateInv

LEMMA ChainStateStep ==
  Inv /\ ChainStateInv /\ [Next]_vars => ChainStateInv'
<1> SUFFICES ASSUME Inv, ChainStateInv, [Next]_vars PROVE ChainStateInv'
  OBVIOUS
<1>0. life = "live" => PoolInv(pool) /\ ChainInv(pool) /\ pool \in Pools
  BY DEF Inv, ChainStateInv, PoolInv
<1>1. CASE ngx_create_pool
  <2>1. ASSUME NEW size \in PoolSizes, life' = "live", pool' = Create(size) PROVE ChainStateInv'
    <3> DEFINE b == <<[last |-> PoolHdr, failed |-> 0]>>
    <3>1. pool'.blocks = b /\ pool'.current = 1
      BY <2>1 DEF Create, NoPool
    <3>2. Len(b) = 1 /\ \A j \in 1..Len(b) : j = 1 /\ b[j].failed = 0
      OBVIOUS
    <3> HIDE DEF b
    <3>3. Ordered(b, 1)
      BY <3>2 DEF Ordered
    <3> QED  BY <2>1, <3>1, <3>3 DEF ChainStateInv, ChainInv
  <2>2. ASSUME NEW r \in MemalignFails(pool), life = "none", life' = "none", pool' = r.pool
        PROVE  ChainStateInv'
    <3>1. pool \in Pools /\ pool.blocks = <<>>
      BY <2>2 DEF Inv, ChainStateInv
    <3>2. PICK w \in BOOLEAN : r = Got([pool EXCEPT !.faults = pool.faults + 1, !.wild = w], Null)
      BY <2>2, Zenon DEF MemalignFails
    <3>3. pool'.blocks = <<>>
      BY <2>2, <3>1, <3>2 DEF Got, Pools
    <3> QED  BY <2>2, <3>3 DEF ChainStateInv
  <2> QED  BY <1>1, <2>1, <2>2 DEF ngx_create_pool
<1>2. CASE ngx_palloc \/ ngx_pnalloc
  <2>1. PICK size \in Sizes, align \in BOOLEAN : Becomes(Request(pool, size, align))
    BY <1>2 DEF ngx_palloc, ngx_pnalloc, Palloc, Pnalloc
  <2>2. size \in Nat
    BY PoolAssumption DEF PoolAssumption
  <2>3. \A r \in Request(pool, size, align) : ChainInv(r.pool)
    BY <1>0, <2>1, <2>2, RequestChain DEF Becomes
  <2> QED  BY <2>1, <2>3, ChainBecomes
<1>3. CASE ngx_pmemalign
  <2>1. Becomes(Pmemalign(pool)) /\ life = "live"
    BY <1>3 DEF ngx_pmemalign, Becomes
  <2>2. ASSUME NEW r \in Pmemalign(pool) PROVE ChainInv(r.pool)
    <3>1. r \in MemalignFails(pool) \/ \E c \in Chunks : r \in AddNode(pool, c)
      BY DEF Pmemalign
    <3> QED  BY <1>0, <2>1, <3>1, FailsChain, AddNodeChain
  <2> QED  BY <2>1, <2>2, ChainBecomes
<1>4. CASE ngx_pool_cleanup_add
  <2>1. PICK size \in CleanupSizes : Becomes(CleanupAdd(pool, size))
    BY <1>4 DEF ngx_pool_cleanup_add
  <2>2. size \in Nat
    BY PoolAssumption DEF PoolAssumption
  <2>3. \A r \in CleanupAdd(pool, size) : ChainInv(r.pool)
    BY <1>0, <2>1, <2>2, CleanupAddChain DEF Becomes
  <2> QED  BY <2>1, <2>3, ChainBecomes
<1>5. CASE ngx_pfree
  <2>1. PICK c \in Chunks : Becomes(Pfree(pool, c))
    BY <1>5 DEF ngx_pfree
  <2>2. ASSUME NEW r \in Pfree(pool, c) PROVE ChainInv(r.pool)
    <3> DEFINE holders == {i \in 1..Len(pool.large) : pool.large[i].alloc = Heap(c)}
               h == pool.heap \ {c}
    <3>1. CASE holders = {}
      BY <1>0, <2>1, <3>1 DEF Pfree, Got, Becomes
    <3>2. CASE holders # {}
      <4>1. PICK i \in FirstOf(holders) :
              r = Got([pool EXCEPT !.heap = h, !.large[i].alloc = Null], Null)
        BY <3>2, Zenon DEF Pfree
      <4>2. r.pool.blocks = pool.blocks /\ r.pool.current = pool.current
        BY <1>0, <2>1, <4>1 DEF Got, Pools, Becomes
      <4> QED  BY <1>0, <2>1, <4>2, ChainSame DEF Becomes
    <3> QED  BY <3>1, <3>2
  <2> QED  BY <2>1, <2>2, ChainBecomes
<1>6. CASE ngx_reset_pool
  <2> DEFINE bs == [j \in 1..Len(pool.blocks) |-> [last |-> PoolHdr, failed |-> 0]]
  <2>1. life = "live" /\ life' = "live" /\ pool' = Reset(pool)
    BY <1>6 DEF ngx_reset_pool, Becomes, Got
  <2>2. Ordered(bs, 1)
    <3>1. Len(pool.blocks) \in Nat \ {0}
      BY <1>0, <2>1, PoolFields DEF ChainInv, Ordered
    <3> QED  BY <3>1, FreshChain
  <2> HIDE DEF bs
  <2>3. pool' = [pool EXCEPT !.heap = pool.heap \ Owned(pool), !.blocks = bs, !.current = 1,
                             !.large = <<>>, !.allocs = {}]
    BY <2>1 DEF Reset, bs
  <2>4. pool'.blocks = bs /\ pool'.current = 1
    BY <1>0, <2>1, <2>3 DEF Pools
  <2> QED  BY <2>1, <2>2, <2>4 DEF ChainStateInv, ChainInv
<1>7. CASE ngx_destroy_pool
  <2> DEFINE h == pool.heap \ Owned(pool)
  <2>1. life = "live" /\ life' = "destroyed" /\ pool' = [pool EXCEPT !.heap = h]
    BY <1>7 DEF ngx_destroy_pool
  <2> HIDE DEF h
  <2>2. pool'.blocks = pool.blocks /\ pool'.current = pool.current
    BY <1>0, <2>1 DEF Pools
  <2> QED  BY <1>0, <2>1, <2>2 DEF ChainStateInv, ChainInv
<1>8. CASE UNCHANGED vars
  BY <1>8 DEF vars, ChainStateInv, ChainInv, Ordered
<1> QED  BY <1>1, <1>2, <1>3, <1>4, <1>5, <1>6, <1>7, <1>8 DEF Next

(* ngx_palloc_block() moves pool->current past a block at its sixth failure
   and at no other, and the counters never grow along the chain, so it never
   has to pass a block that may still serve to reach one that may not.     *)
THEOREM CurrentLeavesFailed ==
  ASSUME WholeWords
  PROVE  Spec => []CurrentSkipsFailedOnly
<1>1. Init => ChainStateInv
  BY DEF Init, NoPool, ChainStateInv
<1>2. Inv /\ ChainStateInv /\ [Next]_vars => Inv' /\ ChainStateInv'
  BY InvStep, ChainStateStep
<1>3. ChainStateInv => CurrentSkipsFailedOnly
  <2>1. ASSUME pool.blocks = <<>> PROVE CurrentSkipsFailedOnly
    BY <2>1 DEF CurrentSkipsFailedOnly
  <2>2. ASSUME ChainInv(pool) PROVE CurrentSkipsFailedOnly
    <3>1. pool.current \in 1..Len(pool.blocks)
      BY <2>2 DEF ChainInv, Ordered
    <3>2. ASSUME NEW j \in 1..Len(pool.blocks)
          PROVE  pool.blocks[j].failed > 5 <=> j < pool.current
      BY <2>2, <3>1, <3>2 DEF ChainInv, Ordered
    <3> QED  BY <2>2, <3>2 DEF ChainInv, Ordered, CurrentSkipsFailedOnly
  <2> QED  BY <2>1, <2>2 DEF ChainStateInv
<1> QED  BY InvInit, <1>1, <1>2, <1>3, PTL DEF Spec

=============================================================================
