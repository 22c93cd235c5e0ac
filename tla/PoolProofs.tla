----------------------------- MODULE PoolProofs -----------------------------
(***************************************************************************)
(* Proofs about Pool, for any block and request sizes, any number of       *)
(* blocks and any failures of the heap.                                    *)
(***************************************************************************)
EXTENDS Pool, SequenceTheorems, TLAPS

(* The blocks of a pool end on a word boundary.  Without this the claims
   below are false.                                                        *)
WholeWords == \A n \in PoolSizes : n % Word = 0

(* Aligning up never passes a word boundary that lies ahead.               *)
LEMMA AlignUpBounds ==
  ASSUME NEW n \in Nat
  PROVE  /\ AlignUp(n) \in Nat
         /\ n <= AlignUp(n)
         /\ \A end \in Nat : n <= end /\ end % Word = 0 => AlignUp(n) <= end
BY DEF AlignUp, Word

(* What keeps small requests apart: every byte granted from a block lies
   between its header and "last", and "last" never passes the end.         *)
Layout(P) ==
  /\ P.size >= PoolHdr /\ P.size % Word = 0
  /\ P.max <= P.size - PoolHdr
  /\ P.current \in 1..Len(P.blocks)
  /\ \A j \in 1..Len(P.blocks) :
       Header(j) <= P.blocks[j].last /\ P.blocks[j].last <= P.size
  /\ \A a \in P.allocs :
       /\ a.blk \in 1..Len(P.blocks)
       /\ Header(a.blk) <= a.from /\ a.from <= a.to /\ a.to <= P.size
       /\ a.from = a.to \/ a.to <= P.blocks[a.blk].last

PoolInv(P) == P \in Pools /\ Layout(P) /\ Apart(P)

(* What each field of a pool is.                                           *)
LEMMA PoolFields ==
  ASSUME NEW P \in Pools
  PROVE  /\ P.size \in Nat /\ P.max \in Nat /\ P.current \in Nat
         /\ P.blocks \in Seq(Blocks) /\ Len(P.blocks) \in Nat
         /\ DOMAIN P.blocks = 1..Len(P.blocks)
         /\ \A j \in 1..Len(P.blocks) :
              P.blocks[j].last \in Nat /\ P.blocks[j].failed \in Nat
         /\ P.allocs \in SUBSET Spans
         /\ \A a \in P.allocs : a.blk \in Nat /\ a.from \in Nat /\ a.to \in Nat
         /\ P.heap \in SUBSET Chunks
         /\ P.faults \in Nat /\ P.wild \in BOOLEAN
<1>1. P.blocks \in Seq(Blocks) /\ P.allocs \in SUBSET Spans
  BY DEF Pools
<1>2. /\ P.size \in Nat /\ P.max \in Nat /\ P.current \in Nat
      /\ P.heap \in SUBSET Chunks /\ P.faults \in Nat /\ P.wild \in BOOLEAN
  BY DEF Pools
<1>3. /\ Len(P.blocks) \in Nat /\ DOMAIN P.blocks = 1..Len(P.blocks)
      /\ \A j \in 1..Len(P.blocks) : P.blocks[j] \in Blocks
  BY <1>1, LenProperties, ElementOfSeq
<1> QED BY <1>1, <1>2, <1>3 DEF Blocks, Spans

LEMMA InvImpliesApart ==
  ASSUME NEW P, PoolInv(P)
  PROVE  InBounds(P) /\ Apart(P)
<1>1. Apart(P) /\ P \in Pools
  BY DEF PoolInv
<1>2. InBounds(P)
  BY DEF PoolInv, Layout, InBounds
<1> QED BY <1>1, <1>2

-----------------------------------------------------------------------------
(* The heart of the matter: room for a request is cut from block j, of the
   old chain or the new, behind everything granted from it before.         *)
LEMMA SpanAdded ==
  ASSUME NEW P \in Pools, NEW Q \in Pools, Layout(P), Apart(P),
         NEW j \in 1..Len(Q.blocks), NEW m \in Nat, NEW size \in Nat,
         Header(j) <= m, m + size <= P.size,
         j \in 1..Len(P.blocks) => P.blocks[j].last <= m,
         Q.size = P.size, Q.max = P.max, Q.current \in 1..Len(Q.blocks),
         Len(P.blocks) <= Len(Q.blocks),
         Q.blocks[j].last = m + size,
         \A i \in 1..Len(Q.blocks) :
           i # j => i \in 1..Len(P.blocks) /\ Q.blocks[i].last = P.blocks[i].last,
         Q.allocs = P.allocs \cup {Span(j, m, size)}
  PROVE  PoolInv(Q)
<1> DEFINE new == Span(j, m, size)
<1>1. new.blk = j /\ new.from = m /\ new.to = m + size
  BY DEF Span
<1>2. ASSUME NEW i \in 1..Len(Q.blocks)
      PROVE  Header(i) <= Q.blocks[i].last /\ Q.blocks[i].last <= Q.size
  <2>1. CASE i = j
    BY <2>1, PoolFields DEF Header, PoolHdr, DataHdr
  <2>2. CASE i # j
    BY <2>2 DEF Layout
  <2> QED BY <2>1, <2>2
<1>3. ASSUME NEW a \in P.allocs
      PROVE  /\ a.blk \in 1..Len(Q.blocks) /\ Header(a.blk) <= a.from
             /\ a.from <= a.to /\ a.to <= Q.size
             /\ a.from = a.to \/ a.to <= Q.blocks[a.blk].last
             /\ a.blk = j => a.from = a.to \/ a.to <= m
  <2>1. /\ a.blk \in 1..Len(P.blocks) /\ Header(a.blk) <= a.from
        /\ a.from <= a.to /\ a.to <= P.size
        /\ a.from = a.to \/ a.to <= P.blocks[a.blk].last
    BY DEF Layout
  <2>2. a.blk \in 1..Len(Q.blocks)
    BY <2>1, PoolFields
  <2>3. CASE a.blk = j /\ a.from # a.to
    <3>1. P.blocks[j].last <= m /\ a.to <= P.blocks[j].last
      BY <2>1, <2>3
    <3>2. P.blocks[j].last \in Nat /\ a.to \in Nat
      BY <2>1, <2>3, PoolFields
    <3>3. a.to <= m
      BY <3>1, <3>2
    <3>4. a.to <= Q.blocks[a.blk].last
      BY <2>3, <3>2, <3>3
    <3> QED BY <2>1, <2>2, <3>3, <3>4
  <2>4. CASE a.blk # j
    BY <2>1, <2>2, <2>4
  <2>5. CASE a.from = a.to
    BY <2>1, <2>2, <2>5
  <2> QED BY <2>3, <2>4, <2>5
<1>4. Layout(Q)
  <2>1. /\ Q.size >= PoolHdr /\ Q.size % Word = 0 /\ Q.max <= Q.size - PoolHdr
    BY DEF Layout
  <2>2. ASSUME NEW a \in Q.allocs
        PROVE  /\ a.blk \in 1..Len(Q.blocks) /\ Header(a.blk) <= a.from
               /\ a.from <= a.to /\ a.to <= Q.size
               /\ a.from = a.to \/ a.to <= Q.blocks[a.blk].last
    <3>1. CASE a = new
      BY <1>1, <3>1
    <3>2. CASE a \in P.allocs
      BY <1>3, <3>2
    <3> QED BY <3>1, <3>2
  <2> QED BY <1>2, <2>1, <2>2 DEF Layout
<1>5. Apart(Q)
  <2> SUFFICES ASSUME NEW a \in Q.allocs, NEW b \in Q.allocs, a # b, a.blk = b.blk,
                      a.from # a.to, b.from # b.to
               PROVE  a.to <= b.from \/ b.to <= a.from
    BY DEF Apart
  <2>1. CASE a \in P.allocs /\ b \in P.allocs
    BY <2>1 DEF Apart
  <2>2. CASE a = new /\ b \in P.allocs
    BY <1>1, <1>3, <2>2
  <2>3. CASE b = new /\ a \in P.allocs
    BY <1>1, <1>3, <2>3
  <2> QED BY <2>1, <2>2, <2>3
<1> QED BY <1>4, <1>5 DEF PoolInv

LEMMA TakeKeeps ==
  ASSUME NEW P, PoolInv(P), NEW j \in 1..Len(P.blocks), NEW size \in Nat,
         NEW align \in BOOLEAN, Fits(P, j, size, align)
  PROVE  PoolInv(Take(P, j, size, align).pool)
<1> DEFINE m == Start(P, j, align)
           Q == [P EXCEPT !.blocks[j].last = m + size,
                          !.allocs = @ \cup {Span(j, m, size)}]
<1>1. P \in Pools /\ Layout(P) /\ Apart(P)
  BY DEF PoolInv
<1>2. P.blocks[j].last \in Nat /\ P.size \in Nat /\ P.blocks \in Seq(Blocks)
  BY <1>1, PoolFields
<1>3. P.blocks[j].last <= P.size /\ Header(j) <= P.blocks[j].last /\ P.size % Word = 0
  BY <1>1 DEF Layout
<1>4. m \in Nat /\ P.blocks[j].last <= m /\ m <= P.size
  <2>1. /\ AlignUp(P.blocks[j].last) \in Nat /\ P.blocks[j].last <= AlignUp(P.blocks[j].last)
        /\ AlignUp(P.blocks[j].last) <= P.size
    BY <1>2, <1>3, AlignUpBounds
  <2>2. m = AlignUp(P.blocks[j].last) \/ m = P.blocks[j].last
    BY DEF Start
  <2> QED BY <1>2, <1>3, <2>1, <2>2
<1>5. m + size <= P.size /\ Header(j) <= m
  BY <1>2, <1>3, <1>4 DEF Fits, Header, PoolHdr, DataHdr
<1>6. P.blocks[j] \in Blocks /\ [P.blocks[j] EXCEPT !.last = m + size] \in Blocks
  <2>1. P.blocks[j] \in Blocks
    BY <1>2, ElementOfSeq
  <2>2. m + size \in Nat
    BY <1>4
  <2> QED BY <2>1, <2>2 DEF Blocks
<1> DEFINE bs == [P.blocks EXCEPT ![j] = [P.blocks[j] EXCEPT !.last = m + size]]
<1>7. bs \in Seq(Blocks) /\ Len(bs) = Len(P.blocks)
  BY <1>2, <1>6
<1>8. Span(j, m, size) \in Spans
  BY <1>1, <1>4, PoolFields DEF Span, Spans
<1>9. Q = [P EXCEPT !.blocks = bs, !.allocs = P.allocs \cup {Span(j, m, size)}]
  BY <1>1 DEF Pools
<1>10. /\ Q \in Pools /\ Q.blocks = bs /\ Q.allocs = P.allocs \cup {Span(j, m, size)}
       /\ Q.size = P.size /\ Q.max = P.max /\ Q.current = P.current
  BY <1>1, <1>7, <1>8, <1>9 DEF Pools
<1>11. /\ Q.blocks[j].last = m + size
       /\ \A i \in 1..Len(P.blocks) : i # j => Q.blocks[i] = P.blocks[i]
  BY <1>2, <1>6, <1>10, SMTT(30) DEF Blocks
<1>12. Q.current \in 1..Len(Q.blocks)
  BY <1>1, <1>7, <1>10 DEF Layout
<1>13. PoolInv(Q)
  <2>1. j \in 1..Len(Q.blocks) /\ Len(P.blocks) <= Len(Q.blocks)
    BY <1>1, <1>7, <1>10, PoolFields
  <2>2. \A i \in 1..Len(Q.blocks) :
          i # j => i \in 1..Len(P.blocks) /\ Q.blocks[i].last = P.blocks[i].last
    BY <1>7, <1>10, <1>11
  <2> HIDE DEF Q, m
  <2> QED BY <1>1, <1>4, <1>5, <1>10, <1>11, <1>12, <2>1, <2>2, SpanAdded
<1> QED BY <1>13 DEF Take, Got

(* Small requests leave the lists of the pool alone.                       *)
SameLists(P, Q) ==
  /\ Q.size = P.size /\ Q.max = P.max
  /\ Q.large = P.large /\ Q.cleanup = P.cleanup /\ Q.heap = P.heap

(* pool->current stays inside the chain, the new block included.           *)
LEMMA SkipInChain ==
  ASSUME NEW P \in Pools, Layout(P), NEW c \in Skip(P)
  PROVE  c \in 1..Len(P.blocks)
<1>1. P.current \in 1..Len(P.blocks) /\ Len(P.blocks) \in Nat
  BY PoolFields DEF Layout
<1>2. \/ c = P.current
      \/ \E i \in P.current..(Len(P.blocks) - 1) : c = i + 1
  BY DEF Skip, LastOf
<1> QED BY <1>1, <1>2

LEMMA CountFailuresKeepsLast ==
  ASSUME NEW P \in Pools
  PROVE  /\ CountFailures(P) \in Seq(Blocks)
         /\ Len(CountFailures(P)) = Len(P.blocks)
         /\ \A i \in 1..Len(P.blocks) : CountFailures(P)[i].last = P.blocks[i].last
<1> DEFINE n == Len(P.blocks)
<1>1. n \in Nat /\ \A i \in 1..n : P.blocks[i] \in Blocks
  BY PoolFields, ElementOfSeq
<1>2. ASSUME NEW i \in 1..n
      PROVE  CountFailures(P)[i] \in Blocks /\ CountFailures(P)[i].last = P.blocks[i].last
  <2>1. CountFailures(P)[i] \in {P.blocks[i], [P.blocks[i] EXCEPT !.failed = @ + 1]}
    BY DEF CountFailures
  <2> QED BY <1>1, <2>1 DEF Blocks
<1>3. CountFailures(P) = [i \in 1..n |-> CountFailures(P)[i]]
  BY DEF CountFailures
<1>4. CountFailures(P) \in [1..n -> Blocks]
  BY <1>2, <1>3
<1>5. CountFailures(P) \in Seq(Blocks) /\ Len(CountFailures(P)) = n
  BY <1>1, <1>4, SeqDef
<1> QED BY <1>2, <1>5

LEMMA NewBlockKeeps ==
  ASSUME NEW P, PoolInv(P), NEW size \in Nat, size <= P.size - DataHdr,
         NEW r \in NewBlock(P, size)
  PROVE  /\ PoolInv(r.pool)
         /\ r.ptr \in (Nat \ {0}) \X Nat
         /\ SameLists(P, r.pool)
<1> DEFINE n  == Len(P.blocks) + 1
           b  == [last |-> DataHdr + size, failed |-> 0]
           bs == Append(CountFailures(P), b)
           as == P.allocs \cup {Span(n, DataHdr, size)}
<1>1. P \in Pools /\ Layout(P) /\ Apart(P) /\ P.size \in Nat /\ n \in Nat \ {0}
  BY PoolFields DEF PoolInv
<1>2. AlignUp(DataHdr) = DataHdr
  BY DEF AlignUp, Word, DataHdr
<1>3. PICK c \in Skip(P) :
        /\ r.pool = [P EXCEPT !.blocks = bs, !.current = c, !.allocs = as]
        /\ r.ptr = <<n, DataHdr>>
  <2>1. PICK c \in Skip(P) :
          r = Got([P EXCEPT
                !.blocks  = Append(CountFailures(P), [last |-> AlignUp(DataHdr) + size, failed |-> 0]),
                !.current = c,
                !.allocs  = P.allocs \cup {Span(n, AlignUp(DataHdr), size)}],
              <<n, AlignUp(DataHdr)>>)
    BY DEF NewBlock
  <2> QED BY <1>2, <2>1 DEF Got
<1> DEFINE Q == [P EXCEPT !.blocks = bs, !.current = c, !.allocs = as]
<1>4. c \in 1..Len(P.blocks) /\ c \in Nat
  BY <1>1, SkipInChain
<1>5. b \in Blocks /\ b.last = DataHdr + size
  BY DEF Blocks, DataHdr
<1>6. /\ bs \in Seq(Blocks) /\ Len(bs) = n /\ bs[n] = b
      /\ \A i \in 1..(n - 1) : bs[i] = CountFailures(P)[i]
  BY <1>1, <1>5, CountFailuresKeepsLast
<1>7. as \in SUBSET Spans
  BY <1>1, PoolFields DEF Span, Spans, DataHdr
<1>8. /\ Q \in Pools /\ Q.blocks = bs /\ Q.allocs = as /\ Q.current = c
      /\ Q.size = P.size /\ Q.max = P.max
  BY <1>1, <1>4, <1>6, <1>7 DEF Pools
<1>9. \A i \in 1..Len(bs) :
        i # n => i \in 1..Len(P.blocks) /\ bs[i].last = P.blocks[i].last
  BY <1>1, <1>6, CountFailuresKeepsLast
<1>10. n \notin 1..Len(P.blocks) /\ n # 1 /\ Len(P.blocks) <= n /\ c \in 1..n /\ n \in 1..n
  BY <1>1, <1>4, PoolFields
<1>11. Header(n) = DataHdr /\ DataHdr \in Nat /\ DataHdr + size <= P.size
  BY <1>1, <1>10 DEF Header, DataHdr
<1>12. PoolInv(Q)
  <2> HIDE DEF Q, bs, b, as, n
  <2>1. /\ n \in 1..Len(Q.blocks) /\ Header(n) <= DataHdr /\ Q.blocks[n].last = DataHdr + size
        /\ Q.current \in 1..Len(Q.blocks) /\ Len(P.blocks) <= Len(Q.blocks)
    BY <1>5, <1>6, <1>8, <1>10, <1>11
  <2>2. \A i \in 1..Len(Q.blocks) :
          i # n => i \in 1..Len(P.blocks) /\ Q.blocks[i].last = P.blocks[i].last
    BY <1>8, <1>9
  <2>3. Q.allocs = P.allocs \cup {Span(n, DataHdr, size)}
    BY <1>8 DEF as
  <2> QED BY <1>1, <1>8, <1>10, <1>11, <2>1, <2>2, <2>3, SpanAdded
<1>13. r.ptr \in (Nat \ {0}) \X Nat
  BY <1>1, <1>3, <1>11
<1>14. SameLists(P, r.pool)
  BY <1>1, <1>3 DEF SameLists, Pools
<1> HIDE DEF Q
<1> QED BY <1>3, <1>12, <1>13, <1>14 DEF Q

(* A failing heap call, and whatever touches only the lists, keeps the
   layout.                                                                 *)
LEMMA SameLayoutKeeps ==
  ASSUME NEW P, PoolInv(P), NEW Q \in Pools,
         Q.size = P.size, Q.max = P.max, Q.blocks = P.blocks,
         Q.current = P.current, Q.allocs = P.allocs
  PROVE  PoolInv(Q)
BY DEF PoolInv, Layout, Apart

LEMMA MemalignFailsKeeps ==
  ASSUME NEW P, PoolInv(P), NEW r \in MemalignFails(P)
  PROVE  PoolInv(r.pool) /\ r.ptr = Null /\ SameLists(P, r.pool)
<1>1. P \in Pools /\ P.faults \in Nat
  BY PoolFields DEF PoolInv
<1>2. PICK w \in BOOLEAN :
        r.pool = [P EXCEPT !.faults = P.faults + 1, !.wild = w] /\ r.ptr = Null
  <2>1. PICK w \in BOOLEAN : r = Got([P EXCEPT !.faults = P.faults + 1, !.wild = w], Null)
    BY Zenon DEF MemalignFails
  <2> QED BY <2>1 DEF Got
<1>3. r.pool \in Pools
  <2>1. P.faults + 1 \in Nat
    BY <1>1
  <2> QED BY <1>1, <1>2, <2>1, Zenon DEF Pools
<1>4. /\ SameLists(P, r.pool) /\ r.pool.blocks = P.blocks
      /\ r.pool.current = P.current /\ r.pool.allocs = P.allocs
  BY <1>1, <1>2 DEF SameLists, Pools
<1> QED BY <1>2, <1>3, <1>4, SameLayoutKeeps DEF SameLists

LEMMA MallocFailsKeeps ==
  ASSUME NEW P, PoolInv(P), NEW r \in MallocFails(P)
  PROVE  PoolInv(r.pool) /\ r.ptr = Null
<1>1. P \in Pools /\ P.faults \in Nat
  BY PoolFields DEF PoolInv
<1>2. r.pool = [P EXCEPT !.faults = P.faults + 1] /\ r.ptr = Null
  BY DEF MallocFails, Got
<1>3. r.pool \in Pools
  <2>1. P.faults + 1 \in Nat
    BY <1>1
  <2> QED BY <1>1, <1>2, <2>1, Zenon DEF Pools
<1>4. /\ SameLists(P, r.pool) /\ r.pool.blocks = P.blocks
      /\ r.pool.current = P.current /\ r.pool.allocs = P.allocs
  BY <1>1, <1>2 DEF SameLists, Pools
<1> QED BY <1>2, <1>3, <1>4, SameLayoutKeeps DEF SameLists

(* ngx_palloc_small keeps the layout for every request that a new block can
   hold.                                                                   *)
LEMMA PallocSmallKeeps ==
  ASSUME NEW P, PoolInv(P), NEW size \in Nat, size <= P.size - DataHdr,
         NEW align \in BOOLEAN, NEW r \in PallocSmall(P, size, align)
  PROVE  /\ PoolInv(r.pool) /\ SameLists(P, r.pool)
         /\ r.ptr = Null \/ r.ptr \in (Nat \ {0}) \X Nat
<1> DEFINE fits == {j \in P.current..Len(P.blocks) : Fits(P, j, size, align)}
<1>1. P \in Pools /\ P.current \in 1..Len(P.blocks)
  BY DEF PoolInv, Layout
<1>2. CASE fits # {}
  <2>1. PICK j \in fits : r = Take(P, j, size, align)
    BY <1>2 DEF PallocSmall, FirstOf
  <2>2. j \in 1..Len(P.blocks) /\ j \in Nat \ {0} /\ Fits(P, j, size, align)
    BY <1>1, <2>1, PoolFields
  <2>3. PoolInv(r.pool)
    BY <2>1, <2>2, TakeKeeps
  <2>4. SameLists(P, r.pool)
    BY <1>1, <2>1 DEF Take, Got, SameLists, Pools
  <2>5. P.blocks[j].last \in Nat
    BY <1>1, <2>2, PoolFields
  <2>6. Start(P, j, align) \in Nat
    BY <2>5, AlignUpBounds DEF Start
  <2>7. r.ptr \in (Nat \ {0}) \X Nat
    BY <2>1, <2>2, <2>6 DEF Take, Got
  <2> QED BY <2>3, <2>4, <2>7
<1>3. CASE fits = {}
  <2>1. r \in PallocBlock(P, size)
    BY <1>3 DEF PallocSmall
  <2>2. r \in MemalignFails(P) \/ r \in NewBlock(P, size)
    BY <2>1 DEF PallocBlock
  <2> QED BY <2>2, MemalignFailsKeeps, NewBlockKeeps
<1> QED BY <1>2, <1>3

-----------------------------------------------------------------------------
(* The functions that also work on the lists.                              *)
LEMMA HeapPointer ==
  ASSUME NEW c \in Chunks
  PROVE  Heap(c) \in Nat \X Nat
BY PoolAssumption DEF PoolAssumption, Heap

LEMMA HeapKeeps ==
  ASSUME NEW P, PoolInv(P), NEW h \in SUBSET Chunks
  PROVE  PoolInv([P EXCEPT !.heap = h]) /\ [P EXCEPT !.heap = h].size = P.size
<1> DEFINE Q == [P EXCEPT !.heap = h]
<1>1. P \in Pools
  BY DEF PoolInv
<1>2. Q \in Pools
  BY <1>1, Zenon DEF Pools
<1>3. /\ Q.size = P.size /\ Q.max = P.max /\ Q.blocks = P.blocks
      /\ Q.current = P.current /\ Q.allocs = P.allocs
  BY <1>1 DEF Pools
<1> HIDE DEF Q
<1>4. PoolInv(Q)
  BY <1>2, <1>3, SameLayoutKeeps
<1> QED BY <1>3, <1>4 DEF Q

LEMMA LargeKeeps ==
  ASSUME NEW P, PoolInv(P), NEW l \in Seq(Nodes)
  PROVE  PoolInv([P EXCEPT !.large = l])
<1> DEFINE Q == [P EXCEPT !.large = l]
<1>1. P \in Pools
  BY DEF PoolInv
<1>2. Q \in Pools
  BY <1>1, Zenon DEF Pools
<1>3. /\ Q.size = P.size /\ Q.max = P.max /\ Q.blocks = P.blocks
      /\ Q.current = P.current /\ Q.allocs = P.allocs
  BY <1>1 DEF Pools
<1> HIDE DEF Q
<1>4. PoolInv(Q)
  BY <1>2, <1>3, SameLayoutKeeps
<1> QED BY <1>4 DEF Q

LEMMA CleanupKeeps ==
  ASSUME NEW P, PoolInv(P), NEW l \in Seq(Nodes)
  PROVE  PoolInv([P EXCEPT !.cleanup = l])
<1> DEFINE Q == [P EXCEPT !.cleanup = l]
<1>1. P \in Pools
  BY DEF PoolInv
<1>2. Q \in Pools
  BY <1>1, Zenon DEF Pools
<1>3. /\ Q.size = P.size /\ Q.max = P.max /\ Q.blocks = P.blocks
      /\ Q.current = P.current /\ Q.allocs = P.allocs
  BY <1>1 DEF Pools
<1> HIDE DEF Q
<1>4. PoolInv(Q)
  BY <1>2, <1>3, SameLayoutKeeps
<1> QED BY <1>4 DEF Q

LEMMA Prepend ==
  ASSUME NEW n \in Nodes, NEW l \in Seq(Nodes)
  PROVE  <<n>> \o l \in Seq(Nodes)
OBVIOUS

LEMMA PoolLists ==
  ASSUME NEW P \in Pools
  PROVE  P.large \in Seq(Nodes) /\ P.cleanup \in Seq(Nodes)
BY DEF Pools

Pointers == Nat \X Nat

LEMMA NullPointer == Null \in Pointers
BY DEF Null, Pointers

LEMMA AddNodeKeeps ==
  ASSUME NEW P, PoolInv(P), NEW c \in Chunks, NEW r \in AddNode(P, c)
  PROVE  PoolInv(r.pool) /\ r.ptr \in Pointers /\ r.pool.size = P.size /\ r.pool.max = P.max
<1> DEFINE H == [P EXCEPT !.heap = P.heap \cup {c}]
<1>0. P \in Pools /\ P.heap \cup {c} \in SUBSET Chunks /\ P.size >= PoolHdr
  BY PoolFields DEF PoolInv, Layout
<1>1. PoolInv(H) /\ H.size = P.size /\ H.max = P.max
  BY <1>0, HeapKeeps DEF Pools
<1>2. PICK s \in PallocSmall(H, LargeHdr, TRUE) :
        r = IF s.ptr = Null THEN Got([s.pool EXCEPT !.heap = s.pool.heap \ {c}], Null)
            ELSE Got(Insert(s.pool, s.ptr, c), Heap(c))
  BY Zenon DEF AddNode
<1>3. LargeHdr \in Nat /\ LargeHdr <= H.size - DataHdr /\ Null \in Pointers
  BY <1>0, <1>1, PoolFields DEF LargeHdr, DataHdr, PoolHdr, Null, Pointers
<1> HIDE DEF H
<1>4. /\ PoolInv(s.pool) /\ SameLists(H, s.pool)
      /\ s.ptr = Null \/ s.ptr \in Pointers
  BY <1>1, <1>3, PallocSmallKeeps DEF Pointers
<1>5. s.pool \in Pools /\ s.pool.size = P.size /\ s.pool.max = P.max
  BY <1>1, <1>4 DEF SameLists, PoolInv
<1>6. CASE s.ptr = Null
  <2> DEFINE h == s.pool.heap \ {c}
  <2>1. h \in SUBSET Chunks
    BY <1>5, PoolFields
  <2>2. r.pool = [s.pool EXCEPT !.heap = h] /\ r.ptr = Null
    BY <1>2, <1>6 DEF Got
  <2> HIDE DEF h
  <2>3. PoolInv(r.pool)
    BY <1>4, <2>1, <2>2, HeapKeeps
  <2>4. r.pool.size = s.pool.size /\ r.pool.max = s.pool.max
    BY <1>5, <2>2 DEF Pools
  <2> QED BY <1>3, <1>5, <2>2, <2>3, <2>4
<1>7. CASE s.ptr # Null
  <2> DEFINE l == <<[node |-> s.ptr, alloc |-> Heap(c)]>> \o s.pool.large
  <2>1. l \in Seq(Nodes)
    BY <1>4, <1>5, <1>7, HeapPointer, PoolLists, Prepend DEF Nodes, Pointers
  <2>2. r.pool = [s.pool EXCEPT !.large = l] /\ r.ptr = Heap(c)
    BY <1>2, <1>7 DEF Got, Insert
  <2> HIDE DEF l
  <2>3. PoolInv(r.pool)
    BY <1>4, <2>1, <2>2, LargeKeeps
  <2>4. r.pool.size = s.pool.size /\ r.pool.max = s.pool.max
    BY <1>5, <2>2 DEF Pools
  <2> QED BY <1>5, <2>2, <2>3, <2>4, HeapPointer DEF Pointers
<1> QED BY <1>6, <1>7

LEMMA PlaceLargeKeeps ==
  ASSUME NEW P, PoolInv(P), NEW c \in Chunks, NEW r \in PlaceLarge(P, c)
  PROVE  PoolInv(r.pool) /\ r.ptr \in Pointers /\ r.pool.size = P.size /\ r.pool.max = P.max
<1>0. P \in Pools /\ P.heap \cup {c} \in SUBSET Chunks
  BY PoolFields DEF PoolInv
<1>1. PICK k \in 1..5 :
        \/ \E i \in FirstOf(Empty(P, k)) :
             r = Got([P EXCEPT !.heap = P.heap \cup {c}, !.large[i].alloc = Heap(c)], Heap(c))
        \/ r \in AddNode(P, c)
  BY DEF PlaceLarge
<1>2. ASSUME NEW i \in FirstOf(Empty(P, k)),
             r = Got([P EXCEPT !.heap = P.heap \cup {c}, !.large[i].alloc = Heap(c)], Heap(c))
      PROVE  PoolInv(r.pool) /\ r.ptr \in Pointers /\ r.pool.size = P.size /\ r.pool.max = P.max
  <2> DEFINE n == [P.large[i] EXCEPT !.alloc = Heap(c)]
             l == [P.large EXCEPT ![i] = n]
             H == [P EXCEPT !.heap = P.heap \cup {c}]
  <2>1. i \in 1..Len(P.large) /\ P.large \in Seq(Nodes)
    BY <1>0, PoolLists DEF FirstOf, Empty
  <2>2. P.large[i] \in Nodes
    BY <2>1, ElementOfSeq
  <2>3. n \in Nodes
    BY <2>2, HeapPointer DEF Nodes
  <2>4. l \in Seq(Nodes)
    BY <2>1, <2>3
  <2>5. PoolInv(H) /\ H.size = P.size /\ H.max = P.max /\ H \in Pools
    BY <1>0, HeapKeeps DEF Pools, PoolInv
  <2>6. r.pool = [H EXCEPT !.large = l] /\ r.ptr = Heap(c)
    BY <1>0, <1>2 DEF Got, Pools
  <2> HIDE DEF l, H
  <2>7. PoolInv(r.pool) /\ r.pool.size = H.size /\ r.pool.max = H.max
    BY <2>4, <2>5, <2>6, LargeKeeps DEF Pools
  <2> QED BY <2>5, <2>6, <2>7, HeapPointer DEF Pointers
<1> QED BY <1>1, <1>2, AddNodeKeeps

LEMMA PallocLargeKeeps ==
  ASSUME NEW P, PoolInv(P), NEW r \in PallocLarge(P)
  PROVE  PoolInv(r.pool) /\ r.ptr \in Pointers
<1>1. r \in MallocFails(P) \/ \E c \in Chunks : r \in PlaceLarge(P, c)
  BY DEF PallocLarge
<1>2. CASE r \in MallocFails(P)
  BY <1>2, MallocFailsKeeps, NullPointer
<1>3. ASSUME NEW c \in Chunks, r \in PlaceLarge(P, c)
      PROVE  PoolInv(r.pool) /\ r.ptr \in Pointers
  BY <1>3, PlaceLargeKeeps
<1> QED BY <1>1, <1>2, <1>3

LEMMA RequestKeeps ==
  ASSUME NEW P, PoolInv(P), NEW size \in Nat, NEW align \in BOOLEAN,
         NEW r \in Request(P, size, align)
  PROVE  PoolInv(r.pool) /\ r.ptr \in Pointers
<1>1. CASE size <= P.max
  <2>1. P.max \in Nat /\ P.size \in Nat /\ P.max <= P.size - PoolHdr
    BY PoolFields DEF PoolInv, Layout
  <2>2. size <= P.size - DataHdr
    BY <1>1, <2>1 DEF PoolHdr, DataHdr
  <2>3. r \in PallocSmall(P, size, align)
    BY <1>1 DEF Request
  <2>4. PoolInv(r.pool) /\ (r.ptr = Null \/ r.ptr \in (Nat \ {0}) \X Nat)
    BY <2>2, <2>3, PallocSmallKeeps
  <2> QED BY <2>4, NullPointer DEF Pointers
<1>2. CASE ~(size <= P.max)
  BY <1>2, PallocLargeKeeps DEF Request
<1> QED BY <1>1, <1>2

LEMMA PmemalignKeeps ==
  ASSUME NEW P, PoolInv(P), NEW r \in Pmemalign(P)
  PROVE  PoolInv(r.pool)
<1>1. r \in MemalignFails(P) \/ \E c \in Chunks : r \in AddNode(P, c)
  BY DEF Pmemalign
<1>2. CASE r \in MemalignFails(P)
  BY <1>2, MemalignFailsKeeps
<1>3. ASSUME NEW c \in Chunks, r \in AddNode(P, c) PROVE PoolInv(r.pool)
  BY <1>3, AddNodeKeeps
<1> QED BY <1>1, <1>2, <1>3

LEMMA RegisterKeeps ==
  ASSUME NEW P, PoolInv(P), NEW a \in Pointers, NEW b \in Pointers
  PROVE  PoolInv([P EXCEPT !.cleanup = <<[node |-> a, alloc |-> b]>> \o P.cleanup])
<1>1. [node |-> a, alloc |-> b] \in Nodes
  BY DEF Nodes, Pointers
<1>2. <<[node |-> a, alloc |-> b]>> \o P.cleanup \in Seq(Nodes)
  BY <1>1, PoolLists, Prepend DEF PoolInv
<1> QED BY <1>2, CleanupKeeps

LEMMA CleanupAddKeeps ==
  ASSUME NEW P, PoolInv(P), NEW size \in Nat, NEW r \in CleanupAdd(P, size)
  PROVE  PoolInv(r.pool)
<1>1. PICK s \in Palloc(P, CleanupHdr) :
        \/ s.ptr = Null /\ r = s
        \/ /\ s.ptr # Null /\ size = 0
           /\ r = Got([s.pool EXCEPT !.cleanup = <<[node |-> s.ptr, alloc |-> Null]>> \o s.pool.cleanup], s.ptr)
        \/ /\ s.ptr # Null
           /\ \E d \in Palloc(s.pool, size) :
                \/ r = d
                \/ r = Got([d.pool EXCEPT !.cleanup = <<[node |-> s.ptr, alloc |-> d.ptr]>> \o d.pool.cleanup], s.ptr)
  BY DEF CleanupAdd
<1>2. PoolInv(s.pool) /\ s.ptr \in Pointers
  BY RequestKeeps DEF Palloc, CleanupHdr
<1>3. CASE s.ptr # Null /\ size = 0 /\
           r = Got([s.pool EXCEPT !.cleanup = <<[node |-> s.ptr, alloc |-> Null]>> \o s.pool.cleanup], s.ptr)
  BY <1>2, <1>3, RegisterKeeps, NullPointer DEF Got
<1>4. ASSUME NEW d \in Palloc(s.pool, size),
             \/ r = d
             \/ r = Got([d.pool EXCEPT !.cleanup = <<[node |-> s.ptr, alloc |-> d.ptr]>> \o d.pool.cleanup], s.ptr)
      PROVE  PoolInv(r.pool)
  <2>1. PoolInv(d.pool) /\ d.ptr \in Pointers
    BY <1>2, RequestKeeps DEF Palloc
  <2> QED BY <1>2, <1>4, <2>1, RegisterKeeps, SMTT(30) DEF Got
<1> QED BY <1>1, <1>2, <1>3, <1>4

LEMMA PfreeKeeps ==
  ASSUME NEW P, PoolInv(P), NEW c \in Chunks, NEW r \in Pfree(P, c)
  PROVE  PoolInv(r.pool)
<1> DEFINE holders == {i \in 1..Len(P.large) : P.large[i].alloc = Heap(c)}
           h == P.heap \ {c}
<1>0. P \in Pools /\ h \in SUBSET Chunks
  BY PoolFields DEF PoolInv
<1>1. CASE holders = {}
  BY <1>1 DEF Pfree, Got
<1>2. CASE holders # {}
  <2>1. PICK i \in FirstOf(holders) :
          r = Got([P EXCEPT !.heap = h, !.large[i].alloc = Null], Null)
    BY <1>2, Zenon DEF Pfree
  <2> DEFINE n == [P.large[i] EXCEPT !.alloc = Null]
             l == [P.large EXCEPT ![i] = n]
             H == [P EXCEPT !.heap = h]
  <2>2. i \in 1..Len(P.large) /\ P.large \in Seq(Nodes)
    BY <1>0, PoolLists DEF FirstOf
  <2>3. P.large[i] \in Nodes
    BY <2>2, ElementOfSeq
  <2>4. n \in Nodes
    BY <2>3, NullPointer DEF Nodes, Pointers
  <2>5. l \in Seq(Nodes)
    BY <2>2, <2>4
  <2>6. PoolInv(H)
    BY <1>0, HeapKeeps
  <2>7. r.pool = [H EXCEPT !.large = l]
    BY <1>0, <2>1 DEF Got, Pools
  <2> HIDE DEF l, H
  <2> QED BY <2>5, <2>6, <2>7, LargeKeeps
<1> QED BY <1>1, <1>2

LEMMA ResetKeeps ==
  ASSUME NEW P, PoolInv(P)
  PROVE  PoolInv(Reset(P))
<1> DEFINE Q  == Reset(P)
           b  == [last |-> PoolHdr, failed |-> 0]
           bs == [j \in 1..Len(P.blocks) |-> b]
<1>1. /\ P \in Pools /\ P.size >= PoolHdr /\ P.size % Word = 0 /\ P.max <= P.size - PoolHdr
      /\ P.current \in 1..Len(P.blocks) /\ Len(P.blocks) \in Nat /\ P.size \in Nat
  BY PoolFields DEF PoolInv, Layout
<1>2. b \in Blocks /\ b.last = PoolHdr /\ PoolHdr \in Nat
  BY DEF Blocks, PoolHdr
<1>3. bs \in Seq(Blocks) /\ Len(bs) = Len(P.blocks) /\ \A j \in 1..Len(P.blocks) : bs[j] = b
  BY <1>1, <1>2, SeqDef
<1>4. P.heap \ Owned(P) \in SUBSET Chunks
  BY <1>1, PoolFields
<1> HIDE DEF bs, b
<1>5. Q = [P EXCEPT !.heap = P.heap \ Owned(P), !.blocks = bs, !.current = 1,
                    !.large = <<>>, !.allocs = {}]
  BY DEF Reset, bs, b
<1>6. Q \in Pools
  <2>1. <<>> \in Seq(Nodes) /\ {} \in SUBSET Spans /\ 1 \in Nat
    BY EmptySeq
  <2> QED BY <1>1, <1>3, <1>4, <1>5, <2>1, Zenon DEF Pools
<1>7. /\ Q.blocks = bs /\ Q.current = 1 /\ Q.allocs = {}
      /\ Q.size = P.size /\ Q.max = P.max
  BY <1>1, <1>5 DEF Pools
<1>8. \A j \in 1..Len(Q.blocks) : Header(j) <= Q.blocks[j].last /\ Q.blocks[j].last <= Q.size
  BY <1>1, <1>2, <1>3, <1>7 DEF Header, PoolHdr, DataHdr
<1>9. 1 \in 1..Len(Q.blocks)
  BY <1>1, <1>3, <1>7
<1> QED BY <1>1, <1>6, <1>7, <1>8, <1>9 DEF PoolInv, Layout, Apart

LEMMA CreateKeeps ==
  ASSUME NEW size \in PoolSizes, WholeWords
  PROVE  PoolInv(Create(size))
<1> DEFINE Q  == Create(size)
           b  == [last |-> PoolHdr, failed |-> 0]
           mx == IF size - PoolHdr < PageSize - 1 THEN size - PoolHdr ELSE PageSize - 1
<1>1. /\ size \in Nat /\ size >= PoolHdr /\ size % Word = 0
      /\ mx \in Nat /\ mx <= size - PoolHdr
  BY PoolAssumption DEF PoolAssumption, WholeWords, PoolHdr
<1>2. b \in Blocks /\ b.last = PoolHdr
  BY DEF Blocks, PoolHdr
<1> HIDE DEF b, mx
<1>3. <<b>> \in Seq(Blocks) /\ Len(<<b>>) = 1 /\ <<b>>[1] = b
  BY <1>2
<1>4. NoPool \in Pools
  <2>1. <<>> \in Seq(Nodes) /\ <<>> \in Seq(Blocks)
    BY EmptySeq
  <2>2. {} \in SUBSET Spans /\ {} \in SUBSET Chunks /\ 0 \in Nat /\ 1 \in Nat
    OBVIOUS
  <2> QED BY <2>1, <2>2 DEF NoPool, Pools
<1>5. Q = [NoPool EXCEPT !.size = size, !.max = mx, !.blocks = <<b>>]
  BY DEF Create, b, mx
<1>6. Q \in Pools
  BY <1>1, <1>3, <1>4, <1>5, Zenon DEF Pools
<1>7. /\ Q.size = size /\ Q.max = mx /\ Q.blocks = <<b>>
      /\ Q.current = 1 /\ Q.allocs = {}
  BY <1>5 DEF NoPool
<1> HIDE DEF Q
<1>8. Layout(Q) /\ Apart(Q)
  <2>1. \A j \in 1..Len(Q.blocks) : j = 1 /\ Q.blocks[j].last = PoolHdr
    BY <1>2, <1>3, <1>7
  <2>2. \A j \in 1..Len(Q.blocks) : Header(j) <= Q.blocks[j].last /\ Q.blocks[j].last <= Q.size
    BY <1>1, <1>7, <2>1 DEF Header, PoolHdr
  <2>3. Q.current \in 1..Len(Q.blocks)
    BY <1>3, <1>7
  <2> QED BY <1>1, <1>7, <2>2, <2>3 DEF Layout, Apart
<1> QED BY <1>6, <1>8 DEF PoolInv, Q

-----------------------------------------------------------------------------
Inv ==
  /\ life = "none" => pool \in Pools /\ pool.allocs = {}
  /\ life # "none" => PoolInv(pool)

LEMMA BecomesKeeps ==
  ASSUME NEW outcomes, Becomes(outcomes), \A r \in outcomes : PoolInv(r.pool)
  PROVE  Inv'
BY DEF Becomes, Inv

LEMMA InvStep == WholeWords /\ Inv /\ [Next]_vars => Inv'
<1> SUFFICES ASSUME WholeWords, Inv, [Next]_vars PROVE Inv'
  OBVIOUS
<1>0. life = "live" => PoolInv(pool)
  BY DEF Inv
<1>1. CASE ngx_create_pool
  <2>1. ASSUME NEW size \in PoolSizes, life' = "live", pool' = Create(size) PROVE Inv'
    BY <2>1, CreateKeeps DEF Inv
  <2>2. ASSUME NEW r \in MemalignFails(pool), life = "none", life' = "none", pool' = r.pool PROVE Inv'
    <3>1. pool \in Pools /\ pool.faults \in Nat /\ pool.allocs = {}
      BY <2>2, PoolFields DEF Inv
    <3>2. PICK w \in BOOLEAN : r = Got([pool EXCEPT !.faults = pool.faults + 1, !.wild = w], Null)
      BY <2>2, Zenon DEF MemalignFails
    <3>3. pool.faults + 1 \in Nat
      BY <3>1
    <3>4. pool' = [pool EXCEPT !.faults = pool.faults + 1, !.wild = w]
      BY <2>2, <3>2 DEF Got
    <3>5. pool' \in Pools
      BY <3>1, <3>3, <3>4, Zenon DEF Pools
    <3>6. pool'.allocs = {}
      BY <3>1, <3>4 DEF Pools
    <3> QED BY <2>2, <3>5, <3>6 DEF Inv
  <2> QED BY <1>1, <2>1, <2>2 DEF ngx_create_pool
<1>2. CASE ngx_palloc
  <2>1. PICK size \in Sizes : Becomes(Palloc(pool, size))
    BY <1>2 DEF ngx_palloc
  <2>2. size \in Nat
    BY PoolAssumption DEF PoolAssumption
  <2>3. \A r \in Palloc(pool, size) : PoolInv(r.pool)
    BY <1>0, <2>1, <2>2, RequestKeeps DEF Becomes, Palloc
  <2> QED BY <2>1, <2>3, BecomesKeeps
<1>3. CASE ngx_pnalloc
  <2>1. PICK size \in Sizes : Becomes(Pnalloc(pool, size))
    BY <1>3 DEF ngx_pnalloc
  <2>2. size \in Nat
    BY PoolAssumption DEF PoolAssumption
  <2>3. \A r \in Pnalloc(pool, size) : PoolInv(r.pool)
    BY <1>0, <2>1, <2>2, RequestKeeps DEF Becomes, Pnalloc
  <2> QED BY <2>1, <2>3, BecomesKeeps
<1>4. CASE ngx_pmemalign
  <2>1. Becomes(Pmemalign(pool)) /\ life = "live"
    BY <1>4 DEF ngx_pmemalign, Becomes
  <2>2. \A r \in Pmemalign(pool) : PoolInv(r.pool)
    BY <1>0, <2>1, PmemalignKeeps
  <2> QED BY <2>1, <2>2, BecomesKeeps
<1>5. CASE ngx_pfree
  <2>1. PICK c \in Chunks : Becomes(Pfree(pool, c))
    BY <1>5 DEF ngx_pfree
  <2>2. \A r \in Pfree(pool, c) : PoolInv(r.pool)
    BY <1>0, <2>1, PfreeKeeps DEF Becomes
  <2> QED BY <2>1, <2>2, BecomesKeeps
<1>6. CASE ngx_pool_cleanup_add
  <2>1. PICK size \in CleanupSizes : Becomes(CleanupAdd(pool, size))
    BY <1>6 DEF ngx_pool_cleanup_add
  <2>2. size \in Nat
    BY PoolAssumption DEF PoolAssumption
  <2>3. \A r \in CleanupAdd(pool, size) : PoolInv(r.pool)
    BY <1>0, <2>1, <2>2, CleanupAddKeeps DEF Becomes
  <2> QED BY <2>1, <2>3, BecomesKeeps
<1>7. CASE ngx_reset_pool
  <2>1. Becomes({Got(Reset(pool), Null)}) /\ life = "live"
    BY <1>7 DEF ngx_reset_pool, Becomes
  <2>2. \A r \in {Got(Reset(pool), Null)} : PoolInv(r.pool)
    BY <1>0, <2>1, ResetKeeps DEF Got
  <2> QED BY <2>1, <2>2, BecomesKeeps
<1>8. CASE ngx_destroy_pool
  <2>1. PoolInv(pool) /\ pool.heap \ Owned(pool) \in SUBSET Chunks
    BY <1>0, <1>8, PoolFields DEF ngx_destroy_pool, PoolInv
  <2>2. PoolInv([pool EXCEPT !.heap = pool.heap \ Owned(pool)])
    BY <2>1, HeapKeeps
  <2> QED BY <1>8, <2>2 DEF ngx_destroy_pool, Inv
<1>9. CASE UNCHANGED vars
  BY <1>9 DEF vars, Inv, PoolInv, Layout, Apart
<1> QED BY <1>1, <1>2, <1>3, <1>4, <1>5, <1>6, <1>7, <1>8, <1>9 DEF Next

LEMMA InvInit == Init => Inv
<1>1. <<>> \in Seq(Nodes) /\ <<>> \in Seq(Blocks)
  BY EmptySeq
<1>2. {} \in SUBSET Spans /\ {} \in SUBSET Chunks /\ 0 \in Nat /\ 1 \in Nat
  OBVIOUS
<1> QED BY <1>1, <1>2 DEF Init, Inv, NoPool, Pools

(* Small requests never overlap each other or a header and never leave their
   block, whatever is asked of the pool and however often the heap fails,
   provided that the sizes given to ngx_create_pool are whole words.       *)
THEOREM SmallRequestsStayApart ==
  ASSUME WholeWords
  PROVE  Spec => []SmallAllocationsApart
<1>1. Inv /\ [Next]_vars => Inv'
  BY InvStep
<1>2. Inv => SmallAllocationsApart
  <2>1. pool.allocs = {} => SmallAllocationsApart
    BY DEF SmallAllocationsApart, InBounds, Apart
  <2> QED BY <2>1, InvImpliesApart DEF Inv, SmallAllocationsApart
<1> QED BY InvInit, <1>1, <1>2, PTL DEF Spec

-----------------------------------------------------------------------------
(* The blocks given to free() are counted once, when the pool is destroyed. *)
FreesInv == life \in {"none", "live", "destroyed"} /\ frees \in Seq(Nat)

LEMMA FreesStep == Inv /\ FreesInv /\ [Next]_vars => FreesInv'
<1> SUFFICES ASSUME Inv, FreesInv, [Next]_vars PROVE FreesInv'
  OBVIOUS
<1>1. CASE ngx_destroy_pool
  <2>1. pool \in Pools
    BY <1>1 DEF ngx_destroy_pool, Inv, PoolInv
  <2>2. Len(pool.blocks) \in Nat
    BY <2>1, PoolFields
  <2>3. \A j \in 1..Len(pool.blocks) : (IF j = 1 THEN Len(pool.blocks) ELSE 0) \in Nat
    BY <2>2
  <2>4. frees' = [j \in 1..Len(pool.blocks) |-> IF j = 1 THEN Len(pool.blocks) ELSE 0]
    BY <1>1 DEF ngx_destroy_pool
  <2>5. frees' \in [1..Len(pool.blocks) -> Nat]
    BY <2>3, <2>4
  <2>6. frees' \in Seq(Nat)
    BY <2>2, <2>5 DEF Seq
  <2> QED BY <1>1, <2>6 DEF ngx_destroy_pool, FreesInv
<1>2. CASE ngx_create_pool
  BY <1>2 DEF ngx_create_pool, FreesInv
<1>3. ASSUME NEW outcomes, Becomes(outcomes) PROVE FreesInv'
  BY <1>3 DEF Becomes, FreesInv
<1>4. CASE ngx_palloc \/ ngx_pnalloc \/ ngx_pmemalign \/ ngx_pfree
           \/ ngx_pool_cleanup_add \/ ngx_reset_pool
  BY <1>3, <1>4, Zenon
     DEF ngx_palloc, ngx_pnalloc, ngx_pmemalign, ngx_pfree, ngx_pool_cleanup_add, ngx_reset_pool
<1>5. CASE UNCHANGED vars
  BY <1>5 DEF vars, FreesInv
<1> QED BY <1>1, <1>2, <1>4, <1>5 DEF Next

(* The chain, its lists, the chunks and the granted spans keep their types
   through every function of the pool.                                     *)
THEOREM PoolTypeCorrect ==
  ASSUME WholeWords
  PROVE  Spec => []TypeOK
<1>1. Init => FreesInv
  BY EmptySeq DEF Init, FreesInv
<1>2. Inv /\ FreesInv /\ [Next]_vars => Inv' /\ FreesInv'
  BY InvStep, FreesStep
<1>3. Inv /\ FreesInv => TypeOK
  BY DEF Inv, PoolInv, FreesInv, TypeOK
<1> QED BY InvInit, <1>1, <1>2, <1>3, PTL DEF Spec

=============================================================================
