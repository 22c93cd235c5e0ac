------------------------------- MODULE Queue -------------------------------
(***************************************************************************)
(* The circular doubly linked queue of src/core/ngx_queue.h.  A head and   *)
(* an element are the same structure of two pointers, and every operation  *)
(* is a macro: a list of assignments, each of which sees the ones before.  *)
(* An operation maps a pair of pointer functions [next, prev] to another.  *)
(***************************************************************************)
EXTENDS Integers, Sequences, FiniteSets

CONSTANTS
  Heads,     \* queue heads
  Elements,  \* structures embedded in the elements
  NULL,      \* the null pointer
  Debug      \* whether NGX_DEBUG is set: the values considered

ASSUME QueueAssumption ==
  /\ IsFiniteSet(Heads) /\ IsFiniteSet(Elements)
  /\ Heads \cap Elements = {}
  /\ NULL \notin Heads \cup Elements
  /\ Debug \subseteq BOOLEAN

VARIABLES
  link,    \* the pointers of every structure
  inUse,   \* initialised heads, and elements that are in a queue
  debug    \* NGX_DEBUG

vars == <<link, inUse, debug>>

Nodes == Heads \cup Elements

SetNext(L, n, m) == [L EXCEPT !.next[n] = m]
SetPrev(L, n, m) == [L EXCEPT !.prev[n] = m]

-----------------------------------------------------------------------------
InitHead(L, q) == SetNext(SetPrev(L, q, q), q, q)

InsertHead_Swapped(L, h, x) ==
  LET L1 == SetNext(L, h, x)
      L2 == SetNext(L1, x, L1.next[h])
      L3 == SetPrev(L2, L2.next[x], x)
  IN  SetPrev(L3, x, h)

\* The new element closes the ring at once: what was behind h is lost.
InsertHead_ForgetsRest(L, h, x) ==
  LET L1 == SetNext(L, x, h)
      L2 == SetPrev(L1, h, x)
      L3 == SetPrev(L2, x, h)
  IN  SetNext(L3, h, x)

\* ngx_queue_insert_head, and under another name ngx_queue_insert_after
InsertHead(L, h, x) ==
  LET L1 == SetNext(L, x, L.next[h])
      L2 == SetPrev(L1, L1.next[x], x)
      L3 == SetPrev(L2, x, h)
  IN  SetNext(L3, h, x)

InsertTail_AtHead(L, h, x) ==
  LET L1 == SetNext(L, x, L.next[h])
      L2 == SetPrev(L1, L1.next[x], x)
      L3 == SetPrev(L2, x, h)
  IN  SetNext(L3, h, x)

InsertTail(L, h, x) ==
  LET L1 == SetPrev(L, x, L.prev[h])
      L2 == SetNext(L1, L1.prev[x], x)
      L3 == SetNext(L2, x, h)
  IN  SetPrev(L3, h, x)

Unlink(L, x) ==
  LET L1 == SetPrev(L, L.next[x], L.prev[x])
  IN  SetNext(L1, L1.prev[x], L1.next[x])

\* Without NGX_DEBUG the pointers of the removed element stay as they are.
RemoveNode(L, x, clear) ==
  LET L1 == Unlink(L, x)
  IN  IF clear THEN SetNext(SetPrev(L1, x, NULL), x, NULL) ELSE L1

-----------------------------------------------------------------------------
Init ==
  /\ link = [next |-> [n \in Nodes |-> NULL], prev |-> [n \in Nodes |-> NULL]]
  /\ inUse = {}
  /\ debug \in Debug

\* A head is initialised before its first use, and may be again when empty.
ngx_queue_init(h) ==
  /\ h \in inUse => link.prev[h] = h
  /\ link' = InitHead(link, h)
  /\ inUse' = inUse \cup {h}
  /\ UNCHANGED debug

\* In front of n is a head or an element that is in a queue.
ngx_queue_insert_head(n, x) ==
  /\ n \in inUse /\ x \notin inUse
  /\ link' = InsertHead(link, n, x)
  /\ inUse' = inUse \cup {x}
  /\ UNCHANGED debug

ngx_queue_insert_tail(n, x) ==
  /\ n \in inUse /\ x \notin inUse
  /\ link' = InsertTail(link, n, x)
  /\ inUse' = inUse \cup {x}
  /\ UNCHANGED debug

ngx_queue_remove(x) ==
  /\ x \in inUse
  /\ link' = RemoveNode(link, x, debug)
  /\ inUse' = inUse \ {x}
  /\ UNCHANGED debug

\* ngx_queue_remove(ngx_queue_head(h)) and ngx_queue_remove(ngx_queue_last(h)),
\* guarded by !ngx_queue_empty(h)
RemoveFirst(h) == h \in inUse /\ link.prev[h] # h /\ ngx_queue_remove(link.next[h])
RemoveLast(h)  == h \in inUse /\ link.prev[h] # h /\ ngx_queue_remove(link.prev[h])

Next ==
  \/ \E h \in Heads : ngx_queue_init(h) \/ RemoveFirst(h) \/ RemoveLast(h)
  \/ \E n \in Nodes, x \in Elements : ngx_queue_insert_head(n, x) \/ ngx_queue_insert_tail(n, x)
  \/ \E x \in Elements : ngx_queue_remove(x)

Spec == Init /\ [][Next]_vars

-----------------------------------------------------------------------------
TypeOK ==
  /\ link \in [next : [Nodes -> Nodes \cup {NULL}], prev : [Nodes -> Nodes \cup {NULL}]]
  /\ inUse \subseteq Nodes
  /\ debug \in BOOLEAN

(* Whatever mixture of insertions at the head, at the tail and behind an
   element and of removals has happened, the pointers of everything that is
   in a queue form rings: next and prev are inverse to each other, and no
   queue leads to an element that was removed.                             *)
LinksInverse ==
  \A n \in inUse :
    /\ link.next[n] \in inUse /\ link.prev[link.next[n]] = n
    /\ link.prev[n] \in inUse /\ link.next[link.prev[n]] = n

(* Followed from a head, the next pointers give the contents of a queue.   *)
Walk(L, h) ==
  LET at[i \in 0..Cardinality(Nodes)] == IF i = 0 THEN h ELSE L.next[at[i - 1]]
      back == CHOOSE i \in 1..Cardinality(Nodes) :
                at[i] = h /\ \A j \in 1..(i - 1) : at[j] # h
  IN  [i \in 1..(back - 1) |-> at[i]]
Contents == [h \in Heads |-> IF h \in inUse THEN Walk(link, h) ELSE <<>>]

(* ngx_queue_insert_head and ngx_queue_head work on one end of a queue,
   ngx_queue_insert_tail and ngx_queue_last on the other: a queue is first in
   first out, or a stack, whatever happened in its middle.                 *)
EndsAreEnds ==
  [][\A h \in Heads \cap inUse :
       LET c == Contents[h]
           d == Contents'[h]
       IN  /\ \A x \in Elements : ngx_queue_insert_head(h, x) => d = <<x>> \o c
           /\ \A x \in Elements : ngx_queue_insert_tail(h, x) => d = Append(c, x)
           /\ RemoveFirst(h) => d = Tail(c)
           /\ RemoveLast(h) => d = SubSeq(c, 1, Len(c) - 1)]_vars

(* The pointer operations implement sequences: inserting, at either end and
   behind an element, and removing do to the contents of a queue what they
   should, and leave the other queues alone.                               *)
Q == INSTANCE QueueSpec WITH queue <- Contents
IsQueue == Q!Spec

=============================================================================
