----------------------------- MODULE QueueSpec -----------------------------
(***************************************************************************)
(* What src/core/ngx_queue.h promises: sequences of elements, each element *)
(* in at most one of them, to which an element is added at either end or   *)
(* behind another one, and from which any element is taken.                *)
(***************************************************************************)
EXTENDS Integers, Sequences

CONSTANTS
  Heads,     \* the queues
  Elements   \* what they hold

VARIABLE queue   \* the contents of each queue, first element first

Init == queue = [h \in Heads |-> <<>>]

Listed(x) == \E h \in Heads : \E i \in 1..Len(queue[h]) : queue[h][i] = x

\* x becomes the i-th element of queue h.
Insert(h, i, x) ==
  /\ ~Listed(x)
  /\ i \in 1..(Len(queue[h]) + 1)
  /\ queue' = [queue EXCEPT ![h] = SubSeq(@, 1, i - 1) \o <<x>> \o SubSeq(@, i, Len(@))]

Remove(h, i) ==
  /\ i \in 1..Len(queue[h])
  /\ queue' = [queue EXCEPT ![h] = SubSeq(@, 1, i - 1) \o SubSeq(@, i + 1, Len(@))]

Next ==
  \E h \in Heads :
    \/ \E i \in 1..(Len(queue[h]) + 1), x \in Elements : Insert(h, i, x)
    \/ \E i \in 1..Len(queue[h]) : Remove(h, i)

Spec == Init /\ [][Next]_queue

=============================================================================
