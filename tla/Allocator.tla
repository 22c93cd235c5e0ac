------------------------------ MODULE Allocator ------------------------------
(***************************************************************************)
(* What a region allocator promises to those who use its memory, without   *)
(* saying where the memory comes from: a piece is handed out only where    *)
(* nothing in use is, a piece from the heap may be returned by itself, and *)
(* everything is taken back at once when the region is cleared or given    *)
(* up.  Nothing else ever changes what is in use.                          *)
(***************************************************************************)
EXTENDS Integers

CONSTANT HeapBlk   \* the block that stands for the heap

VARIABLE granted   \* the pieces in use, each [blk, from, to)

vars == <<granted>>

\* The two share a byte; a piece of no bytes shares none.
Overlap(a, b) ==
  /\ a.blk = b.blk
  /\ a.from < b.to /\ b.from < a.to
  /\ a.from < a.to /\ b.from < b.to

Init == granted = {}

\* One call may hand out several pieces, or none.
Grant ==
  /\ granted \subseteq granted'
  /\ \A a \in granted' \ granted, b \in granted' : a # b => ~Overlap(a, b)

Return ==
  \E a \in granted : a.blk = HeapBlk /\ granted' = granted \ {a}

Clear == granted' = {}

Next == Grant \/ Return \/ Clear

Spec == Init /\ [][Next]_vars

=============================================================================
