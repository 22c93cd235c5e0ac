------------------------------- MODULE MCPool -------------------------------
(***************************************************************************)
(* Small instances of Pool: real header sizes, a few block and request     *)
(* sizes.                                                                  *)
(***************************************************************************)
EXTENDS Pool

None == {}

\* In a pool of 152 bytes the first block serves one request of 57; a later
\* one serves a second only where that need not be aligned, and 80 goes to
\* the heap.  In one of 160 a block serves one request of 80 or, but for the
\* first block, two of 57.
TwoPools  == {152, 160}
TwoSizes  == {57, 80}
FewChunks == 1..3
DataSizes == {0, 57}

\* A pool that is only used and destroyed.
OnePool == {160}

\* A chain long enough for pool->current to move twice is only explored
\* without large chunks, cleanups and failures.
LongChainsAreSmall ==
  Len(pool.blocks) > 2 => pool.large = <<>> /\ pool.cleanup = <<>> /\ pool.faults = 0

=============================================================================
