---------------------------- MODULE MCContainers ----------------------------
(***************************************************************************)
(* A pool of one or two blocks with room for some hundred bytes, a         *)
(* capacity of one or two elements, and one failing heap call.             *)
(***************************************************************************)
EXTENDS Containers

SmallPool   == {168}
OtherSizes  == {0, 32}
None        == {}
OneChunk    == {1}
FewElements == {1, 2}
TwoElements == {2}
ElementSize == {24}
Batches     == {1, 2}

\* Requests of size 0 are only explored one at a time and without a list.
FewEmptyRequests ==
  \A a, b \in pool.allocs :
    a.from = a.to => list = NoList /\ (b.from = b.to => a = b)

=============================================================================
