----------------------------- MODULE Containers -----------------------------
(***************************************************************************)
(* An array and a list that live in one pool, together with other users of *)
(* the pool: the three components meet in p->d.last, which the array moves *)
(* behind the allocator's back.                                            *)
(***************************************************************************)
EXTENDS Array, List

cvars == <<life, pool, frees, array, list>>

CInit ==
  /\ Init
  /\ array = NoArray
  /\ list = NoList

\* Somebody else allocates from the pool.
Other == ngx_palloc \/ ngx_pnalloc

\* The containers are forgotten with the memory they lived in.
Forget == array' = NoArray /\ list' = NoList

CNext ==
  \/ ngx_create_pool /\ UNCHANGED <<array, list>>
  \/ Other /\ UNCHANGED <<array, list>>
  \/ ngx_reset_pool /\ Forget
  \/ ngx_destroy_pool /\ Forget
  \/ (ngx_array_create \/ ngx_array_init \/ ngx_array_push \/ ngx_array_push_n \/ ngx_array_destroy)
     /\ UNCHANGED list
  \/ (ngx_list_create \/ ngx_list_init \/ ngx_list_push) /\ UNCHANGED array

CSpec == CInit /\ [][CNext]_cvars

-----------------------------------------------------------------------------
CTypeOK ==
  /\ TypeOK
  /\ array \in Arrays
  /\ list \in Lists

(* The memory of the containers: each piece as the span the pool granted, a
   piece on the heap as block 0.                                           *)
Piece(ptr, size) == Span(ptr[1], ptr[2], size)
ArrayPieces ==
  IF array = NoArray THEN {}
  ELSE {Piece(array.elts, Bytes(array))} \cup
       (IF array.hdr = Null THEN {} ELSE {Piece(array.hdr, ArrayHdr)})
ListPieces ==
  {Piece(list.parts[k].elts, list.nalloc * list.size) : k \in 1..Len(list.parts)} \cup
  {Piece(list.parts[k].node, PartHdr) : k \in 2..Len(list.parts)} \cup
  (IF list.hdr = Null THEN {} ELSE {Piece(list.hdr, ListHdr)})

(* Every piece of memory the array and the list use was granted by the pool,
   is still granted at its full length, and is not in use by both: in-place
   growth and ngx_array_destroy take and give back the array's own bytes
   only.  SmallAllocationsApart, checked with it, keeps other users out.   *)
PiecesGranted ==
  /\ \A s \in ArrayPieces \cup ListPieces :
       IF s.blk = 0 THEN s.from \in Owned(pool) ELSE s \in pool.allocs
  /\ ArrayPieces \cap ListPieces = {}

(* A slot ngx_array_push or ngx_array_push_n handed out lies within the
   array's capacity, after any number of extensions and moves.             *)
ArraySlotsInside == \A i \in 1..Len(array.given) : array.given[i] < array.nalloc

(* The documented loop over a list visits exactly the slots ngx_list_push
   handed out, in order, and none of them lies outside its part: also when
   a new part was only half made.                                          *)
IterationVisitsPushes ==
  /\ Iteration(list) = list.given
  /\ \A k \in 1..Len(list.parts) : list.parts[k].nelts <= list.nalloc

(* ngx_array_push: "increment array's length, caller will store an element
   via the returned `elt` pointer": no two calls share a slot.             *)
ArraySlotsGivenOnce ==
  \A i, j \in 1..Len(array.given) : array.given[i] = array.given[j] => i = j

=============================================================================
