-------------------------------- MODULE List --------------------------------
(***************************************************************************)
(* The list of src/core/ngx_list.c: a chain of parts of equal capacity,    *)
(* each part and its elements cut from a pool of module Pool.  The first   *)
(* part is inside the list's own structure.                                *)
(***************************************************************************)
EXTENDS Pool

LOCAL INSTANCE SequencesExt

CONSTANTS
  ListCounts,    \* the capacities ngx_list_create() is called with
  ListSizes,     \* sizes of an element
  MaxListed      \* bound on the slots asked of one list

ASSUME ListAssumption ==
  /\ ListCounts \subseteq Nat \ {0}
  /\ ListSizes \subseteq Nat \ {0}

ListHdr == 56   \* sizeof(ngx_list_t)
PartHdr == 24   \* sizeof(ngx_list_part_t)

VARIABLE list   \* a list, or NoList

Slots == (Nat \X Nat) \X Nat   \* the elements of a part, and an index in them
Parts == [node : Nat \X Nat, elts : Nat \X Nat, nelts : Nat]

(* hdr is Null when the structure is not in the pool; the node of the first
   part is Null; given lists the slots handed out.                         *)
Lists == [hdr : Nat \X Nat, parts : Seq(Parts), size : Nat, nalloc : Nat, given : Seq(Slots)]
NoList == [hdr |-> Null, parts |-> <<>>, size |-> 0, nalloc |-> 0, given |-> <<>>]

-----------------------------------------------------------------------------
Listed(P, l) == [pool |-> P, list |-> l]
NewPart(node, elts) == [node |-> node, elts |-> elts, nelts |-> 0]

ListInit(P, hdr, n, size) ==
  {Listed(r.pool,
          IF r.ptr = Null THEN NoList
          ELSE [NoList EXCEPT !.hdr = hdr, !.parts = <<NewPart(Null, r.ptr)>>,
                              !.size = size, !.nalloc = n]) :
     r \in Palloc(P, n * size)}

ListCreate(P, n, size) ==
  UNION {IF r.ptr = Null THEN {Listed(r.pool, NoList)} ELSE ListInit(r.pool, r.ptr, n, size) :
           r \in Palloc(P, ListHdr)}

\* The next slot of the last part.
PushLast(P, l) ==
  LET k == Len(l.parts)
  IN  Listed(P, [l EXCEPT !.parts[k].nelts = @ + 1,
                          !.given = Append(@, <<l.parts[k].elts, l.parts[k].nelts>>)])

AddPart_LinkedEarly(P, l) ==
  UNION {IF r.ptr = Null THEN {Listed(r.pool, l)}
         ELSE {IF e.ptr = Null
               THEN Listed(e.pool, [l EXCEPT !.parts = Append(@, NewPart(r.ptr, e.ptr))])
               ELSE PushLast(e.pool, [l EXCEPT !.parts = Append(@, NewPart(r.ptr, e.ptr))]) :
                 e \in Palloc(r.pool, l.nalloc * l.size)} :
           r \in Palloc(P, PartHdr)}

\* A new part is linked only once it has its elements; when they cannot be
\* had, its structure stays behind in the pool.
AddPart(P, l) ==
  UNION {IF r.ptr = Null THEN {Listed(r.pool, l)}
         ELSE {IF e.ptr = Null THEN Listed(e.pool, l)
               ELSE PushLast(e.pool, [l EXCEPT !.parts = Append(@, NewPart(r.ptr, e.ptr))]) :
                 e \in Palloc(r.pool, l.nalloc * l.size)} :
           r \in Palloc(P, PartHdr)}

ListPush_Late(P, l) ==
  IF l.parts[Len(l.parts)].nelts > l.nalloc THEN AddPart(P, l) ELSE {PushLast(P, l)}

ListPush(P, l) ==
  IF l.parts[Len(l.parts)].nelts = l.nalloc THEN AddPart(P, l) ELSE {PushLast(P, l)}

\* The loop that ngx_list.h prescribes: it looks at the length of a part
\* only after it has visited the part's first element, but for the first.
Visits(l, k) ==
  LET part == l.parts[k]
      n    == IF k > 1 /\ part.nelts = 0 THEN 1 ELSE part.nelts
  IN  [i \in 1..n |-> <<part.elts, i - 1>>]
Iteration(l) == FlattenSeq([k \in 1..Len(l.parts) |-> Visits(l, k)])

-----------------------------------------------------------------------------
ListBecomes(outcomes) ==
  /\ life = "live"
  /\ ~pool.wild
  /\ \E r \in outcomes : pool' = r.pool /\ list' = r.list
  /\ UNCHANGED <<life, frees>>

ngx_list_create ==
  /\ list = NoList
  /\ \E n \in ListCounts, size \in ListSizes : ListBecomes(ListCreate(pool, n, size))

ngx_list_init ==
  /\ list = NoList
  /\ \E n \in ListCounts, size \in ListSizes : ListBecomes(ListInit(pool, Null, n, size))

ngx_list_push ==
  /\ list # NoList
  /\ Len(list.given) < MaxListed
  /\ ListBecomes(ListPush(pool, list))

=============================================================================
