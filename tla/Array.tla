------------------------------- MODULE Array -------------------------------
(***************************************************************************)
(* The dynamic array of src/core/ngx_array.c, cut from a pool of module    *)
(* Pool.  An array whose elements end where the pool's first block has its *)
(* free memory grows and is given back in place, by moving p->d.last;      *)
(* every other array grows by moving to a new piece of the pool.           *)
(***************************************************************************)
EXTENDS Pool

CONSTANTS
  ArrayCounts,   \* the capacities ngx_array_create() is called with
  ElementSizes,  \* sizes of an element
  PushCounts,    \* the n of ngx_array_push_n()
  MaxGiven       \* bound on the slots asked of one array

ASSUME ArrayAssumption ==
  /\ ArrayCounts \subseteq Nat \ {0}
  /\ ElementSizes \subseteq Nat \ {0}
  /\ PushCounts \subseteq Nat \ {0}

ArrayHdr == 40   \* sizeof(ngx_array_t)

VARIABLE array   \* an array, or NoArray

(* hdr is Null when the structure is not in the pool (ngx_array_init on a
   caller's variable); given lists the indices of the slots handed out.    *)
Arrays == [hdr : Nat \X Nat, elts : Nat \X Nat, nelts : Nat, size : Nat,
           nalloc : Nat, given : Seq(Nat)]
NoArray == [hdr |-> Null, elts |-> Null, nelts |-> 0, size |-> 0, nalloc |-> 0,
            given |-> <<>>]

-----------------------------------------------------------------------------
Made(P, a, ok) == [pool |-> P, array |-> a, ok |-> ok]

ArrayInit(P, hdr, n, size) ==
  {IF r.ptr = Null THEN Made(r.pool, NoArray, FALSE)
   ELSE Made(r.pool, [NoArray EXCEPT !.hdr = hdr, !.elts = r.ptr, !.size = size, !.nalloc = n], TRUE) :
     r \in Palloc(P, n * size)}

\* When the elements cannot be had, the structure stays behind in the pool.
ArrayCreate(P, n, size) ==
  UNION {IF r.ptr = Null THEN {Made(r.pool, NoArray, FALSE)}
         ELSE ArrayInit(r.pool, r.ptr, n, size) : r \in Palloc(P, ArrayHdr)}

Bytes(a)      == a.size * a.nalloc
ElementsOf(a) == Span(a.elts[1], a.elts[2], Bytes(a))

AtEnd_AnyBlock(P, a) == a.elts[1] # 0 /\ a.elts[2] + Bytes(a) = P.blocks[a.elts[1]].last

\* (u_char *) a->elts + a->size * a->nalloc == p->d.last, where p is the
\* first block whatever block the elements are in.
AtEnd(P, a) == a.elts[1] = 1 /\ a.elts[2] + Bytes(a) = P.blocks[1].last

HasRoom_Unchecked(P, a) == TRUE

\* p->d.last + a->size <= p->d.end
HasRoom(P, a) == P.blocks[1].last + a.size <= P.size

Extend(P, a) ==
  LET b == [a EXCEPT !.nalloc = @ + 1]
  IN  Made([P EXCEPT !.blocks[1].last = @ + a.size,
                     !.allocs = (@ \ {ElementsOf(a)}) \cup {ElementsOf(b)}], b, TRUE)

\* The old elements stay allocated; nothing in a pool gives them back.
Move(P, a) ==
  {IF r.ptr = Null THEN Made(r.pool, a, FALSE)
   ELSE Made(r.pool, [a EXCEPT !.elts = r.ptr, !.nalloc = 2 * @], TRUE) :
     r \in Palloc(P, 2 * Bytes(a))}

MakeRoom_ExtendLate(P, a) ==
  IF a.nelts = a.nalloc + 1 THEN Move(P, a) ELSE {Made(P, a, TRUE)}

MakeRoom(P, a) ==
  IF a.nelts # a.nalloc THEN {Made(P, a, TRUE)}
  ELSE IF AtEnd(P, a) /\ HasRoom(P, a) THEN {Extend(P, a)}
  ELSE Move(P, a)

Give(a, n) == [a EXCEPT !.given = @ \o [i \in 1..n |-> a.nelts + i - 1]]

\* The slot behind the last element is handed out, but the statement that
\* should count it, "a->nelts;", does nothing.
Push(P, a) == {IF r.ok THEN [r EXCEPT !.array = Give(@, 1)] ELSE r : r \in MakeRoom(P, a)}

\* When the array is too small the pool is reached through a variable that
\* was never set: nothing is known of what follows.
PushN(P, a, n) ==
  IF a.nelts + n > a.nalloc THEN {Made([P EXCEPT !.wild = TRUE], a, FALSE)}
  ELSE {Made(P, [Give(a, n) EXCEPT !.nelts = @ + n], TRUE)}

Rewind(P, from, span) == [P EXCEPT !.blocks[1].last = from, !.allocs = @ \ {span}]

FreeElements_Always(P, a) ==
  IF a.elts[1] = 1 THEN Rewind(P, a.elts[2], ElementsOf(a)) ELSE P

FreeElements_Twice(P, a) ==
  IF AtEnd(P, a) THEN Rewind(P, a.elts[2] - Bytes(a) - Bytes(a), ElementsOf(a)) ELSE P

FreeElements(P, a) == IF AtEnd(P, a) THEN Rewind(P, a.elts[2], ElementsOf(a)) ELSE P

FreeHeader(P, a) ==
  IF a.hdr[1] = 1 /\ a.hdr[2] + ArrayHdr = P.blocks[1].last
  THEN Rewind(P, a.hdr[2], Span(1, a.hdr[2], ArrayHdr))
  ELSE P

-----------------------------------------------------------------------------
ArrayBecomes(outcomes) ==
  /\ life = "live"
  /\ ~pool.wild
  /\ \E r \in outcomes : pool' = r.pool /\ array' = r.array
  /\ UNCHANGED <<life, frees>>

ngx_array_create ==
  /\ array = NoArray
  /\ \E n \in ArrayCounts, size \in ElementSizes : ArrayBecomes(ArrayCreate(pool, n, size))

ngx_array_init ==
  /\ array = NoArray
  /\ \E n \in ArrayCounts, size \in ElementSizes : ArrayBecomes(ArrayInit(pool, Null, n, size))

ngx_array_push ==
  /\ array # NoArray
  /\ Len(array.given) < MaxGiven
  /\ ArrayBecomes(Push(pool, array))

ngx_array_push_n ==
  /\ array # NoArray
  /\ \E n \in PushCounts :
       /\ Len(array.given) + n <= MaxGiven
       /\ ArrayBecomes(PushN(pool, array, n))

ngx_array_destroy ==
  /\ array # NoArray
  /\ ArrayBecomes({Made(FreeHeader(FreeElements(pool, array), array), NoArray, TRUE)})

=============================================================================
