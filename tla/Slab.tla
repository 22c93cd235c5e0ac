-------------------------------- MODULE Slab --------------------------------
(***************************************************************************)
(* The slab allocator of src/core/ngx_slab.c on a 64-bit build, as far as  *)
(* it is written: how a zone is laid out, how requests reach the list of   *)
(* free pages, and how pages leave it.  Nothing gives pages back.          *)
(*                                                                         *)
(* Addresses are byte offsets in the zone, which starts on a page boundary *)
(* with the ngx_slab_pool_t.  A page is the index of its header.           *)
(***************************************************************************)
EXTENDS Integers, Sequences, FiniteSets

CONSTANTS
  PageSize,   \* ngx_pagesize
  PageShift,  \* ngx_pagesize_shift
  MinShift,   \* pool->min_shift
  ZoneSizes,  \* the sizes of zones considered
  Requests,   \* the sizes asked of ngx_slab_alloc_locked()
  MaxInits,   \* bound on calls of ngx_slab_sizes_init()
  MaxCounted  \* bound on the requests counted in the statistics

SlabHdr == 184  \* sizeof(ngx_slab_pool_t)
PageHdr == 24   \* sizeof(ngx_slab_page_t)
StatHdr == 32   \* sizeof(ngx_slab_stat_t)

MinSize == 2 ^ MinShift
NSlots  == PageShift - MinShift

(* The zone holds the tables and at least one page and its header; the mask
   of a page's chunks fits in the lower half of a word.                    *)
ASSUME SlabAssumption ==
  /\ PageShift \in Nat /\ PageSize = 2 ^ PageShift
  /\ MinShift \in 1..PageShift
  /\ PageSize \div 2 ^ MinSize \in 1..32
  /\ PageSize \in Nat /\ PageSize >= PageHdr
  /\ ZoneSizes \subseteq {n \in Nat : n >= SlabHdr + NSlots * (PageHdr + StatHdr) + PageHdr + PageSize}
  /\ Requests \subseteq Nat \ {0}

VARIABLES
  state,        \* "raw", "ready", "hung" in an endless loop, or "wild"
  exact_shift,  \* ngx_slab_exact_shift
  inits,        \* calls of ngx_slab_sizes_init() so far
  zone,         \* the zone's size
  total,        \* pool->last - pool->pages
  start,        \* pool->start
  free,         \* the run of pages pool->free leads to; of no pages: none
  rest,         \* the run that was split off and that nothing leads to
  pfree,        \* pool->pfree
  slots,        \* the page each slot leads to, or NoPage
  stats,        \* reqs, total and used of each slot
  handed,       \* the pages ngx_slab_alloc_pages() returned, in order
  counted       \* the requests counted in stats

layout == <<zone, total, start>>
pages  == <<free, rest, pfree, handed>>
vars   == <<state, exact_shift, inits, layout, pages, slots, stats, counted>>

NoPage   == -1
NoRun    == [first |-> 0, count |-> 0, taken |-> FALSE]
SlotNums == 0..(NSlots - 1)

-----------------------------------------------------------------------------
AlignUp(n, a) == ((n + a - 1) \div a) * a

\* The address behind the slots and their statistics: pool->pages.
Tables == SlabHdr + NSlots * PageHdr + NSlots * StatHdr

FirstCount(size) == (size - Tables) \div (PageSize + PageHdr)

StartOf(size) == AlignUp(Tables + FirstCount(size) * PageHdr, PageSize)

PageCount_Uncorrected(size) == FirstCount(size)

\* "m": how many headers there are too many for the room behind pool->start.
PageCount(size) ==
  LET m == FirstCount(size) - (size - StartOf(size)) \div PageSize
  IN  IF m > 0 THEN FirstCount(size) - m ELSE FirstCount(size)

\* The rounds of the loop "n >>= 1": one for every power of two up to n.
Rounds(n) == Cardinality({k \in 1..PageShift : 2 ^ k <= n})

-----------------------------------------------------------------------------
Init ==
  /\ state = "raw" /\ exact_shift = 0 /\ inits = 0
  /\ zone = 0 /\ total = 0 /\ start = 0
  /\ free = NoRun /\ rest = NoRun /\ pfree = 0
  /\ slots = [s \in SlotNums |-> NoPage]
  /\ stats = [s \in SlotNums |-> [reqs |-> 0, total |-> 0, used |-> 0]]
  /\ handed = <<>> /\ counted = 0

\* The loop counts in a static variable that nothing resets.
ngx_slab_sizes_init ==
  /\ inits < MaxInits /\ state \in {"raw", "ready"}
  /\ inits' = inits + 1
  /\ exact_shift' = exact_shift + Rounds(PageSize \div 64)
  /\ UNCHANGED <<state, layout, pages, slots, stats, counted>>

ngx_slab_init ==
  /\ state = "raw"
  /\ zone' \in ZoneSizes
  /\ state' = "ready"
  /\ start' = StartOf(zone')
  /\ total' = PageCount(zone')
  /\ pfree' = PageCount(zone')
  /\ free' = [NoRun EXCEPT !.count = PageCount(zone')]
  /\ UNCHANGED <<exact_shift, inits, rest, slots, stats, handed, counted>>

-----------------------------------------------------------------------------
HavePage_Always == TRUE

(* ngx_slab_alloc_pages(pool, 1) finds a page as long as pool->free leads to
   a run of free pages.                                                    *)
HavePage == free.count > 0 /\ ~free.taken

TakePage_SplitsBehind ==
  /\ pfree' = pfree - 1
  /\ handed' = Append(handed, free.first)
  /\ \/ /\ free.count > 1
        /\ free' = NoRun
        /\ rest' = [free EXCEPT !.count = @ - 1]
     \/ free.count <= 1 /\ free' = [free EXCEPT !.taken = TRUE] /\ UNCHANGED rest

(* A run longer than one page is split: the header of its second page gets
   what describes the rest, but the neighbours of the run are linked to each
   other and not to that header, which is how the list becomes empty.  A run
   of one page is handed out and stays in the list, its header overwritten. *)
TakePage ==
  /\ pfree' = pfree - 1
  /\ handed' = Append(handed, free.first)
  /\ \/ /\ free.count > 1
        /\ free' = NoRun
        /\ rest' = [free EXCEPT !.first = @ + 1, !.count = @ - 1]
     \/ free.count <= 1 /\ free' = [free EXCEPT !.taken = TRUE] /\ UNCHANGED rest

Served_NotCounted(slot, shift) ==
  /\ slots' = [slots EXCEPT ![slot] = free.first]
  /\ stats' = [stats EXCEPT ![slot].reqs = @ + 1]
  /\ UNCHANGED state

Served(slot, shift) ==
  /\ slots' = [slots EXCEPT ![slot] = free.first]
  /\ stats' = [stats EXCEPT ![slot] = [reqs  |-> @.reqs + 1, used |-> @.used + 1,
                                       total |-> @.total + PageSize \div 2 ^ shift]]
  /\ UNCHANGED state

\* The request is counted, and an address is returned that was never computed:
\* NULL by chance, or anything else.
Unset(slot) ==
  /\ stats' = [stats EXCEPT ![slot].reqs = @ + 1]
  /\ state' \in {"ready", "wild"}
  /\ UNCHANGED slots

\* The overwritten header passes for one of a huge run, whose last header, far
\* outside the zone, is written first.
Stray(slot) ==
  /\ stats' = [stats EXCEPT ![slot].reqs = @ + 1]
  /\ state' = "wild"
  /\ UNCHANGED slots

(* From the slot on: a page that the slot leads to is never used again,
   because the three loops over its chunks are missing or have no rounds
   (the mask is not shifted), so that every request asks for a new page.
   Where there is none, ngx_slab_alloc_pages() ends without a return, and no
   page it may seem to have returned is of use.                            *)
Serve(slot, shift) ==
  \/ HavePage /\ TakePage /\ shift > exact_shift /\ Served(slot, shift)
  \/ HavePage /\ TakePage /\ shift <= exact_shift /\ Unset(slot)
  \/ free.count = 0 /\ Unset(slot) /\ UNCHANGED pages
  \/ free.taken /\ Stray(slot) /\ UNCHANGED pages

(* The loop that computes a shift never changes s, which is above 1 when it
   starts; the other branch sets the shift to a size, and no slot: the slot
   is any number, in the tables or outside of them.                        *)
ngx_slab_alloc_locked ==
  /\ state = "ready"
  /\ counted < MaxCounted
  /\ \E size \in Requests :
       \/ /\ size > MinSize
          /\ state' = "hung"
          /\ UNCHANGED <<pages, slots, stats, counted>>
       \/ /\ size <= MinSize
          /\ \E slot \in SlotNums : Serve(slot, MinSize)
          /\ counted' = counted + 1
       \/ /\ size <= MinSize
          /\ state' = "wild"
          /\ UNCHANGED <<pages, slots, stats, counted>>
  /\ UNCHANGED <<exact_shift, inits, layout>>

Next == ngx_slab_sizes_init \/ ngx_slab_init \/ ngx_slab_alloc_locked

Spec == Init /\ [][Next]_vars

-----------------------------------------------------------------------------
Runs == [first : Nat, count : Nat, taken : BOOLEAN]

TypeOK ==
  /\ state \in {"raw", "ready", "hung", "wild"}
  /\ exact_shift \in Nat /\ inits \in Nat /\ counted \in Nat
  /\ zone \in Nat /\ total \in Nat /\ start \in Nat
  /\ free \in Runs /\ rest \in Runs /\ pfree \in Nat
  /\ slots \in [SlotNums -> Nat \cup {NoPage}]
  /\ stats \in [SlotNums -> [reqs : Nat, total : Nat, used : Nat]]
  /\ handed \in Seq(Nat)

(* However the zone's size relates to the page size, ngx_slab_init places
   the page headers in front of pool->start and every data page, the last
   included, inside the zone; and no page that fits is left out but one.   *)
PagesInZone ==
  state # "raw" =>
    /\ Tables + total * PageHdr <= start
    /\ start + total * PageSize <= zone
    /\ zone < start + (total + 2) * PageSize

PagesOf(run) == run.first..(run.first + run.count - 1)

(* Every page of a zone was handed out, once, or is in the run pool->free
   leads to, or in the one that was split off: in one of these alone, except
   that a run of one page is still in the list when its page was handed out.
   pool->pfree counts the pages that were not handed out; but once there is
   one that was, pool->free leads to no other.                             *)
PagesAccounted ==
  state = "ready" =>
    LET out    == {handed[i] : i \in 1..Len(handed)}
        listed == IF free.taken THEN {} ELSE PagesOf(free)
        split  == PagesOf(rest)
    IN  /\ \A i, j \in 1..Len(handed) : handed[i] = handed[j] => i = j
        /\ out \cup listed \cup split = 0..(total - 1)
        /\ out \cap listed = {} /\ out \cap split = {} /\ listed \cap split = {}
        /\ pfree + Len(handed) = total
        /\ handed # <<>> => listed = {}

(* The statistics of a slot and the page it leads to agree, whatever requests
   found no page or got no address: one chunk is in use of each page that a
   slot got, no two slots share a page, and a slot leads to one that was
   handed out exactly when it counts one in use.                           *)
StatsAgree ==
  state = "ready" =>
    \A s \in SlotNums :
      LET st == stats[s]
      IN  /\ st.used <= st.reqs
          /\ st.total = st.used * (PageSize \div 2 ^ MinSize)
          /\ slots[s] # NoPage <=> st.used > 0
          /\ slots[s] # NoPage =>
               /\ \E i \in 1..Len(handed) : handed[i] = slots[s]
               /\ \A r \in SlotNums : slots[r] = slots[s] => r = s

(* ngx_slab_alloc_locked: for a request of 1KiB "shift becomes 10": the loop
   that computes it ends.                                                  *)
RequestsAnswered == state # "hung"

=============================================================================
