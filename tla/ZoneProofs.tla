----------------------------- MODULE ZoneProofs -----------------------------
(***************************************************************************)
(* Theorems about zones: how the slab allocator lays them out and hands    *)
(* out their pages, for every page size, zone size and number of slots,    *)
(* and how shared memory comes and goes, for every failure.                *)
(***************************************************************************)
EXTENDS Zone, FiniteSetTheorems, TLAPS

-----------------------------------------------------------------------------
(***************************************************************************)
(* Arithmetic of the layout: P is the page size, T the end of the tables.  *)
(***************************************************************************)
\* What rounding up to a multiple and division give.
LEMMA AlignBound ==
  ASSUME NEW n \in Nat, NEW P \in Nat \ {0}
  PROVE  AlignUp(n, P) \in Nat /\ n <= AlignUp(n, P) /\ AlignUp(n, P) < n + P
BY SMT DEF AlignUp

LEMMA DivBound ==
  ASSUME NEW n \in Int, NEW P \in Nat \ {0}
  PROVE  /\ n \div P \in Int
         /\ (n \div P) * P <= n
         /\ n < (n \div P) * P + P
BY SMT

LEMMA NatDiv ==
  ASSUME NEW n \in Nat, NEW P \in Nat \ {0}
  PROVE  n \div P \in Nat
BY SMT

\* The tables end somewhere in the zone, and a page and its header fit.
LEMMA SizesFit ==
  ASSUME SlabAssumption, NEW z \in ZoneSizes
  PROVE  /\ Tables \in Nat /\ z \in Nat
         /\ PageSize \in Nat \ {0} /\ PageSize >= PageHdr
         /\ z - Tables >= PageSize + PageHdr
<1>1. NSlots \in Nat
  BY SlabAssumption, SMT DEF SlabAssumption, NSlots
<1> QED  BY <1>1, SlabAssumption, SMT DEF SlabAssumption, Tables, SlabHdr, PageHdr, StatHdr

\* As many pages as both bounds allow: the headers in front of them, and the
\* room behind them.
LEMMA CountBound ==
  ASSUME SlabAssumption, NEW z \in ZoneSizes
  PROVE  /\ FirstCount(z) \in Nat /\ StartOf(z) \in Nat /\ PageCount(z) \in Nat
         /\ FirstCount(z) * (PageSize + PageHdr) <= z - Tables
         /\ z - Tables < FirstCount(z) * (PageSize + PageHdr) + PageSize + PageHdr
         /\ Tables + FirstCount(z) * PageHdr <= StartOf(z)
         /\ StartOf(z) < Tables + FirstCount(z) * PageHdr + PageSize
         /\ PageCount(z) <= FirstCount(z)
         /\ PageCount(z) <= (z - StartOf(z)) \div PageSize
         /\ PageCount(z) \in {FirstCount(z), (z - StartOf(z)) \div PageSize}
<1> DEFINE F == FirstCount(z)  S == StartOf(z)  D == (z - S) \div PageSize
<1>1. Tables \in Nat /\ z \in Nat /\ PageSize \in Nat \ {0} /\ PageSize >= PageHdr
      /\ z - Tables >= PageSize + PageHdr /\ PageHdr = 24
  BY SizesFit, SlabAssumption DEF PageHdr
<1>2. F \in Nat /\ F * (PageSize + PageHdr) <= z - Tables
      /\ z - Tables < F * (PageSize + PageHdr) + PageSize + PageHdr
  <2> DEFINE n == z - Tables  Q == PageSize + PageHdr
  <2>1. n \in Nat /\ Q \in Nat \ {0} /\ F = n \div Q
    BY <1>1, SMT DEF FirstCount
  <2>2. n \div Q \in Nat /\ (n \div Q) * Q <= n /\ n < (n \div Q) * Q + Q
    <3> HIDE DEF n, Q
    <3> QED  BY <2>1, DivBound, NatDiv
  <2> QED  BY <2>1, <2>2, <1>1, SMT
<1>3. S \in Nat /\ Tables + F * PageHdr <= S /\ S < Tables + F * PageHdr + PageSize
  <2>1. Tables + F * PageHdr \in Nat
    BY <1>1, <1>2, SMT
  <2> QED  BY <2>1, <1>1, AlignBound DEF StartOf
<1>4. S <= z
  <2>1. F * (PageSize + PageHdr) = F * PageSize + F * PageHdr
    BY <1>1, <1>2, SMT
  <2>2. F # 0
    BY <1>1, <1>2, SMT
  <2>3. F * PageSize >= PageSize
    BY <1>1, <1>2, <2>2, SMT
  <2> HIDE DEF F, S
  <2> QED  BY <1>1, <1>2, <1>3, <2>1, <2>3, SMT
<1>5. D \in Nat
  <2>1. z - S \in Nat
    BY <1>1, <1>3, <1>4, SMT
  <2> QED  BY <2>1, <1>1, NatDiv
<1>6. PageCount(z) = IF F - D > 0 THEN D ELSE F
  <2> HIDE DEF F, D
  <2>1. F - (F - D) = D
    BY <1>2, <1>5, SMT
  <2> QED  BY <2>1 DEF PageCount, F, D, S
<1> HIDE DEF F, S, D
<1>7. PageCount(z) \in Nat /\ PageCount(z) <= F /\ PageCount(z) <= D /\ PageCount(z) \in {F, D}
  BY <1>2, <1>5, <1>6, SMT
<1> QED  BY <1>2, <1>3, <1>7 DEF F, S, D

(***************************************************************************)
(* Once laid out, a zone of any size holds the headers in front of         *)
(* pool->start and all the pages behind, and leaves out at most one page   *)
(* that would fit.                                                         *)
(***************************************************************************)
LEMMA LayoutFits ==
  ASSUME SlabAssumption, NEW z \in ZoneSizes
  PROVE  /\ Tables + PageCount(z) * PageHdr <= StartOf(z)
         /\ StartOf(z) + PageCount(z) * PageSize <= z
         /\ z < StartOf(z) + (PageCount(z) + 2) * PageSize
<1> DEFINE F == FirstCount(z)  S == StartOf(z)  D == (z - S) \div PageSize  C == PageCount(z)
<1>1. Tables \in Nat /\ z \in Nat /\ PageSize \in Nat \ {0} /\ PageSize >= 24 /\ PageHdr = 24
  BY SizesFit, SlabAssumption DEF PageHdr
<1>2. /\ F \in Nat /\ S \in Nat /\ C \in Nat /\ C <= F /\ C <= D /\ C \in {F, D}
      /\ z - Tables < F * (PageSize + PageHdr) + PageSize + PageHdr
      /\ Tables + F * PageHdr <= S
  BY CountBound, SlabAssumption
<1>3. D \in Int /\ D * PageSize <= z - S /\ z - S < D * PageSize + PageSize
  <2>1. z - S \in Int
    BY <1>1, <1>2, SMT
  <2> QED  BY <2>1, <1>1, DivBound
<1> HIDE DEF F, S, D, C
<1>4. C * PageHdr <= F * PageHdr
  BY <1>1, <1>2, SMT
<1>5. C * PageSize <= D * PageSize
  BY <1>1, <1>2, <1>3, SMT
<1>6. F * (PageSize + PageHdr) = F * PageSize + F * PageHdr
  BY <1>1, <1>2, SMT
<1>7. (C + 2) * PageSize = C * PageSize + PageSize + PageSize
  BY <1>1, <1>2, SMT
<1>8. Tables + C * PageHdr <= S /\ S + C * PageSize <= z
  BY <1>1, <1>2, <1>3, <1>4, <1>5, SMT
<1>9. z < S + (C + 2) * PageSize
  <2>1. CASE C = F
    BY <2>1, <1>1, <1>2, <1>6, <1>7, SMT
  <2>2. CASE C = D
    BY <2>2, <1>1, <1>2, <1>3, <1>7, SMT
  <2> QED  BY <1>2, <2>1, <2>2
<1> QED  BY <1>8, <1>9 DEF S, C

-----------------------------------------------------------------------------
(***************************************************************************)
(* The slab allocator                                                      *)
(***************************************************************************)
LaidOut ==
  state # "raw" => zone \in ZoneSizes /\ start = StartOf(zone) /\ total = PageCount(zone)

\* Where the pages of a zone are.  Before the first is handed out they are one
\* run; then they are split off, or there was only this one.
AllListed == handed = <<>> /\ pfree = total /\ free = [NoRun EXCEPT !.count = total] /\ rest = NoRun
RestSplit == /\ handed = <<0>> /\ total > 1 /\ pfree = total - 1 /\ free = NoRun
             /\ rest = [first |-> 1, count |-> total - 1, taken |-> FALSE]
OnlyTaken == /\ handed = <<0>> /\ total = 1 /\ pfree = 0
             /\ free = [first |-> 0, count |-> 1, taken |-> TRUE] /\ rest = NoRun

PagesInv ==
  /\ total \in Nat
  /\ state = "raw" => total = 0
  /\ AllListed \/ RestSplit \/ OnlyTaken

Chunks == PageSize \div 2 ^ MinSize

SlotInv(s) ==
  /\ stats[s].used <= stats[s].reqs
  /\ stats[s].total = stats[s].used * Chunks
  /\ slots[s] # NoPage <=> stats[s].used > 0
  /\ slots[s] # NoPage =>
       /\ slots[s] = 0 /\ handed = <<0>>
       /\ \A r \in SlotNums : slots[r] # NoPage => r = s

StatsInv ==
  /\ slots \in [SlotNums -> Nat \cup {NoPage}]
  /\ stats \in [SlotNums -> [reqs : Nat, total : Nat, used : Nat]]
  /\ state \in {"raw", "ready"} => \A s \in SlotNums : SlotInv(s)

SlabInv == LaidOut /\ PagesInv /\ StatsInv

LEMMA SlabInit == Init => SlabInv
<1> SUFFICES ASSUME Init PROVE SlabInv
  OBVIOUS
<1>1. LaidOut
  BY DEF Init, LaidOut
<1>2. PagesInv
  BY DEF Init, PagesInv, AllListed, NoRun
<1>3. StatsInv
  <2>1. Chunks \in Nat
    BY SlabAssumption, SMT DEF SlabAssumption, Chunks
  <2>2. 0 * Chunks = 0
    BY <2>1, SMT
  <2> QED  BY <2>2, SMT DEF Init, StatsInv, SlotInv, NoPage
<1> QED  BY <1>1, <1>2, <1>3 DEF SlabInv

\* A page is taken only once, and it is the first of the zone.
LEMMA PageTaken ==
  ASSUME PagesInv, state = "ready", HavePage, TakePage, UNCHANGED total
  PROVE  /\ AllListed /\ free.first = 0 /\ handed' = <<0>>
         /\ RestSplit' \/ OnlyTaken'
<1>1. AllListed
  BY DEF PagesInv, RestSplit, OnlyTaken, HavePage, NoRun
<1>2. /\ handed = <<>> /\ pfree = total /\ total \in Nat /\ rest = NoRun
      /\ free = [first |-> 0, count |-> total, taken |-> FALSE]
  BY <1>1 DEF AllListed, PagesInv, NoRun
<1>3. total > 0
  BY <1>2 DEF HavePage
<1>4. handed' = <<0>> /\ pfree' = total - 1
  BY <1>2 DEF TakePage
<1>5. CASE total > 1
  <2>1. free' = NoRun /\ rest' = [free EXCEPT !.first = @ + 1, !.count = @ - 1]
    BY <1>2, <1>5 DEF TakePage
  <2>2. rest' = [first |-> 0 + 1, count |-> total - 1, taken |-> FALSE]
    BY <1>2, <2>1, Zenon
  <2>3. rest' = [first |-> 1, count |-> total - 1, taken |-> FALSE]
    BY <2>2
  <2> QED  BY <1>1, <1>2, <1>4, <1>5, <2>1, <2>3 DEF RestSplit
<1>6. CASE ~(total > 1)
  <2>1. total = 1
    BY <1>2, <1>3, <1>6
  <2>2. free' = [free EXCEPT !.taken = TRUE] /\ rest' = rest
    BY <1>2, <1>6 DEF TakePage
  <2>3. free' = [first |-> 0, count |-> 1, taken |-> TRUE]
    BY <1>2, <2>1, <2>2
  <2>4. pfree' = 0
    BY <1>4, <2>1
  <2> QED  BY <1>1, <1>2, <1>4, <2>1, <2>2, <2>3, <2>4 DEF OnlyTaken
<1> QED  BY <1>5, <1>6

LEMMA CountsAre ==
  ASSUME NEW S, NEW st \in [S -> [reqs : Nat, total : Nat, used : Nat]], NEW s \in S
  PROVE  st[s].reqs \in Nat /\ st[s].total \in Nat /\ st[s].used \in Nat
<1>1. st[s] \in [reqs : Nat, total : Nat, used : Nat]
  OBVIOUS
<1> QED  BY <1>1

\* The slot that gets the page counts it; the others had none.
LEMMA SlotServed ==
  ASSUME SlabAssumption, SlabInv, state = "ready", HavePage, TakePage, UNCHANGED total,
         NEW slot \in SlotNums, Served(slot, MinSize)
  PROVE  StatsInv'
<1>1. AllListed /\ free.first = 0 /\ handed' = <<0>> /\ handed = <<>>
  BY PageTaken DEF SlabInv, AllListed
<1>2. /\ slots \in [SlotNums -> Nat \cup {NoPage}]
      /\ stats \in [SlotNums -> [reqs : Nat, total : Nat, used : Nat]]
      /\ \A s \in SlotNums : SlotInv(s)
  BY DEF SlabInv, StatsInv
<1>3. ASSUME NEW s \in SlotNums
      PROVE  slots[s] = NoPage /\ stats[s].used = 0 /\ stats[s].total = 0
  <2>1. slots[s] = NoPage
    BY <1>1, <1>2 DEF SlotInv
  <2>2. stats[s].used \in Nat /\ Chunks \in Nat
    BY <1>2, CountsAre, SlabAssumption DEF SlabAssumption, Chunks
  <2>3. stats[s].used = 0
    BY <1>2, <2>1, <2>2 DEF SlotInv
  <2> QED  BY <1>2, <2>1, <2>2, <2>3 DEF SlotInv
<1> DEFINE n == [reqs |-> stats[slot].reqs + 1, used |-> 1, total |-> Chunks]
<1>4. Chunks \in Nat /\ stats[slot].reqs \in Nat
  BY <1>2, CountsAre, SlabAssumption DEF SlabAssumption, Chunks
<1>5. stats' = [stats EXCEPT ![slot] = n]
  <2>1. stats' = [stats EXCEPT ![slot] = [reqs  |-> stats[slot].reqs + 1,
                                          used  |-> stats[slot].used + 1,
                                          total |-> stats[slot].total + Chunks]]
    BY <1>2 DEF Served, Chunks
  <2>2. stats[slot].used + 1 = 1 /\ stats[slot].total + Chunks = Chunks
    BY <1>3, <1>4
  <2> QED  BY <2>1, <2>2
<1>6. n \in [reqs : Nat, total : Nat, used : Nat] /\ n.reqs >= 1 /\ n.used = 1 /\ n.total = Chunks
  BY <1>4
<1> HIDE DEF n
<1>7. slots' = [slots EXCEPT ![slot] = 0] /\ 0 # NoPage
  BY <1>1 DEF Served, NoPage
<1>8. /\ slots' \in [SlotNums -> Nat \cup {NoPage}]
      /\ stats' \in [SlotNums -> [reqs : Nat, total : Nat, used : Nat]]
  BY <1>2, <1>5, <1>6, <1>7
<1>9. ASSUME NEW s \in SlotNums, s # slot
      PROVE  slots'[s] = NoPage /\ stats'[s] = stats[s]
  BY <1>2, <1>3, <1>5, <1>7, <1>9
<1>10. slots'[slot] = 0 /\ stats'[slot] = n
  BY <1>2, <1>5, <1>7
<1>11. ASSUME NEW s \in SlotNums PROVE SlotInv(s)'
  <2>1. CASE s = slot
    <3>1. n.used <= n.reqs /\ n.total = n.used * Chunks /\ n.used > 0
      BY <1>4, <1>6
    <3>2. \A r \in SlotNums : slots'[r] # NoPage => r = s
      BY <1>9, <2>1
    <3> QED  BY <1>1, <1>7, <1>10, <2>1, <3>1, <3>2 DEF SlotInv, Chunks
  <2>2. CASE s # slot
    <3>1. slots'[s] = NoPage /\ stats'[s] = stats[s] /\ slots[s] = NoPage
      BY <1>3, <1>9, <2>2
    <3> QED  BY <1>2, <3>1 DEF SlotInv, Chunks
  <2> QED  BY <2>1, <2>2
<1> QED  BY <1>8, <1>11 DEF StatsInv

\* A request that gets nothing is counted, and changes nothing else.
LEMMA ReqCounted ==
  ASSUME NEW slot \in SlotNums, StatsInv, state = "ready",
         stats' = [stats EXCEPT ![slot].reqs = @ + 1],
         UNCHANGED slots, handed' = handed \/ handed' = << 0 >>
  PROVE  StatsInv'
<1>1. /\ slots \in [SlotNums -> Nat \cup {NoPage}]
      /\ stats \in [SlotNums -> [reqs : Nat, total : Nat, used : Nat]]
      /\ \A s \in SlotNums : SlotInv(s)
  BY DEF StatsInv
<1> DEFINE n == [stats[slot] EXCEPT !.reqs = @ + 1]
<1>2. stats[slot] \in [reqs : Nat, total : Nat, used : Nat]
  BY <1>1
<1>3. /\ n \in [reqs : Nat, total : Nat, used : Nat]
      /\ n.used = stats[slot].used /\ n.total = stats[slot].total /\ n.reqs = stats[slot].reqs + 1
  BY <1>2
<1>4. stats' = [stats EXCEPT ![slot] = n]
  BY <1>1
<1> HIDE DEF n
<1>5. stats' \in [SlotNums -> [reqs : Nat, total : Nat, used : Nat]]
  BY <1>1, <1>3, <1>4
<1>6. ASSUME NEW s \in SlotNums PROVE SlotInv(s)'
  <2>1. stats'[s].used = stats[s].used /\ stats'[s].total = stats[s].total
    BY <1>1, <1>3, <1>4
  <2>2. stats'[s].used <= stats'[s].reqs
    <3>1. stats[s].used \in Nat /\ stats[s].reqs \in Nat /\ stats[s].used <= stats[s].reqs
      BY <1>1, CountsAre DEF SlotInv
    <3>2. stats'[s].reqs = stats[s].reqs \/ stats'[s].reqs = stats[s].reqs + 1
      BY <1>1, <1>3, <1>4
    <3> QED  BY <2>1, <3>1, <3>2
  <2> QED  BY <1>1, <2>1, <2>2 DEF SlotInv, Chunks
<1> QED  BY <1>1, <1>5, <1>6 DEF StatsInv

LEMMA ServeStep ==
  ASSUME SlabAssumption, SlabInv, state = "ready", NEW slot \in SlotNums, Serve(slot, MinSize),
         UNCHANGED layout
  PROVE  SlabInv'
<1>1. UNCHANGED <<zone, total, start>> /\ state' \in {"ready", "wild"}
  BY DEF Serve, Served, Unset, Stray, layout
<1>2. LaidOut'
  BY <1>1 DEF SlabInv, LaidOut
<1>3. CASE HavePage /\ TakePage
  <2>1. AllListed /\ handed' = <<0>> /\ (RestSplit' \/ OnlyTaken')
    BY <1>1, <1>3, PageTaken DEF SlabInv
  <2>2. PagesInv'
    BY <1>1, <2>1 DEF SlabInv, PagesInv
  <2>3. CASE Served(slot, MinSize)
    BY <1>1, <1>2, <1>3, <2>2, <2>3, SlotServed DEF SlabInv
  <2>4. CASE Unset(slot)
    <3>1. StatsInv'
      BY <2>1, <2>4, ReqCounted DEF SlabInv, Unset
    <3> QED  BY <1>2, <2>2, <3>1 DEF SlabInv
  <2>5. CASE UNCHANGED pages
    <3>1. handed' = handed
      BY <2>5 DEF pages
    <3> QED  BY <2>1, <3>1 DEF AllListed
  <2> QED  BY <2>3, <2>4, <2>5 DEF Serve
<1>4. CASE UNCHANGED pages /\ (Unset(slot) \/ Stray(slot))
  <2>1. UNCHANGED <<free, rest, pfree, handed, slots>>
        /\ stats' = [stats EXCEPT ![slot].reqs = @ + 1]
    BY <1>4 DEF pages, Unset, Stray
  <2>2. PagesInv'
    BY <1>1, <2>1 DEF SlabInv, PagesInv, AllListed, RestSplit, OnlyTaken
  <2>3. StatsInv'
    BY <2>1, ReqCounted DEF SlabInv
  <2> QED  BY <1>2, <2>2, <2>3 DEF SlabInv
<1> QED  BY <1>3, <1>4 DEF Serve

LEMMA SlabStep == SlabAssumption /\ SlabInv /\ [Next]_vars => SlabInv'
<1> SUFFICES ASSUME SlabAssumption, SlabInv, [Next]_vars PROVE SlabInv'
  OBVIOUS
<1> USE DEF SlabInv, LaidOut, PagesInv, AllListed, RestSplit, OnlyTaken, StatsInv, SlotInv, pages
<1>1. CASE UNCHANGED vars
  BY <1>1 DEF vars, layout
<1>2. CASE ngx_slab_sizes_init
  BY <1>2 DEF ngx_slab_sizes_init, layout
<1>3. CASE ngx_slab_init
  <2>1. /\ zone' \in ZoneSizes /\ start' = StartOf(zone') /\ total' = PageCount(zone')
        /\ pfree' = PageCount(zone') /\ state = "raw" /\ state' = "ready"
        /\ free' = [NoRun EXCEPT !.count = PageCount(zone')]
        /\ UNCHANGED <<rest, slots, stats, handed>>
    BY <1>3 DEF ngx_slab_init
  <2>2. total' \in Nat
    BY <2>1, CountBound
  <2>3. handed = <<>> /\ rest = NoRun
    BY <2>1
  <2>4. StatsInv'
    BY <2>1
  <2> QED  BY <2>1, <2>2, <2>3, <2>4
<1>4. CASE ngx_slab_alloc_locked
  <2>1. state = "ready" /\ UNCHANGED layout
    BY <1>4 DEF ngx_slab_alloc_locked
  <2>2. CASE state' \in {"hung", "wild"} /\ UNCHANGED <<pages, slots, stats>>
    BY <2>1, <2>2 DEF layout
  <2>3. CASE \E slot \in SlotNums : Serve(slot, MinSize)
    BY <2>1, <2>3, ServeStep
  <2> QED  BY <1>4, <2>2, <2>3 DEF ngx_slab_alloc_locked
<1> QED  BY <1>1, <1>2, <1>3, <1>4 DEF Next

LEMMA SlabInvariant == Spec => []SlabInv
<1>1. SlabInv /\ [Next]_vars => SlabInv'
  BY SlabAssumption, SlabStep
<1> QED  BY <1>1, SlabInit, PTL DEF Spec

(***************************************************************************)
(* The page headers and the pages of a zone lie inside it, and not more    *)
(* than one page that would fit is left out: ngx_slab_init, for every page *)
(* size and every zone size that holds a page.                             *)
(***************************************************************************)
THEOREM PagesFitZone == Spec => []PagesInZone
<1>1. SlabInv => PagesInZone
  BY SlabAssumption, LayoutFits DEF SlabInv, LaidOut, PagesInZone
<1> QED  BY <1>1, SlabInvariant, PTL

(***************************************************************************)
(* Every page of a zone is in one place, the list of ngx_slab_alloc_pages, *)
(* the run it splits off and forgets, or somebody's hands; pool->pfree     *)
(* counts those in nobody's, and the first page handed out empties the     *)
(* list, for zones of any number of pages.                                 *)
(***************************************************************************)
THEOREM PagesAreAccounted == Spec => []PagesAccounted
<1>1. ASSUME SlabInv, state = "ready" PROVE PagesAccounted
  <2>1. total \in Nat
    BY <1>1 DEF SlabInv, PagesInv
  <2>2. CASE AllListed
    <3>1. handed = <<>> /\ free.first = 0 /\ free.count = total /\ free.taken = FALSE
          /\ rest.first = 0 /\ rest.count = 0 /\ pfree = total /\ Len(handed) = 0
      BY <2>2 DEF AllListed, NoRun
    <3>2. PagesOf(free) = 0..(total - 1) /\ PagesOf(rest) = {}
      BY <2>1, <3>1 DEF PagesOf
    <3>3. {handed[i] : i \in 1..Len(handed)} = {}
      BY <3>1
    <3> QED  BY <2>1, <3>1, <3>2, <3>3 DEF PagesAccounted
  <2>3. ASSUME handed = << 0 >>, total >= 1, pfree = total - 1,
               (IF free.taken THEN {} ELSE PagesOf(free)) = {}, PagesOf(rest) = 1..(total - 1)
        PROVE  PagesAccounted
    <3>1. Len(handed) = 1 /\ handed[1] = 0
      BY <2>3
    <3>2. {handed[i] : i \in 1..Len(handed)} = {0}
      BY <3>1
    <3>3. {0} \cup 1..(total - 1) = 0..(total - 1)
      BY <2>1, <2>3
    <3>4. {0} \cap 1..(total - 1) = {}
      OBVIOUS
    <3> QED  BY <2>1, <2>3, <3>1, <3>2, <3>3, <3>4 DEF PagesAccounted
  <2>4. CASE RestSplit
    <3>1. handed = <<0>> /\ total >= 1 /\ pfree = total - 1 /\ free.taken = FALSE
          /\ free.first = 0 /\ free.count = 0 /\ rest.first = 1 /\ rest.count = total - 1
      BY <2>1, <2>4 DEF RestSplit, NoRun
    <3>2. PagesOf(free) = {} /\ PagesOf(rest) = 1..(total - 1)
      BY <2>1, <3>1 DEF PagesOf
    <3> QED  BY <2>3, <3>1, <3>2
  <2>5. CASE OnlyTaken
    <3>1. handed = <<0>> /\ total = 1 /\ pfree = 0 /\ free.taken = TRUE
          /\ rest.first = 0 /\ rest.count = 0
      BY <2>5 DEF OnlyTaken, NoRun
    <3>2. PagesOf(rest) = 1..(total - 1)
      BY <3>1 DEF PagesOf
    <3> QED  BY <2>3, <3>1, <3>2
  <2> QED  BY <1>1, <2>2, <2>4, <2>5 DEF SlabInv, PagesInv
<1>2. SlabInv => PagesAccounted
  BY <1>1 DEF PagesAccounted
<1> QED  BY <1>2, SlabInvariant, PTL

(***************************************************************************)
(* The statistics ngx_slab_alloc_locked keeps of its slots agree with the  *)
(* page it handed out, also after requests that found no page.             *)
(***************************************************************************)
THEOREM StatisticsAgree == Spec => []StatsAgree
<1>1. ASSUME SlabInv, state = "ready" PROVE StatsAgree
  <2>1. ASSUME NEW s \in SlotNums, slots[s] # NoPage
        PROVE  /\ \E i \in 1..Len(handed) : handed[i] = slots[s]
               /\ \A r \in SlotNums : slots[r] = slots[s] => r = s
    <3>1. /\ slots[s] = 0 /\ handed = <<0>>
          /\ \A r \in SlotNums : slots[r] # NoPage => r = s
      BY <1>1, <2>1 DEF SlabInv, StatsInv, SlotInv
    <3>2. 1 \in 1..Len(handed) /\ handed[1] = slots[s]
      BY <3>1
    <3> QED  BY <2>1, <3>1, <3>2
  <2> QED  BY <1>1, <2>1 DEF SlabInv, StatsInv, SlotInv, Chunks, StatsAgree
<1>2. SlabInv => StatsAgree
  BY <1>1 DEF StatsAgree
<1> QED  BY <1>2, SlabInvariant, PTL

(***************************************************************************)
(* The types of the rest: what ngx_slab_sizes_init and ngx_slab_init set.  *)
(***************************************************************************)
SlabTyped ==
  /\ state \in {"raw", "ready", "hung", "wild"}
  /\ exact_shift \in Nat /\ inits \in Nat /\ counted \in Nat
  /\ zone \in Nat /\ start \in Nat

LEMMA RoundsCounted ==
  ASSUME SlabAssumption, NEW n
  PROVE  Rounds(n) \in Nat
<1>1. PageShift \in Int
  BY SlabAssumption, SMT DEF SlabAssumption
<1>2. IsFiniteSet(1..PageShift)
  BY <1>1, FS_Interval
<1>3. {k \in 1..PageShift : 2 ^ k <= n} \subseteq 1..PageShift
  OBVIOUS
<1> QED  BY <1>2, <1>3, FS_Subset, FS_CardinalityType DEF Rounds

LEMMA TypedStep == SlabAssumption /\ SlabTyped /\ [Next]_vars => SlabTyped'
<1> SUFFICES ASSUME SlabAssumption, SlabTyped, [Next]_vars PROVE SlabTyped'
  OBVIOUS
<1>1. CASE UNCHANGED vars
  BY <1>1 DEF vars, layout, SlabTyped
<1>2. CASE ngx_slab_sizes_init
  <2>1. Rounds(PageSize \div 64) \in Nat
    BY RoundsCounted
  <2> DEFINE r == Rounds(PageSize \div 64)
  <2>2. exact_shift' = exact_shift + r /\ inits' = inits + 1 /\ r \in Nat
    BY <1>2, <2>1 DEF ngx_slab_sizes_init
  <2> HIDE DEF r
  <2>3. exact_shift' \in Nat /\ inits' \in Nat
    BY <2>2, SMT DEF SlabTyped
  <2> QED  BY <1>2, <2>3 DEF ngx_slab_sizes_init, layout, SlabTyped
<1>3. CASE ngx_slab_init
  <2>1. zone' \in ZoneSizes /\ start' = StartOf(zone')
    BY <1>3 DEF ngx_slab_init
  <2>2. zone' \in Nat /\ start' \in Nat
    BY <2>1, SizesFit, CountBound
  <2> QED  BY <1>3, <2>2 DEF ngx_slab_init, SlabTyped
<1>4. CASE ngx_slab_alloc_locked
  <2>1. UNCHANGED <<exact_shift, inits, layout>> /\ state = "ready"
    BY <1>4 DEF ngx_slab_alloc_locked
  <2>2. \/ state' \in {"hung", "wild"} /\ counted' = counted
        \/ (\E slot \in SlotNums : Serve(slot, MinSize)) /\ counted' = counted + 1
    BY <1>4 DEF ngx_slab_alloc_locked
  <2>3. state' \in {"ready", "hung", "wild"} /\ counted' \in Nat
    <3>1. counted + 1 \in Nat
      BY DEF SlabTyped
    <3>2. ASSUME NEW slot \in SlotNums, Serve(slot, MinSize)
          PROVE  state' \in {"ready", "wild"}
      BY <2>1, <3>2 DEF Serve, Served, Unset, Stray
    <3> QED  BY <2>2, <3>1, <3>2 DEF SlabTyped
  <2> QED  BY <2>1, <2>3 DEF layout, SlabTyped
<1> QED  BY <1>1, <1>2, <1>3, <1>4 DEF Next

(***************************************************************************)
(* ngx_slab_sizes_init, ngx_slab_init and ngx_slab_alloc_locked keep their *)
(* counts natural numbers: pool->pfree never goes below zero.              *)
(***************************************************************************)
THEOREM SlabTypeCorrect == Spec => []TypeOK
<1>1. Init => SlabTyped
  BY DEF Init, SlabTyped
<1>2. SlabTyped /\ [Next]_vars => SlabTyped'
  BY SlabAssumption, TypedStep
<1>3. SlabInv /\ SlabTyped => TypeOK
  <2> SUFFICES ASSUME SlabInv, SlabTyped PROVE TypeOK
    OBVIOUS
  <2>1. total \in Nat /\ (AllListed \/ RestSplit \/ OnlyTaken)
    BY DEF SlabInv, PagesInv
  <2>2. handed \in Seq(Nat)
    <3>1. <<>> \in Seq(Nat) /\ <<0>> \in Seq(Nat)
      OBVIOUS
    <3> QED  BY <2>1, <3>1 DEF AllListed, RestSplit, OnlyTaken
  <2>3. NoRun \in Runs
    BY DEF NoRun, Runs
  <2>4. pfree \in Nat /\ free \in Runs /\ rest \in Runs
    <3>1. CASE AllListed
      <4>1. free = [first |-> 0, count |-> total, taken |-> FALSE]
        BY <3>1 DEF AllListed, NoRun
      <4>2. free \in Runs
        BY <2>1, <4>1 DEF Runs
      <4> QED  BY <2>1, <2>3, <3>1, <4>2 DEF AllListed
    <3>2. CASE RestSplit
      <4>1. pfree \in Nat /\ total - 1 \in Nat /\ free = NoRun
        BY <2>1, <3>2 DEF RestSplit
      <4>2. rest \in Runs
        BY <3>2, <4>1 DEF RestSplit, Runs
      <4> QED  BY <2>3, <4>1, <4>2
    <3>3. CASE OnlyTaken
      <4>1. free \in Runs
        BY <3>3 DEF OnlyTaken, Runs
      <4> QED  BY <2>3, <3>3, <4>1 DEF OnlyTaken
    <3> QED  BY <2>1, <3>1, <3>2, <3>3
  <2> QED  BY <2>1, <2>2, <2>4 DEF SlabInv, StatsInv, SlabTyped, TypeOK
<1> QED  BY <1>1, <1>2, <1>3, SlabInvariant, PTL DEF Spec

-----------------------------------------------------------------------------
(***************************************************************************)
(* Shared memory                                                           *)
(***************************************************************************)
\* The /dev/zero build between its system calls.
ShmInv ==
  build = "devzero" =>
    /\ calls \in Nat /\ kept \subseteq 1..calls /\ logged = failing
    /\ doing = "nothing" =>
         /\ ~fd
         /\ result = "ok" => addr \in 1..calls /\ addr \notin kept /\ maps = kept \cup {addr}
         /\ result # "ok" => maps = kept
    /\ doing = "mmap" => maps = kept /\ calls \in 1..calls /\ calls \notin kept
    /\ doing = "close" =>
         \/ addr = MAP_FAILED /\ maps = kept
         \/ addr = calls /\ calls \in 1..calls /\ calls \notin kept /\ maps = kept \cup {calls}

LEMMA ShmInvInit == ShmInit => ShmInv
BY SMT DEF ShmInit, ShmInv

LEMMA ShmInvStep == ShmInv /\ [ShmNext]_shmVars => ShmInv'
<1> SUFFICES ASSUME ShmInv, [ShmNext]_shmVars PROVE ShmInv'
  OBVIOUS
<1>1. CASE UNCHANGED shmVars
  BY <1>1 DEF shmVars, ShmInv
<1>2. CASE AllocAnon
  BY <1>2 DEF AllocAnon, ShmInv
<1>3. CASE Open
  <2>1. build = "devzero" /\ build' = build /\ calls' = calls + 1 /\ kept' = kept /\ maps' = maps
        /\ result # "ok" /\ doing = "nothing" /\ logged' = failing'
        /\ (doing' = "mmap" \/ (doing' = "nothing" /\ fd' = fd /\ result' = "error"))
    BY <1>3 DEF Open, Asks
  <2>2. calls \in Nat /\ kept \subseteq 1..calls /\ maps = kept /\ ~fd
    BY <2>1 DEF ShmInv
  <2>3. /\ calls + 1 \in Nat /\ kept \subseteq 1..(calls + 1)
        /\ calls + 1 \in 1..(calls + 1) /\ calls + 1 \notin kept
    BY <2>2, SMT
  <2> QED  BY <2>1, <2>2, <2>3 DEF ShmInv
<1>4. CASE Map
  <2>1. CASE /\ addr' = calls /\ maps' = maps \cup {calls} /\ Succeeds
    BY <1>4, <2>1 DEF Map, Succeeds, ShmInv
  <2>2. CASE /\ addr' = MAP_FAILED /\ UNCHANGED maps /\ Fails("mmap") /\ Reports("mmap")
    BY <1>4, <2>2 DEF Map, Fails, Reports, ShmInv
  <2> QED  BY <1>4, <2>1, <2>2 DEF Map
<1>5. CASE Close
  <2>1. /\ doing = "close" /\ doing' = "nothing" /\ fd' = FALSE
        /\ UNCHANGED <<build, calls, addr, maps, kept>>
        /\ result' = IF addr = MAP_FAILED THEN "error" ELSE "ok"
    BY <1>5 DEF Close
  <2>2. logged = failing => logged' = failing'
    BY <1>5 DEF Close, Succeeds, Fails, Reports
  <2>3. calls \in 1..calls => calls # MAP_FAILED
    BY SMT DEF MAP_FAILED
  <2> QED  BY <2>1, <2>2, <2>3 DEF ShmInv
<1>6. CASE ngx_shm_free
  BY <1>6 DEF ngx_shm_free, ShmInv
<1> QED  BY <1>1, <1>2, <1>3, <1>4, <1>5, <1>6 DEF ShmNext

(***************************************************************************)
(* Over any number of calls of ngx_shm_alloc() and ngx_shm_free() and any  *)
(* system calls that fail in them, the /dev/zero build keeps no descriptor *)
(* and no mapping but the one it returned and those munmap() refused.      *)
(***************************************************************************)
THEOREM NothingElseKept == ZSpec => []ZoneOrNothing
<1>1. ZInit => ShmInv
  BY ShmInvInit DEF ZInit
<1>2. [ZNext]_zoneVars => [ShmNext]_shmVars
  BY DEF ZNext, zoneVars
<1>3. ShmInv => ZoneOrNothing
  BY DEF ShmInv, ZoneOrNothing
<1> QED  BY <1>1, <1>2, <1>3, ShmInvStep, PTL DEF ZSpec

-----------------------------------------------------------------------------
(***************************************************************************)
(* A slab pool in shared memory                                            *)
(***************************************************************************)
\* A zone is used by one pool of its size, and only builds that can say so say
\* that there is one.
UseInv ==
  /\ result = "ok" \/ doing # "nothing" => build = "devzero"
  /\ doing \in {"nothing", "mmap", "close"}
  /\ result = "ok" => doing = "nothing"
  /\ state # "raw" => doing = "nothing" /\ zone = size

LEMMA UseStep == UseInv /\ [ZNext]_zoneVars => UseInv'
<1> SUFFICES ASSUME UseInv, [ZNext]_zoneVars PROVE UseInv'
  OBVIOUS
<1> USE DEF UseInv
<1>1. CASE UNCHANGED zoneVars
  BY <1>1 DEF zoneVars, vars, layout, shmVars
<1>2. CASE ShmNext /\ (state = "raw" \/ result = "ok") /\ UNCHANGED vars
  <2>1. UNCHANGED <<state, zone>>
    BY <1>2 DEF vars, layout
  <2>2. CASE AllocAnon
    BY <1>2, <2>1, <2>2 DEF AllocAnon, Asks
  <2>3. CASE Open
    BY <1>2, <2>1, <2>3 DEF Open, Asks
  <2>4. CASE Map
    BY <1>2, <2>1, <2>4 DEF Map
  <2>5. CASE Close
    BY <1>2, <2>1, <2>5 DEF Close
  <2>6. CASE ngx_shm_free
    BY <1>2, <2>1, <2>6 DEF ngx_shm_free
  <2> QED  BY <1>2, <2>2, <2>3, <2>4, <2>5, <2>6 DEF ShmNext
<1>3. CASE ngx_slab_sizes_init /\ UNCHANGED shmVars
  BY <1>3 DEF ngx_slab_sizes_init, layout, shmVars
<1>4. CASE Shared /\ ngx_slab_init /\ zone' = size /\ UNCHANGED shmVars
  BY <1>4 DEF Shared, ngx_slab_init, shmVars
<1>5. CASE Shared /\ ngx_slab_alloc_locked /\ UNCHANGED shmVars
  BY <1>5 DEF Shared, ngx_slab_alloc_locked, layout, shmVars
<1> QED  BY <1>1, <1>2, <1>3, <1>4, <1>5 DEF ZNext

(***************************************************************************)
(* What ngx_shm_alloc() returns decides: a pool made when it said that     *)
(* there is a zone lies in memory that is mapped, with all the pages       *)
(* ngx_slab_init counted, until ngx_shm_free(), for every page and zone    *)
(* size and whichever system calls fail.                                   *)
(***************************************************************************)
THEOREM PoolLiesInMapping == ZSpec => []PoolInMapping
<1>1. ZInit => Init /\ ShmInv /\ UseInv
  BY ShmInvInit DEF ZInit, Init, ShmInit, UseInv
<1>2. [ZNext]_zoneVars => [Next]_vars /\ [ShmNext]_shmVars
  BY DEF ZNext, zoneVars, Next
<1>3. SlabInv /\ [Next]_vars => SlabInv'
  BY SlabAssumption, SlabStep
<1>4. SlabInv /\ ShmInv /\ UseInv => PoolInMapping
  <2> SUFFICES ASSUME SlabInv, ShmInv, UseInv, result = "ok", state # "raw"
               PROVE  addr \in maps /\ start + total * PageSize <= size
    BY DEF PoolInMapping
  <2>1. build = "devzero" /\ doing = "nothing" /\ zone = size
    BY DEF UseInv
  <2>2. addr \in maps
    BY <2>1 DEF ShmInv
  <2>3. start + total * PageSize <= zone
    BY SlabAssumption, LayoutFits DEF SlabInv, LaidOut
  <2> QED  BY <2>1, <2>2, <2>3
<1> QED  BY <1>1, <1>2, <1>3, <1>4, SlabInit, ShmInvStep, UseStep, PTL DEF ZSpec

=============================================================================
