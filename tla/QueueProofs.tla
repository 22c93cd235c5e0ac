---------------------------- MODULE QueueProofs ----------------------------
(***************************************************************************)
(* For any number of queues and elements, and builds with and without      *)
(* NGX_DEBUG, the pointers of module Queue form rings at all times, the    *)
(* rings hold sequences, and the operations do to them what module         *)
(* QueueSpec says.                                                         *)
(***************************************************************************)
EXTENDS Queue, Induction, SequenceTheorems, FiniteSetTheorems, TLAPS

Pointers == Nodes \cup {NULL}
Links == [next : [Nodes -> Pointers], prev : [Nodes -> Pointers]]

QueueInv == TypeOK /\ LinksInverse

-----------------------------------------------------------------------------
(* Assigning one pointer keeps the types of all and changes that one only. *)
LEMMA SetNextLinks ==
  ASSUME NEW L \in Links, NEW n \in Nodes, NEW p \in Pointers
  PROVE  /\ SetNext(L, n, p) \in Links
         /\ SetNext(L, n, p).next = [L.next EXCEPT ![n] = p]
         /\ SetNext(L, n, p).prev = L.prev
BY DEF Links, SetNext

LEMMA SetPrevLinks ==
  ASSUME NEW L \in Links, NEW n \in Nodes, NEW p \in Pointers
  PROVE  /\ SetPrev(L, n, p) \in Links
         /\ SetPrev(L, n, p).prev = [L.prev EXCEPT ![n] = p]
         /\ SetPrev(L, n, p).next = L.next
BY DEF Links, SetPrev

(* What each macro leaves in the pointers, the order of its assignments
   resolved.                                                               *)
LEMMA InitHeadLinks ==
  ASSUME NEW L \in Links, NEW h \in Nodes
  PROVE  /\ InitHead(L, h) \in Links
         /\ InitHead(L, h).next = [L.next EXCEPT ![h] = h]
         /\ InitHead(L, h).prev = [L.prev EXCEPT ![h] = h]
BY SetNextLinks, SetPrevLinks DEF InitHead, Pointers

LEMMA InsertHeadLinks ==
  ASSUME NEW L \in Links, NEW h \in Nodes, NEW x \in Nodes, x # h, L.next[h] \in Nodes
  PROVE  /\ InsertHead(L, h, x) \in Links
         /\ InsertHead(L, h, x).next = [[L.next EXCEPT ![x] = L.next[h]] EXCEPT ![h] = x]
         /\ InsertHead(L, h, x).prev = [[L.prev EXCEPT ![L.next[h]] = x] EXCEPT ![x] = h]
<1> DEFINE L1 == SetNext(L, x, L.next[h])
           L2 == SetPrev(L1, L1.next[x], x)
           L3 == SetPrev(L2, x, h)
           L4 == SetNext(L3, h, x)
<1>0. x \in Pointers /\ h \in Pointers /\ L.next[h] \in Pointers
  BY DEF Pointers
<1>1. L1 \in Links /\ L1.next = [L.next EXCEPT ![x] = L.next[h]] /\ L1.prev = L.prev
  BY <1>0, SetNextLinks
<1>2. L1.next[x] = L.next[h]
  BY <1>1 DEF Links
<1> HIDE DEF L1
<1>3. L2 \in Links /\ L2.next = L1.next /\ L2.prev = [L1.prev EXCEPT ![L.next[h]] = x]
  BY <1>0, <1>1, <1>2, SetPrevLinks
<1> HIDE DEF L2
<1>4. L3 \in Links /\ L3.next = L2.next /\ L3.prev = [L2.prev EXCEPT ![x] = h]
  BY <1>0, <1>3, SetPrevLinks
<1> HIDE DEF L3
<1>5. L4 \in Links /\ L4.prev = L3.prev /\ L4.next = [L3.next EXCEPT ![h] = x]
  BY <1>0, <1>4, SetNextLinks
<1> HIDE DEF L4
<1>6. InsertHead(L, h, x) = L4
  BY DEF InsertHead, L1, L2, L3, L4
<1> QED BY <1>1, <1>3, <1>4, <1>5, <1>6

LEMMA InsertTailLinks ==
  ASSUME NEW L \in Links, NEW h \in Nodes, NEW x \in Nodes, x # h, L.prev[h] \in Nodes
  PROVE  /\ InsertTail(L, h, x) \in Links
         /\ InsertTail(L, h, x).prev = [[L.prev EXCEPT ![x] = L.prev[h]] EXCEPT ![h] = x]
         /\ InsertTail(L, h, x).next = [[L.next EXCEPT ![L.prev[h]] = x] EXCEPT ![x] = h]
<1> DEFINE L1 == SetPrev(L, x, L.prev[h])
           L2 == SetNext(L1, L1.prev[x], x)
           L3 == SetNext(L2, x, h)
           L4 == SetPrev(L3, h, x)
<1>0. x \in Pointers /\ h \in Pointers /\ L.prev[h] \in Pointers
  BY DEF Pointers
<1>1. L1 \in Links /\ L1.prev = [L.prev EXCEPT ![x] = L.prev[h]] /\ L1.next = L.next
  BY <1>0, SetPrevLinks
<1>2. L1.prev[x] = L.prev[h]
  BY <1>1 DEF Links
<1> HIDE DEF L1
<1>3. L2 \in Links /\ L2.prev = L1.prev /\ L2.next = [L1.next EXCEPT ![L.prev[h]] = x]
  BY <1>0, <1>1, <1>2, SetNextLinks
<1> HIDE DEF L2
<1>4. L3 \in Links /\ L3.prev = L2.prev /\ L3.next = [L2.next EXCEPT ![x] = h]
  BY <1>0, <1>3, SetNextLinks
<1> HIDE DEF L3
<1>5. L4 \in Links /\ L4.next = L3.next /\ L4.prev = [L3.prev EXCEPT ![h] = x]
  BY <1>0, <1>4, SetPrevLinks
<1> HIDE DEF L4
<1>6. InsertTail(L, h, x) = L4
  BY DEF InsertTail, L1, L2, L3, L4
<1> QED BY <1>1, <1>3, <1>4, <1>5, <1>6

LEMMA UnlinkLinks ==
  ASSUME NEW L \in Links, NEW x \in Nodes, L.next[x] \in Nodes, L.prev[x] \in Nodes,
         L.next[x] = x => L.prev[x] = x
  PROVE  /\ Unlink(L, x) \in Links
         /\ Unlink(L, x).prev = [L.prev EXCEPT ![L.next[x]] = L.prev[x]]
         /\ Unlink(L, x).next = [L.next EXCEPT ![L.prev[x]] = L.next[x]]
<1> DEFINE L1 == SetPrev(L, L.next[x], L.prev[x])
           L2 == SetNext(L1, L1.prev[x], L1.next[x])
<1>0. L.next[x] \in Pointers /\ L.prev[x] \in Pointers
  BY DEF Pointers
<1>1. L1 \in Links /\ L1.prev = [L.prev EXCEPT ![L.next[x]] = L.prev[x]] /\ L1.next = L.next
  BY <1>0, SetPrevLinks
<1>2. L1.prev[x] = L.prev[x]
  BY <1>1 DEF Links
<1> HIDE DEF L1
<1>3. L2 \in Links /\ L2.prev = L1.prev /\ L2.next = [L1.next EXCEPT ![L.prev[x]] = L.next[x]]
  BY <1>0, <1>1, <1>2, SetNextLinks
<1> HIDE DEF L2
<1>4. Unlink(L, x) = L2
  BY DEF Unlink, L1, L2
<1> QED BY <1>1, <1>3, <1>4

\* With and without the two assignments of NGX_DEBUG, other nodes are left alone.
LEMMA RemoveLinks ==
  ASSUME NEW L \in Links, NEW x \in Nodes, NEW clear \in BOOLEAN, Unlink(L, x) \in Links
  PROVE  /\ RemoveNode(L, x, clear) \in Links
         /\ \A n \in Nodes \ {x} :
              /\ RemoveNode(L, x, clear).next[n] = Unlink(L, x).next[n]
              /\ RemoveNode(L, x, clear).prev[n] = Unlink(L, x).prev[n]
<1> DEFINE U == Unlink(L, x)
           P == SetPrev(U, x, NULL)
<1>0. NULL \in Pointers /\ U \in Links
  BY DEF Pointers
<1>1. CASE clear
  <2>1. P \in Links /\ P.next = U.next /\ P.prev = [U.prev EXCEPT ![x] = NULL]
    BY <1>0, SetPrevLinks
  <2> HIDE DEF P
  <2>2. /\ SetNext(P, x, NULL) \in Links /\ SetNext(P, x, NULL).prev = P.prev
        /\ SetNext(P, x, NULL).next = [P.next EXCEPT ![x] = NULL]
    BY <1>0, <2>1, SetNextLinks
  <2>3. RemoveNode(L, x, clear) = SetNext(P, x, NULL)
    BY <1>1 DEF RemoveNode, P
  <2> QED BY <2>1, <2>2, <2>3 DEF Links
<1>2. CASE ~clear
  BY <1>2 DEF RemoveNode
<1> QED BY <1>1, <1>2

-----------------------------------------------------------------------------
LEMMA InitInv == Init => QueueInv
BY QueueAssumption DEF QueueAssumption, Init, QueueInv, TypeOK, LinksInverse, Links

(* A removed element cannot be the neighbour of what stays.                *)
LEMMA RemovePreserves ==
  ASSUME QueueInv, NEW x \in Nodes, ngx_queue_remove(x)
  PROVE  QueueInv'
<1>1. link \in Links /\ x \in Nodes /\ debug \in BOOLEAN /\ x \in inUse /\ inUse \subseteq Nodes
  BY DEF QueueInv, LinksInverse, TypeOK, Links, Pointers, Nodes, ngx_queue_remove
<1>2. /\ link.next[x] \in Nodes /\ link.prev[x] \in Nodes
      /\ link.next[x] = x => link.prev[x] = x
  BY <1>1 DEF QueueInv, LinksInverse
<1>3. /\ Unlink(link, x) \in Links
      /\ Unlink(link, x).prev = [link.prev EXCEPT ![link.next[x]] = link.prev[x]]
      /\ Unlink(link, x).next = [link.next EXCEPT ![link.prev[x]] = link.next[x]]
  BY <1>1, <1>2, UnlinkLinks
<1>4. /\ link' \in Links
      /\ \A n \in Nodes \ {x} : /\ link'.next[n] = Unlink(link, x).next[n]
                                /\ link'.prev[n] = Unlink(link, x).prev[n]
  <2>1. link' = RemoveNode(link, x, debug)
    BY DEF ngx_queue_remove
  <2>2. debug \in BOOLEAN /\ Unlink(link, x) \in Links /\ link \in Links
    BY <1>1, <1>3
  <2>3. /\ RemoveNode(link, x, debug) \in Links
        /\ \A n \in Nodes \ {x} :
             /\ RemoveNode(link, x, debug).next[n] = Unlink(link, x).next[n]
             /\ RemoveNode(link, x, debug).prev[n] = Unlink(link, x).prev[n]
    BY <2>2, RemoveLinks
  <2> QED BY <2>1, <2>3
<1>5. inUse' = inUse \ {x} /\ debug' = debug
  BY DEF ngx_queue_remove
<1>6. \A n \in inUse \ {x} :
        /\ link'.next[n] = IF n = link.prev[x] THEN link.next[x] ELSE link.next[n]
        /\ link'.prev[n] = IF n = link.next[x] THEN link.prev[x] ELSE link.prev[n]
  BY <1>1, <1>3, <1>4 DEF Links
<1>7. LinksInverse'
  BY <1>1, <1>5, <1>6 DEF QueueInv, LinksInverse
<1> QED BY <1>1, <1>4, <1>5, <1>7 DEF QueueInv, TypeOK, Links, Pointers

(* The pointers of everything in use after an insertion.                   *)
LEMMA InsertHeadStep ==
  ASSUME QueueInv, NEW n \in Nodes, NEW x \in Elements, ngx_queue_insert_head(n, x)
  PROVE  /\ link' \in Links
         /\ link'.next[x] = link.next[n]
         /\ \A m \in inUse : link'.next[m] = IF m = n THEN x ELSE link.next[m]
         /\ link'.prev[x] = n
         /\ \A m \in inUse : link'.prev[m] = IF m = link.next[n] THEN x ELSE link.prev[m]
<1>1. /\ link \in Links /\ x \in Nodes /\ n \in inUse /\ x \notin inUse /\ x # n
      /\ inUse \subseteq Nodes /\ link.next[n] \in Nodes
  BY DEF QueueInv, LinksInverse, TypeOK, Links, Pointers, Nodes, ngx_queue_insert_head
<1>2. /\ link' \in Links
      /\ link'.next = [[link.next EXCEPT ![x] = link.next[n]] EXCEPT ![n] = x]
      /\ link'.prev = [[link.prev EXCEPT ![link.next[n]] = x] EXCEPT ![x] = n]
  <2>1. link' = InsertHead(link, n, x)
    BY DEF ngx_queue_insert_head
  <2> QED BY <1>1, <2>1, InsertHeadLinks
<1> QED BY <1>1, <1>2 DEF Links

LEMMA InsertTailStep ==
  ASSUME QueueInv, NEW n \in Nodes, NEW x \in Elements, ngx_queue_insert_tail(n, x)
  PROVE  /\ link' \in Links
         /\ link'.prev[x] = link.prev[n]
         /\ \A m \in inUse : link'.prev[m] = IF m = n THEN x ELSE link.prev[m]
         /\ link'.next[x] = n
         /\ \A m \in inUse : link'.next[m] = IF m = link.prev[n] THEN x ELSE link.next[m]
<1>1. /\ link \in Links /\ x \in Nodes /\ n \in inUse /\ x \notin inUse /\ x # n
      /\ inUse \subseteq Nodes /\ link.prev[n] \in Nodes
  BY DEF QueueInv, LinksInverse, TypeOK, Links, Pointers, Nodes, ngx_queue_insert_tail
<1>2. /\ link' \in Links
      /\ link'.prev = [[link.prev EXCEPT ![x] = link.prev[n]] EXCEPT ![n] = x]
      /\ link'.next = [[link.next EXCEPT ![link.prev[n]] = x] EXCEPT ![x] = n]
  <2>1. link' = InsertTail(link, n, x)
    BY DEF ngx_queue_insert_tail
  <2> QED BY <1>1, <2>1, InsertTailLinks
<1> QED BY <1>1, <1>2 DEF Links

LEMMA InsertHeadPreserves ==
  ASSUME QueueInv, NEW n \in Nodes, NEW x \in Elements, ngx_queue_insert_head(n, x)
  PROVE  QueueInv'
<1>1. x \in Nodes /\ n \in inUse /\ x \notin inUse /\ inUse' = inUse \cup {x} /\ debug' = debug
  BY DEF ngx_queue_insert_head, Nodes
<1>2. LinksInverse'
  BY <1>1, InsertHeadStep DEF QueueInv, LinksInverse
<1>3. link' \in Links
  BY InsertHeadStep
<1> QED BY <1>1, <1>2, <1>3 DEF QueueInv, TypeOK, Links, Pointers

LEMMA InsertTailPreserves ==
  ASSUME QueueInv, NEW n \in Nodes, NEW x \in Elements, ngx_queue_insert_tail(n, x)
  PROVE  QueueInv'
<1>1. x \in Nodes /\ n \in inUse /\ x \notin inUse /\ inUse' = inUse \cup {x} /\ debug' = debug
  BY DEF ngx_queue_insert_tail, Nodes
<1>2. LinksInverse'
  BY <1>1, InsertTailStep DEF QueueInv, LinksInverse
<1>3. link' \in Links
  BY InsertTailStep
<1> QED BY <1>1, <1>2, <1>3 DEF QueueInv, TypeOK, Links, Pointers

LEMMA InitHeadPreserves ==
  ASSUME QueueInv, NEW h \in Heads, ngx_queue_init(h)
  PROVE  QueueInv'
<1>1. /\ link \in Links /\ h \in Nodes /\ inUse \subseteq Nodes
      /\ h \in inUse => link.prev[h] = h
  BY DEF QueueInv, LinksInverse, TypeOK, Links, Pointers, Nodes, ngx_queue_init
<1>2. /\ link' \in Links
      /\ link'.next = [link.next EXCEPT ![h] = h]
      /\ link'.prev = [link.prev EXCEPT ![h] = h]
  <2>1. link' = InitHead(link, h)
    BY DEF ngx_queue_init
  <2> QED BY <1>1, <2>1, InitHeadLinks
<1>3. inUse' = inUse \cup {h} /\ debug' = debug
  BY DEF ngx_queue_init
<1>4. \A m \in inUse \cup {h} :
        /\ link'.next[m] = IF m = h THEN h ELSE link.next[m]
        /\ link'.prev[m] = IF m = h THEN h ELSE link.prev[m]
  BY <1>1, <1>2 DEF Links
<1>5. LinksInverse'
  BY <1>1, <1>3, <1>4 DEF QueueInv, LinksInverse
<1> QED BY <1>1, <1>2, <1>3, <1>5 DEF QueueInv, TypeOK, Links, Pointers

(* Every step keeps the rings, the removal of a first or last element being
   the removal of a node that is in use.                                   *)
LEMMA StepInv == QueueInv /\ [Next]_vars => QueueInv'
<1> SUFFICES ASSUME QueueInv, [Next]_vars PROVE QueueInv'
  OBVIOUS
<1>1. ASSUME NEW h \in Heads, ngx_queue_init(h) PROVE QueueInv'
  BY <1>1, InitHeadPreserves
<1>2. ASSUME NEW h \in Heads, RemoveFirst(h) \/ RemoveLast(h) PROVE QueueInv'
  <2>1. link.next[h] \in Nodes /\ link.prev[h] \in Nodes
    BY <1>2 DEF QueueInv, TypeOK, LinksInverse, RemoveFirst, RemoveLast
  <2>2. ngx_queue_remove(link.next[h]) \/ ngx_queue_remove(link.prev[h])
    BY <1>2 DEF RemoveFirst, RemoveLast
  <2> QED BY <2>1, <2>2, RemovePreserves
<1>3. ASSUME NEW n \in Nodes, NEW x \in Elements, ngx_queue_insert_head(n, x) PROVE QueueInv'
  BY <1>3, InsertHeadPreserves
<1>4. ASSUME NEW n \in Nodes, NEW x \in Elements, ngx_queue_insert_tail(n, x) PROVE QueueInv'
  BY <1>4, InsertTailPreserves
<1>5. ASSUME NEW x \in Elements, ngx_queue_remove(x) PROVE QueueInv'
  BY <1>5, RemovePreserves DEF Nodes
<1>6. CASE UNCHANGED vars
  BY <1>6 DEF vars, QueueInv, TypeOK, LinksInverse
<1> QED BY <1>1, <1>2, <1>3, <1>4, <1>5, <1>6 DEF Next

(* After any sequence of insertions and removals the pointers of everything
   in a queue are rings, and lead to nothing that was removed.             *)
THEOREM RingsStayClosed == Spec => []LinksInverse
<1>1. QueueInv => LinksInverse
  BY DEF QueueInv
<1> QED BY InitInv, StepInv, <1>1, PTL DEF Spec

-----------------------------------------------------------------------------
(***************************************************************************)
(* The rings are sequences.  c gives each queue its contents; the k-th     *)
(* node of the ring of h is h itself for k = 0 and once more behind the    *)
(* last element.                                                           *)
(***************************************************************************)
At(s, h, k) == IF k \in 1..Len(s) THEN s[k] ELSE h

Ring(L, h, s) == \A k \in 0..Len(s) : L.next[At(s, h, k)] = At(s, h, k + 1)

Apart(c) ==
  \A g \in Heads, h \in Heads : \A i \in 1..Len(c[g]), j \in 1..Len(c[h]) :
    c[g][i] = c[h][j] => g = h /\ i = j

Represents(L, used, c) ==
  /\ c \in [Heads -> Seq(Elements)]
  /\ \A h \in Heads \cap used : Ring(L, h, c[h])
  /\ \A h \in Heads \ used : c[h] = <<>>
  /\ Apart(c)
  /\ \A h \in Heads : \A i \in 1..Len(c[h]) : c[h][i] \in used
  /\ \A x \in Elements \cap used : \E h \in Heads : \E i \in 1..Len(c[h]) : c[h][i] = x

RefInv == QueueInv /\ \E c : Represents(link, inUse, c)

-----------------------------------------------------------------------------
(* Insertion into and removal from a sequence.                             *)
Inserted(s, i, x) == SubSeq(s, 1, i - 1) \o <<x>> \o SubSeq(s, i, Len(s))
Without(s, i)     == SubSeq(s, 1, i - 1) \o SubSeq(s, i + 1, Len(s))

LEMMA Part ==
  ASSUME NEW S, NEW s \in Seq(S), NEW a \in 1..(Len(s) + 1), NEW b \in 0..Len(s)
  PROVE  /\ SubSeq(s, a, b) \in Seq(S)
         /\ Len(SubSeq(s, a, b)) = IF a <= b THEN (b - a) + 1 ELSE 0
         /\ \A k \in 1..((b - a) + 1) : SubSeq(s, a, b)[k] = s[(a + k) - 1]
<1>1. Len(s) \in Nat /\ a \in Int /\ b \in Int
  BY LenProperties
<1>2. \A k \in a..b : s[k] \in S
  BY <1>1, ElementOfSeq
<1>3. /\ SubSeq(s, a, b) \in Seq(S)
      /\ Len(SubSeq(s, a, b)) = IF a <= b THEN b - a + 1 ELSE 0
      /\ \A k \in 1..b - a + 1 : SubSeq(s, a, b)[k] = s[a + k - 1]
  BY <1>1, <1>2, SubSeqProperties
<1>4. b - a + 1 = (b - a) + 1 /\ \A k \in Int : a + k - 1 = (a + k) - 1
  BY <1>1
<1> QED  BY <1>1, <1>3, <1>4

LEMMA InsertedIs ==
  ASSUME NEW S, NEW s \in Seq(S), NEW i \in 1..(Len(s) + 1), NEW x \in S
  PROVE  /\ Inserted(s, i, x) \in Seq(S) /\ Len(Inserted(s, i, x)) = Len(s) + 1
         /\ \A k \in 1..(Len(s) + 1) :
              Inserted(s, i, x)[k] = IF k < i THEN s[k] ELSE IF k = i THEN x ELSE s[k - 1]
<1> DEFINE p == SubSeq(s, 1, i - 1)
           q == SubSeq(s, i, Len(s))
           m == p \o <<x>>
<1>1. Len(s) \in Nat /\ i \in Nat
  BY LenProperties
<1>2. p \in Seq(S) /\ Len(p) = i - 1 /\ \A k \in 1..(i - 1) : p[k] = s[k]
  <2>1. /\ p \in Seq(S) /\ Len(p) = IF 1 <= i - 1 THEN ((i - 1) - 1) + 1 ELSE 0
        /\ \A k \in 1..(((i - 1) - 1) + 1) : p[k] = s[(1 + k) - 1]
    BY <1>1, Part
  <2> HIDE DEF p
  <2> QED  BY <1>1, <2>1
<1>3. q \in Seq(S) /\ Len(q) = (Len(s) - i) + 1 /\ \A k \in 1..((Len(s) - i) + 1) : q[k] = s[(i + k) - 1]
  <2>1. /\ q \in Seq(S) /\ Len(q) = IF i <= Len(s) THEN (Len(s) - i) + 1 ELSE 0
        /\ \A k \in 1..((Len(s) - i) + 1) : q[k] = s[(i + k) - 1]
    BY <1>1, Part
  <2> HIDE DEF q
  <2> QED  BY <1>1, <2>1
<1> HIDE DEF p, q
<1>4. m \in Seq(S) /\ Len(m) = i /\ \A k \in 1..i : m[k] = IF k < i THEN s[k] ELSE x
  <2>1. <<x>> \in Seq(S) /\ Len(<<x>>) = 1 /\ <<x>>[1] = x
    OBVIOUS
  <2>2. /\ m \in Seq(S) /\ Len(m) = Len(p) + 1
        /\ \A k \in 1..(Len(p) + 1) : m[k] = IF k <= Len(p) THEN p[k] ELSE <<x>>[k - Len(p)]
    BY <1>2, <2>1, ConcatProperties
  <2> HIDE DEF m
  <2> QED  BY <1>1, <1>2, <2>1, <2>2
<1> HIDE DEF m
<1>5. /\ m \o q \in Seq(S) /\ Len(m \o q) = Len(m) + Len(q)
      /\ \A k \in 1..(Len(m) + Len(q)) : (m \o q)[k] = IF k <= Len(m) THEN m[k] ELSE q[k - Len(m)]
  BY <1>3, <1>4, ConcatProperties
<1>6. Inserted(s, i, x) = m \o q
  BY DEF Inserted, m, p, q
<1> DEFINE r == Inserted(s, i, x)
<1> HIDE DEF r
<1>7. r \in Seq(S) /\ Len(r) = Len(s) + 1
  BY <1>1, <1>3, <1>4, <1>5, <1>6 DEF r
<1>8. ASSUME NEW k \in 1..(Len(s) + 1)
      PROVE  r[k] = IF k < i THEN s[k] ELSE IF k = i THEN x ELSE s[k - 1]
  <2>1. k \in 1..(Len(m) + Len(q)) /\ Len(m) = i
    BY <1>1, <1>3, <1>4
  <2>2. r[k] = IF k <= i THEN m[k] ELSE q[k - i]
    BY <1>5, <1>6, <2>1 DEF r
  <2>3. CASE k <= i
    BY <1>1, <1>4, <2>2, <2>3
  <2>4. CASE k > i
    <3>1. k - i \in 1..((Len(s) - i) + 1) /\ (i + (k - i)) - 1 = k - 1
      BY <1>1, <2>4
    <3>2. q[k - i] = s[k - 1]
      BY <1>3, <3>1
    <3> QED  BY <1>1, <2>2, <2>4, <3>2
  <2> QED  BY <1>1, <2>3, <2>4
<1> QED  BY <1>7, <1>8 DEF r

LEMMA WithoutIs ==
  ASSUME NEW S, NEW s \in Seq(S), NEW i \in 1..Len(s)
  PROVE  /\ Without(s, i) \in Seq(S) /\ Len(Without(s, i)) = Len(s) - 1
         /\ \A k \in 1..(Len(s) - 1) : Without(s, i)[k] = IF k < i THEN s[k] ELSE s[k + 1]
<1> DEFINE p == SubSeq(s, 1, i - 1)
           q == SubSeq(s, i + 1, Len(s))
<1>1. Len(s) \in Nat /\ i \in Nat
  BY LenProperties
<1>2. p \in Seq(S) /\ Len(p) = i - 1 /\ \A k \in 1..(i - 1) : p[k] = s[k]
  <2>1. /\ p \in Seq(S) /\ Len(p) = IF 1 <= i - 1 THEN ((i - 1) - 1) + 1 ELSE 0
        /\ \A k \in 1..(((i - 1) - 1) + 1) : p[k] = s[(1 + k) - 1]
    BY <1>1, Part
  <2> HIDE DEF p
  <2> QED  BY <1>1, <2>1
<1>3. q \in Seq(S) /\ Len(q) = Len(s) - i /\ \A k \in 1..(Len(s) - i) : q[k] = s[i + k]
  <2>1. /\ q \in Seq(S) /\ Len(q) = IF i + 1 <= Len(s) THEN (Len(s) - (i + 1)) + 1 ELSE 0
        /\ \A k \in 1..((Len(s) - (i + 1)) + 1) : q[k] = s[((i + 1) + k) - 1]
    BY <1>1, Part
  <2> HIDE DEF q
  <2>2. Len(q) = Len(s) - i
    BY <1>1, <2>1
  <2>3. ASSUME NEW k \in 1..(Len(s) - i) PROVE q[k] = s[i + k]
    <3>1. k \in 1..((Len(s) - (i + 1)) + 1) /\ ((i + 1) + k) - 1 = i + k
      BY <1>1
    <3>2. q[k] = s[((i + 1) + k) - 1]
      BY <2>1, <3>1
    <3> QED  BY <3>1, <3>2
  <2> QED  BY <2>1, <2>2, <2>3
<1> HIDE DEF p, q
<1>5. /\ p \o q \in Seq(S) /\ Len(p \o q) = Len(p) + Len(q)
      /\ \A k \in 1..(Len(p) + Len(q)) : (p \o q)[k] = IF k <= Len(p) THEN p[k] ELSE q[k - Len(p)]
  BY <1>2, <1>3, ConcatProperties
<1> DEFINE r == Without(s, i)
<1>6. r = p \o q
  BY DEF Without, p, q
<1> HIDE DEF r
<1>7. r \in Seq(S) /\ Len(r) = Len(s) - 1
  BY <1>1, <1>2, <1>3, <1>5, <1>6, SMTT(30)
<1>8. ASSUME NEW k \in 1..(Len(s) - 1)
      PROVE  r[k] = IF k < i THEN s[k] ELSE s[k + 1]
  <2>1. k \in 1..(Len(p) + Len(q)) /\ Len(p) = i - 1
    BY <1>1, <1>2, <1>3
  <2>2. r[k] = IF k <= i - 1 THEN p[k] ELSE q[k - (i - 1)]
    BY <1>5, <1>6, <2>1
  <2>3. CASE k < i
    BY <1>1, <1>2, <2>2, <2>3
  <2>4. CASE ~(k < i)
    <3>1. k - (i - 1) \in 1..(Len(s) - i) /\ i + (k - (i - 1)) = k + 1
      BY <1>1, <2>4
    <3>2. q[k - (i - 1)] = s[k + 1]
      BY <1>3, <3>1
    <3> QED  BY <1>1, <2>2, <2>4, <3>2
  <2> QED  BY <2>3, <2>4
<1> QED  BY <1>7, <1>8 DEF r

-----------------------------------------------------------------------------
(* The loop over a queue.                                                  *)
LEMMA RingNodes ==
  ASSUME NEW h \in Heads, NEW s \in Seq(Elements)
  PROVE  /\ Len(s) \in Nat
         /\ \A k \in 1..Len(s) : s[k] \in Elements /\ s[k] # h /\ At(s, h, k) = s[k]
         /\ At(s, h, 0) = h /\ At(s, h, Len(s) + 1) = h
         /\ \A k \in Int : At(s, h, k) \in Nodes
<1>1. Len(s) \in Nat /\ \A k \in 1..Len(s) : s[k] \in Elements
  BY LenProperties, ElementOfSeq
<1>2. h \in Nodes /\ h \notin Elements /\ Elements \subseteq Nodes
  BY QueueAssumption DEF QueueAssumption, Nodes
<1> QED  BY <1>1, <1>2 DEF At

LEMMA RingFits ==
  ASSUME NEW h \in Heads, NEW s \in Seq(Elements),
         \A i \in 1..Len(s), j \in 1..Len(s) : s[i] = s[j] => i = j
  PROVE  Cardinality(Nodes) \in Nat /\ Len(s) + 1 <= Cardinality(Nodes)
<1> DEFINE n == Len(s) + 1
           f == [k \in 1..n |-> At(s, h, k)]
<1>1. /\ Len(s) \in Nat
      /\ \A k \in 1..Len(s) : s[k] # h /\ At(s, h, k) = s[k]
      /\ At(s, h, n) = h
      /\ \A k \in Int : At(s, h, k) \in Nodes
  BY RingNodes
<1>2. f \in [1..n -> Nodes]
  BY <1>1
<1>3. ASSUME NEW a \in 1..n, NEW b \in 1..n, f[a] = f[b] PROVE a = b
  <2>1. \A k \in 1..n : k = n \/ k \in 1..Len(s)
    BY <1>1
  <2>2. At(s, h, a) = At(s, h, b)
    BY <1>3
  <2> QED  BY <1>1, <2>1, <2>2
<1>4. f \in Injection(1..n, Nodes)
  BY <1>2, <1>3 DEF Injection, IsInjective
<1>5. IsFiniteSet(Nodes)
  BY QueueAssumption, FS_Union DEF QueueAssumption, Nodes
<1>6. Cardinality(1..n) <= Cardinality(Nodes)
  BY <1>4, <1>5, FS_Injection
<1>7. Cardinality(1..n) = n
  <2>1. Cardinality(1..n) = IF 1 > n THEN 0 ELSE n - 1 + 1
    BY <1>1, FS_Interval
  <2> QED  BY <1>1, <2>1
<1> QED  BY <1>5, <1>6, <1>7, FS_CardinalityType

LEMMA WalkIs ==
  ASSUME NEW L, NEW h \in Heads, NEW s \in Seq(Elements), Ring(L, h, s),
         \A i \in 1..Len(s), j \in 1..Len(s) : s[i] = s[j] => i = j
  PROVE  Walk(L, h) = s
<1> DEFINE N == Cardinality(Nodes)
           n == Len(s) + 1
           S == {At(s, h, k) : k \in 0..Len(s)}
           p == [k \in 1..N |-> k - 1]
           step == [kv \in (1..N) \X S |-> L.next[kv[2]]]
           Back(g) == CHOOSE i \in 1..N : g[i] = h /\ \A j \in 1..(i - 1) : g[j] # h
<1>1. /\ Len(s) \in Nat
      /\ \A k \in 1..Len(s) : s[k] # h /\ At(s, h, k) = s[k]
      /\ At(s, h, 0) = h /\ At(s, h, n) = h
  BY RingNodes
<1>2. N \in Nat /\ n <= N /\ n \in 1..N
  BY <1>1, RingFits
<1>3. h \in S
  BY <1>1
<1>4. \A m \in S : L.next[m] \in S
  <2> SUFFICES ASSUME NEW k \in 0..Len(s) PROVE L.next[At(s, h, k)] \in S
    BY Zenon
  <2>1. L.next[At(s, h, k)] = At(s, h, k + 1)
    BY DEF Ring
  <2>2. CASE k = Len(s)
    BY <1>1, <1>3, <2>1, <2>2
  <2>3. CASE k # Len(s)
    <3>1. k + 1 \in 0..Len(s)
      BY <1>1, <2>3
    <3> QED  BY <2>1, <3>1
  <2> QED  BY <2>2, <2>3
<1> HIDE DEF N, S
<1>5. p \in [1..N -> Nat] /\ \A k \in 1..N : p[k] < k /\ p[k] = k - 1
  BY <1>2
<1>6. step \in [(1..N) \X S -> S] /\ \A k \in 1..N, m \in S : step[<<k, m>>] = L.next[m]
  BY <1>4
<1> HIDE DEF p, step
<1>7. PICK f : Recursion(f, N, S, h, p, step)
  BY <1>2, <1>3, <1>5, <1>6, RecursionHasSolution
<1>8. f = [i \in 0..N |-> IF i = 0 THEN h ELSE L.next[f[i - 1]]]
  <2>1. /\ f \in [0..N -> S] /\ f[0] = h
        /\ \A k \in 1..N : f[k] = step[<<k, f[p[k]]>>]
    BY <1>7 DEF Recursion
  <2>2. ASSUME NEW k \in 1..N PROVE f[k] = L.next[f[k - 1]]
    <3>1. p[k] \in 0..N /\ p[k] = k - 1
      BY <1>2, <1>5
    <3>2. f[p[k]] \in S
      BY <2>1, <3>1
    <3>3. step[<<k, f[p[k]]>>] = L.next[f[p[k]]]
      BY <1>6, <3>2
    <3>4. f[k] = step[<<k, f[p[k]]>>]
      BY <2>1
    <3> QED  BY <3>1, <3>3, <3>4, Zenon
  <2>3. \A i \in 0..N : i = 0 \/ i \in 1..N
    BY <1>2
  <2> QED  BY <2>1, <2>2, <2>3
<1>9. ASSUME NEW g, g = [i \in 0..N |-> IF i = 0 THEN h ELSE L.next[g[i - 1]]]
      PROVE  [i \in 1..(Back(g) - 1) |-> g[i]] = s
  <2> DEFINE T == {k \in 0..n : g[k] # At(s, h, k)}
  <2>1. g[0] = h /\ \A k \in 1..n : g[k] = L.next[g[k - 1]]
    <3>1. 0 \in 0..N /\ \A k \in 1..n : k \in 0..N /\ k # 0
      BY <1>1, <1>2
    <3> QED  BY <1>9, <3>1
  <2>2. T = {}
    <3> SUFFICES ASSUME T # {} PROVE FALSE
      OBVIOUS
    <3>1. T \in SUBSET Nat
      OBVIOUS
    <3>2. PICK k \in T : \A m \in T : k <= m
      BY <3>1, LeastNumber
    <3>3. k \in 0..n /\ g[k] # At(s, h, k)
      BY <3>2
    <3>4. k # 0
      BY <1>1, <2>1, <3>3
    <3>5. k \in 1..n /\ k - 1 \in 0..n /\ k - 1 \in 0..Len(s) /\ ~(k <= k - 1) /\ (k - 1) + 1 = k
      BY <1>1, <3>3, <3>4
    <3>6. g[k - 1] = At(s, h, k - 1)
      BY <3>2, <3>5
    <3>7. L.next[At(s, h, k - 1)] = At(s, h, (k - 1) + 1)
      BY <3>5 DEF Ring
    <3> QED  BY <2>1, <3>3, <3>5, <3>6, <3>7
  <2>3. \A k \in 0..n : g[k] = At(s, h, k)
    BY <2>2
  <2>4. g[n] = h /\ \A k \in 1..Len(s) : g[k] = s[k] /\ g[k] # h
    <3>1. n \in 0..n /\ \A k \in 1..Len(s) : k \in 0..n
      BY <1>1
    <3> QED  BY <1>1, <2>3, <3>1
  <2>5. Back(g) = n
    <3> DEFINE Return(i) == g[i] = h /\ \A j \in 1..(i - 1) : g[j] # h
    <3>1. n \in 1..N /\ Return(n)
      BY <1>1, <1>2, <2>4
    <3>2. ASSUME NEW i \in 1..N, Return(i) PROVE i = n
      <4>1. CASE i < n
        BY <1>1, <2>4, <3>2, <4>1
      <4>2. CASE i > n
        <5>1. n \in 1..(i - 1)
          BY <1>1, <4>2
        <5> QED  BY <2>4, <3>2, <5>1
      <4> QED  BY <1>1, <4>1, <4>2
    <3> HIDE DEF Return
    <3>3. (CHOOSE i \in 1..N : Return(i)) = n
      BY <3>1, <3>2
    <3> QED  BY <3>3 DEF Return
  <2>6. [i \in 1..Len(s) |-> g[i]] = s
    <3>1. s = [i \in 1..Len(s) |-> s[i]]
      BY LenProperties
    <3> QED  BY <2>4, <3>1
  <2> HIDE DEF Back
  <2>7. Back(g) - 1 = Len(s)
    <3>1. n - 1 = Len(s)
      BY <1>1
    <3> HIDE DEF n
    <3> QED BY <2>5, <3>1
  <2> QED  BY <2>6, <2>7
<1> QED  BY <1>8, <1>9 DEF Walk, N

(* Under Represents the nodes of all rings are different, and in use.      *)
LEMMA RingsApart ==
  ASSUME NEW L, NEW used, NEW c, Represents(L, used, c),
         NEW g \in Heads \cap used, NEW h \in Heads \cap used,
         NEW j \in 0..Len(c[g]), NEW k \in 0..Len(c[h])
  PROVE  /\ At(c[g], g, j) \in used
         /\ At(c[g], g, j) = At(c[h], h, k) => g = h /\ j = k
<1>1. c[g] \in Seq(Elements) /\ c[h] \in Seq(Elements) /\ Len(c[g]) \in Nat /\ Len(c[h]) \in Nat
  BY LenProperties DEF Represents
<1>2. /\ j = 0 \/ j \in 1..Len(c[g])
      /\ k = 0 \/ k \in 1..Len(c[h])
  BY <1>1
<1>3. /\ j = 0 => At(c[g], g, j) = g
      /\ k = 0 => At(c[h], h, k) = h
      /\ j \in 1..Len(c[g]) => At(c[g], g, j) = c[g][j] /\ c[g][j] \in Elements
      /\ k \in 1..Len(c[h]) => At(c[h], h, k) = c[h][k] /\ c[h][k] \in Elements
  BY <1>1, RingNodes
<1>4. g \notin Elements /\ h \notin Elements
  BY QueueAssumption DEF QueueAssumption
<1>5. At(c[g], g, j) \in used
  BY <1>2, <1>3 DEF Represents
<1>6. ASSUME At(c[g], g, j) = At(c[h], h, k) PROVE g = h /\ j = k
  <2>1. CASE j = 0
    BY <1>2, <1>3, <1>4, <1>6, <2>1
  <2>2. CASE j # 0 /\ k # 0
    BY <1>2, <1>3, <1>6, <2>2 DEF Represents, Apart
  <2>3. CASE j # 0 /\ k = 0
    BY <1>2, <1>3, <1>4, <1>6, <2>3
  <2> QED  BY <2>1, <2>2, <2>3
<1> QED  BY <1>5, <1>6

(* The ring of a sequence with an element more, or one less.               *)
LEMMA InsertedAt ==
  ASSUME NEW h \in Heads, NEW s \in Seq(Elements), NEW x \in Elements,
         NEW i \in 1..(Len(s) + 1), NEW k \in 0..(Len(s) + 2)
  PROVE  At(Inserted(s, i, x), h, k) =
           IF k < i THEN At(s, h, k) ELSE IF k = i THEN x ELSE At(s, h, k - 1)
<1> DEFINE t == Inserted(s, i, x)
<1>1. Len(s) \in Nat
  BY LenProperties
<1>2. /\ Len(t) = Len(s) + 1
      /\ \A m \in 1..(Len(s) + 1) : t[m] = IF m < i THEN s[m] ELSE IF m = i THEN x ELSE s[m - 1]
  BY InsertedIs, SMTT(30)
<1> HIDE DEF t
<1>3. CASE k \in 1..(Len(s) + 1)
  <2>1. At(t, h, k) = IF k < i THEN s[k] ELSE IF k = i THEN x ELSE s[k - 1]
    BY <1>2, <1>3 DEF At
  <2>2. k < i => k \in 1..Len(s)
    BY <1>1, <1>3
  <2>3. ~(k < i) /\ k # i => k - 1 \in 1..Len(s)
    BY <1>1, <1>3
  <2> QED  BY <2>1, <2>2, <2>3 DEF At, t
<1>4. CASE k \notin 1..(Len(s) + 1)
  <2>1. At(t, h, k) = h
    BY <1>2, <1>4 DEF At
  <2>2. (k < i /\ k \notin 1..Len(s)) \/ (~(k < i) /\ k # i /\ k - 1 \notin 1..Len(s))
    BY <1>1, <1>4
  <2> QED  BY <2>1, <2>2 DEF At, t
<1> QED  BY <1>3, <1>4

LEMMA WithoutAt ==
  ASSUME NEW h \in Heads, NEW s \in Seq(Elements),
         NEW i \in 1..Len(s), NEW k \in 0..Len(s)
  PROVE  At(Without(s, i), h, k) = IF k < i THEN At(s, h, k) ELSE At(s, h, k + 1)
<1> DEFINE t == Without(s, i)
<1>1. Len(s) \in Nat
  BY LenProperties
<1>2. /\ Len(t) = Len(s) - 1
      /\ \A m \in 1..(Len(s) - 1) : t[m] = IF m < i THEN s[m] ELSE s[m + 1]
  BY WithoutIs
<1> HIDE DEF t
<1>3. CASE k \in 1..(Len(s) - 1)
  <2>1. At(t, h, k) = IF k < i THEN s[k] ELSE s[k + 1]
    BY <1>2, <1>3 DEF At
  <2>2. k \in 1..Len(s) /\ k + 1 \in 1..Len(s)
    BY <1>1, <1>3
  <2> QED  BY <2>1, <2>2 DEF At, t
<1>4. CASE k \notin 1..(Len(s) - 1)
  <2>1. At(t, h, k) = h
    BY <1>2, <1>4 DEF At
  <2>2. (k < i /\ k \notin 1..Len(s)) \/ (~(k < i) /\ k + 1 \notin 1..Len(s))
    BY <1>1, <1>4
  <2> QED  BY <2>1, <2>2 DEF At, t
<1> QED  BY <1>3, <1>4

(* What stands at two places of a ring or of two rings is two nodes.       *)
LEMMA ApartAt ==
  ASSUME NEW c, Apart(c), NEW f \in Heads, NEW g \in Heads,
         NEW j \in 1..Len(c[f]), NEW k \in 1..Len(c[g]), c[f][j] = c[g][k]
  PROVE  f = g /\ j = k
BY DEF Apart

(* A node linked in behind the (i - 1)-th of a ring is the i-th element.   *)
LEMMA SpliceIn ==
  ASSUME NEW L, NEW M, NEW used, NEW c, Represents(L, used, c),
         NEW h \in Heads \cap used, NEW i \in 1..(Len(c[h]) + 1),
         NEW x \in Elements, x \notin used,
         M.next[x] = At(c[h], h, i),
         \A m \in used : M.next[m] = IF m = At(c[h], h, i - 1) THEN x ELSE L.next[m]
  PROVE  Represents(M, used \cup {x}, [c EXCEPT ![h] = Inserted(c[h], i, x)])
<1> DEFINE s == c[h]
           t == Inserted(s, i, x)
           d == [c EXCEPT ![h] = t]
           new == used \cup {x}
<1>1. s \in Seq(Elements) /\ Len(s) \in Nat /\ c \in [Heads -> Seq(Elements)]
  BY LenProperties DEF Represents
<1>2. /\ t \in Seq(Elements) /\ Len(t) = Len(s) + 1
      /\ \A k \in 1..(Len(s) + 1) : t[k] = IF k < i THEN s[k] ELSE IF k = i THEN x ELSE s[k - 1]
  BY <1>1, InsertedIs
<1>3. \A k \in 0..(Len(s) + 2) :
        At(t, h, k) = IF k < i THEN At(s, h, k) ELSE IF k = i THEN x ELSE At(s, h, k - 1)
  BY <1>1, InsertedAt
<1>4. x \notin Heads
  BY QueueAssumption DEF QueueAssumption
<1> HIDE DEF t
<1>5. /\ d \in [Heads -> Seq(Elements)] /\ d[h] = t
      /\ \A g \in Heads \ {h} : d[g] = c[g]
  BY <1>1, <1>2
<1> HIDE DEF d
<1>6. \A k \in 0..Len(s) : /\ At(s, h, k) \in used /\ At(s, h, k) # x
                           /\ At(s, h, k) = At(s, h, i - 1) => k = i - 1
  <2>1. i - 1 \in 0..Len(s)
    BY <1>1
  <2> QED  BY <2>1, RingsApart
<1>7. Ring(M, h, t)
  <2> SUFFICES ASSUME NEW k \in 0..(Len(s) + 1) PROVE M.next[At(t, h, k)] = At(t, h, k + 1)
    BY <1>2 DEF Ring
  <2>1. k \in 0..(Len(s) + 2) /\ k + 1 \in 0..(Len(s) + 2) /\ (k + 1) - 1 = k
    BY <1>1
  <2>2. CASE k < i - 1
    <3>1. k \in 0..Len(s) /\ k < i /\ k + 1 < i /\ k # i - 1
      BY <1>1, <2>2
    <3>2. At(t, h, k) = At(s, h, k) /\ At(t, h, k + 1) = At(s, h, k + 1)
      BY <1>3, <2>1, <3>1
    <3>3. L.next[At(s, h, k)] = At(s, h, k + 1)
      BY <3>1 DEF Represents, Ring
    <3>4. M.next[At(s, h, k)] = L.next[At(s, h, k)]
      BY <1>6, <3>1
    <3> QED  BY <3>2, <3>3, <3>4
  <2>3. CASE k = i - 1
    <3>1. k \in 0..Len(s) /\ k < i /\ k + 1 = i
      BY <1>1, <2>3
    <3>2. At(t, h, k) = At(s, h, i - 1) /\ At(t, h, k + 1) = x
      BY <1>3, <2>1, <2>3, <3>1
    <3>3. At(s, h, i - 1) \in used
      BY <1>6, <2>3, <3>1
    <3> QED  BY <3>2, <3>3
  <2>4. CASE k = i
    <3>1. At(t, h, k) = x
      BY <1>3, <2>1, <2>4
    <3>2. At(t, h, k + 1) = At(s, h, i)
      BY <1>3, <2>1, <2>4
    <3>3. i - 1 \in 0..Len(s)
      BY <1>1
    <3>4. x # At(s, h, i - 1)
      BY <1>6, <3>3
    <3> QED  BY <3>1, <3>2, <3>4
  <2>5. CASE k > i
    <3>1. k - 1 \in 0..Len(s) /\ ~(k < i) /\ k # i /\ ~(k + 1 < i) /\ k + 1 # i /\ k - 1 # i - 1 /\ (k - 1) + 1 = k
      BY <1>1, <2>5
    <3>2. At(t, h, k) = At(s, h, k - 1) /\ At(t, h, k + 1) = At(s, h, k)
      BY <1>3, <2>1, <3>1
    <3>3. L.next[At(s, h, k - 1)] = At(s, h, k)
      BY <3>1 DEF Represents, Ring
    <3>4. M.next[At(s, h, k - 1)] = L.next[At(s, h, k - 1)]
      BY <1>6, <3>1
    <3> QED  BY <3>2, <3>3, <3>4
  <2> QED  BY <1>1, <2>2, <2>3, <2>4, <2>5
<1>8. ASSUME NEW g \in Heads \cap new PROVE Ring(M, g, d[g])
  <2>1. CASE g = h
    BY <1>5, <1>7, <2>1
  <2>2. CASE g # h
    <3>1. g \in Heads \cap used /\ d[g] = c[g] /\ i - 1 \in 0..Len(c[h])
      BY <1>1, <1>4, <1>5, <2>2
    <3>2. ASSUME NEW k \in 0..Len(c[g]) PROVE M.next[At(c[g], g, k)] = At(c[g], g, k + 1)
      <4>1. At(c[g], g, k) \in used /\ At(c[g], g, k) # At(s, h, i - 1)
        BY <2>2, <3>1, RingsApart
      <4>2. M.next[At(c[g], g, k)] = L.next[At(c[g], g, k)]
        BY <4>1
      <4> QED  BY <3>1, <4>2 DEF Represents, Ring
    <3> QED  BY <3>1, <3>2 DEF Ring
  <2> QED  BY <2>1, <2>2
<1>9. \A g \in Heads \ new : d[g] = <<>>
  BY <1>5 DEF Represents
<1>10. ASSUME NEW k \in 1..Len(t)
       PROVE  \/ k = i /\ t[k] = x
              \/ k < i /\ k \in 1..Len(s) /\ t[k] = s[k]
              \/ k > i /\ k - 1 \in 1..Len(s) /\ t[k] = s[k - 1]
  BY <1>1, <1>2
<1>11. \A g \in Heads : \A k \in 1..Len(c[g]) : c[g][k] \in used
  BY DEF Represents
<1>12. Apart(c)
  BY DEF Represents
<1>13. ASSUME NEW g \in Heads \ {h}, NEW j \in 1..Len(t), NEW k \in 1..Len(c[g])
       PROVE  t[j] # c[g][k]
  <2>1. c[g][k] \in used
    BY <1>11
  <2>2. t[j] = x \/ \E b \in 1..Len(s) : t[j] = s[b]
    BY <1>10
  <2> QED  BY <1>12, <2>1, <2>2 DEF Apart
<1>14. ASSUME NEW j \in 1..Len(t), NEW k \in 1..Len(t), t[j] = t[k]
       PROVE  j = k
  <2>1. \A a \in 1..Len(s), b \in 1..Len(s) : s[a] = s[b] => a = b
    BY <1>12 DEF Apart
  <2>2. \A a \in 1..Len(s) : s[a] # x
    BY <1>11
  <2>3. \/ j = i /\ t[j] = x
        \/ j < i /\ j \in 1..Len(s) /\ t[j] = s[j]
        \/ j > i /\ j - 1 \in 1..Len(s) /\ t[j] = s[j - 1]
    BY <1>10
  <2>4. \/ k = i /\ t[k] = x
        \/ k < i /\ k \in 1..Len(s) /\ t[k] = s[k]
        \/ k > i /\ k - 1 \in 1..Len(s) /\ t[k] = s[k - 1]
    BY <1>10
  <2>5. CASE j = i \/ k = i
    BY <1>14, <2>2, <2>3, <2>4, <2>5
  <2>6. CASE j < i /\ k < i
    BY <1>14, <2>1, <2>3, <2>4, <2>6
  <2>7. CASE j > i /\ k > i
    <3>1. j - 1 = k - 1
      BY <1>14, <2>1, <2>3, <2>4, <2>7, SMTT(30)
    <3> QED  BY <3>1
  <2>8. CASE j < i /\ k > i
    <3>1. j = k - 1
      BY <1>14, <2>1, <2>3, <2>4, <2>8
    <3> QED  BY <2>8, <3>1
  <2>9. CASE j > i /\ k < i
    <3>1. j - 1 = k
      BY <1>14, <2>1, <2>3, <2>4, <2>9
    <3> QED  BY <2>9, <3>1
  <2> QED  BY <2>5, <2>6, <2>7, <2>8, <2>9
<1>15. Apart(d)
  <2> SUFFICES ASSUME NEW f \in Heads, NEW g \in Heads, NEW j \in 1..Len(d[f]), NEW k \in 1..Len(d[g]),
                      d[f][j] = d[g][k]
               PROVE  f = g /\ j = k
    BY DEF Apart
  <2>1. \A m \in Heads : (m = h /\ d[m] = t) \/ (m # h /\ d[m] = c[m])
    BY <1>5
  <2>2. CASE f # h /\ g # h
    <3>1. d[f] = c[f] /\ d[g] = c[g]
      BY <2>1, <2>2
    <3>2. j \in 1..Len(c[f]) /\ k \in 1..Len(c[g]) /\ c[f][j] = c[g][k]
      BY <3>1
    <3>3. Apart(c)
      BY <1>12
    <3> QED  BY <3>2, <3>3, ApartAt
  <2>3. CASE f = h /\ g # h
    <3>1. d[f] = t /\ d[g] = c[g]
      BY <2>1, <2>3
    <3>2. j \in 1..Len(t) /\ k \in 1..Len(c[g]) /\ t[j] = c[g][k]
      BY <3>1
    <3> QED  BY <1>13, <2>3, <3>2
  <2>4. CASE f # h /\ g = h
    <3>1. d[f] = c[f] /\ d[g] = t
      BY <2>1, <2>4
    <3>2. j \in 1..Len(c[f]) /\ k \in 1..Len(t) /\ t[k] = c[f][j]
      BY <3>1
    <3> QED  BY <1>13, <2>4, <3>2
  <2>5. CASE f = h /\ g = h
    <3>1. d[f] = t /\ d[g] = t
      BY <2>1, <2>5
    <3>2. t[j] = t[k] /\ j \in 1..Len(t) /\ k \in 1..Len(t)
      BY <3>1
    <3> QED  BY <1>14, <2>5, <3>2
  <2> QED  BY <2>2, <2>3, <2>4, <2>5
<1>16. \A g \in Heads : \A k \in 1..Len(d[g]) : d[g][k] \in new
  <2>1. ASSUME NEW k \in 1..Len(t) PROVE t[k] \in new
    <3>1. t[k] = x \/ \E b \in 1..Len(s) : t[k] = s[b]
      BY <1>10
    <3> QED  BY <1>11, <3>1
  <2>2. \A g \in Heads : (g = h /\ d[g] = t) \/ (g # h /\ d[g] = c[g])
    BY <1>5
  <2> HIDE DEF d, t
  <2>3. ASSUME NEW g \in Heads, NEW k \in 1..Len(d[g]) PROVE d[g][k] \in new
    <3>1. CASE d[g] = t
      BY <2>1, <3>1
    <3>2. CASE d[g] = c[g]
      BY <1>11, <3>2
    <3> QED  BY <2>2, <3>1, <3>2
  <2> QED  BY <2>3
<1>17. ASSUME NEW y \in Elements \cap new PROVE \E g \in Heads : \E k \in 1..Len(d[g]) : d[g][k] = y
  <2>1. CASE y = x
    <3>1. i \in 1..Len(t) /\ t[i] = x
      BY <1>1, <1>2
    <3> QED  BY <1>5, <2>1, <3>1
  <2>2. CASE y # x
    <3>1. PICK g \in Heads : \E k \in 1..Len(c[g]) : c[g][k] = y
      BY <2>2 DEF Represents
    <3>2. PICK k \in 1..Len(c[g]) : c[g][k] = y
      BY <3>1
    <3>3. CASE g # h
      BY <1>5, <3>2, <3>3
    <3>4. CASE g = h /\ k < i
      <4>1. k \in 1..Len(t) /\ t[k] = s[k]
        BY <1>1, <1>2, <3>4
      <4> QED  BY <1>5, <3>2, <3>4, <4>1
    <3>5. CASE g = h /\ ~(k < i)
      <4>1. k + 1 \in 1..Len(t) /\ t[k + 1] = s[k]
        BY <1>1, <1>2, <3>5
      <4> QED  BY <1>5, <3>2, <3>5, <4>1
    <3> QED  BY <3>3, <3>4, <3>5
  <2> QED  BY <2>1, <2>2
<1>18. Represents(M, new, d)
  BY <1>5, <1>8, <1>9, <1>15, <1>16, <1>17 DEF Represents
<1> QED  BY <1>18 DEF d, t

(* A node linked out of a ring is an element less.                         *)
LEMMA SpliceOut ==
  ASSUME NEW L, NEW M, NEW used, NEW c, Represents(L, used, c),
         NEW h \in Heads \cap used, NEW i \in 1..Len(c[h]),
         \A m \in used \ {c[h][i]} :
           M.next[m] = IF m = At(c[h], h, i - 1) THEN At(c[h], h, i + 1) ELSE L.next[m]
  PROVE  Represents(M, used \ {c[h][i]}, [c EXCEPT ![h] = Without(c[h], i)])
<1> DEFINE s == c[h]
           x == c[h][i]
           t == Without(s, i)
           d == [c EXCEPT ![h] = t]
           new == used \ {x}
<1>1. s \in Seq(Elements) /\ Len(s) \in Nat /\ c \in [Heads -> Seq(Elements)]
  BY LenProperties DEF Represents
<1>2. /\ t \in Seq(Elements) /\ Len(t) = Len(s) - 1
      /\ \A k \in 1..(Len(s) - 1) : t[k] = IF k < i THEN s[k] ELSE s[k + 1]
  BY <1>1, WithoutIs
<1>3. \A k \in 0..Len(s) : At(t, h, k) = IF k < i THEN At(s, h, k) ELSE At(s, h, k + 1)
  BY <1>1, WithoutAt
<1>4. x \notin Heads /\ At(s, h, i) = x
  BY <1>1, RingNodes, QueueAssumption DEF QueueAssumption
<1> HIDE DEF t
<1>5. /\ d \in [Heads -> Seq(Elements)] /\ d[h] = t
      /\ \A g \in Heads \ {h} : d[g] = c[g]
  BY <1>1, <1>2
<1> HIDE DEF d
<1>6. \A k \in 0..Len(s) : /\ At(s, h, k) \in used
                           /\ At(s, h, k) = At(s, h, i - 1) => k = i - 1
                           /\ At(s, h, k) = x => k = i
  <2>1. i - 1 \in 0..Len(s) /\ i \in 0..Len(s)
    BY <1>1
  <2> QED  BY <1>4, <2>1, RingsApart
<1>7. Ring(M, h, t)
  <2> SUFFICES ASSUME NEW k \in 0..(Len(s) - 1) PROVE M.next[At(t, h, k)] = At(t, h, k + 1)
    BY <1>2 DEF Ring
  <2>1. k \in 0..Len(s) /\ k + 1 \in 0..Len(s)
    BY <1>1
  <2>2. CASE k < i - 1
    <3>1. k < i /\ k + 1 < i /\ k # i - 1 /\ k # i
      BY <1>1, <2>2
    <3>2. At(t, h, k) = At(s, h, k) /\ At(t, h, k + 1) = At(s, h, k + 1)
      BY <1>3, <2>1, <3>1
    <3>3. L.next[At(s, h, k)] = At(s, h, k + 1)
      BY <2>1 DEF Represents, Ring
    <3>4. M.next[At(s, h, k)] = L.next[At(s, h, k)]
      BY <1>6, <2>1, <3>1
    <3> QED  BY <3>2, <3>3, <3>4
  <2>3. CASE k = i - 1
    <3>1. k < i /\ k + 1 = i /\ k # i
      BY <1>1, <2>3
    <3>2. At(t, h, k) = At(s, h, i - 1) /\ At(t, h, k + 1) = At(s, h, i + 1)
      BY <1>3, <2>1, <2>3, <3>1
    <3>3. At(s, h, i - 1) \in new
      BY <1>6, <2>1, <2>3, <3>1
    <3> QED  BY <3>2, <3>3
  <2>4. CASE ~(k < i)
    <3>1. ~(k + 1 < i) /\ k + 1 # i - 1 /\ k + 1 # i
      BY <1>1, <2>4
    <3>2. At(t, h, k) = At(s, h, k + 1) /\ At(t, h, k + 1) = At(s, h, (k + 1) + 1)
      BY <1>3, <2>1, <2>4, <3>1
    <3>3. L.next[At(s, h, k + 1)] = At(s, h, (k + 1) + 1)
      BY <2>1 DEF Represents, Ring
    <3>4. M.next[At(s, h, k + 1)] = L.next[At(s, h, k + 1)]
      BY <1>6, <2>1, <3>1
    <3> QED  BY <3>2, <3>3, <3>4
  <2>5. k < i - 1 \/ k = i - 1 \/ ~(k < i)
    BY <1>1
  <2> QED  BY <2>2, <2>3, <2>4, <2>5
<1>8. ASSUME NEW g \in Heads \cap new PROVE Ring(M, g, d[g])
  <2>1. CASE g = h
    BY <1>5, <1>7, <2>1
  <2>2. CASE g # h
    <3>1. g \in Heads \cap used /\ d[g] = c[g] /\ i - 1 \in 0..Len(c[h]) /\ i \in 0..Len(c[h])
      BY <1>1, <1>5, <2>2
    <3>2. ASSUME NEW k \in 0..Len(c[g]) PROVE M.next[At(c[g], g, k)] = At(c[g], g, k + 1)
      <4>1. /\ At(c[g], g, k) \in used /\ At(c[g], g, k) # At(s, h, i - 1)
            /\ At(c[g], g, k) # At(s, h, i)
        BY <2>2, <3>1, RingsApart
      <4>2. M.next[At(c[g], g, k)] = L.next[At(c[g], g, k)]
        BY <1>4, <4>1
      <4> QED  BY <3>1, <4>2 DEF Represents, Ring
    <3> QED  BY <3>1, <3>2 DEF Ring
  <2> QED  BY <2>1, <2>2
<1>9. \A g \in Heads \ new : d[g] = <<>>
  <2>1. \A g \in Heads \ new : g # h /\ g \notin used
    BY <1>4
  <2> QED  BY <1>5, <2>1 DEF Represents
<1>10. ASSUME NEW k \in 1..Len(t)
       PROVE  \/ k < i /\ k \in 1..Len(s) /\ t[k] = s[k]
              \/ ~(k < i) /\ k + 1 \in 1..Len(s) /\ t[k] = s[k + 1]
  BY <1>1, <1>2
<1>11. \A g \in Heads : \A k \in 1..Len(c[g]) : c[g][k] \in used
  BY DEF Represents
<1>12. Apart(c) /\ \A a \in 1..Len(s), b \in 1..Len(s) : s[a] = s[b] => a = b
  BY DEF Represents, Apart
<1>13. ASSUME NEW g \in Heads \ {h}, NEW j \in 1..Len(t), NEW k \in 1..Len(c[g])
       PROVE  t[j] # c[g][k]
  <2>1. \E b \in 1..Len(s) : t[j] = s[b]
    BY <1>10
  <2> QED  BY <1>12, <2>1 DEF Apart
<1>14. ASSUME NEW j \in 1..Len(t), NEW k \in 1..Len(t), t[j] = t[k]
       PROVE  j = k
  <2>1. \/ j < i /\ j \in 1..Len(s) /\ t[j] = s[j]
        \/ ~(j < i) /\ j + 1 \in 1..Len(s) /\ t[j] = s[j + 1]
    BY <1>10
  <2>2. \/ k < i /\ k \in 1..Len(s) /\ t[k] = s[k]
        \/ ~(k < i) /\ k + 1 \in 1..Len(s) /\ t[k] = s[k + 1]
    BY <1>10
  <2>3. CASE j < i /\ k < i
    BY <1>12, <1>14, <2>1, <2>2, <2>3
  <2>4. CASE ~(j < i) /\ ~(k < i)
    <3>1. j + 1 = k + 1
      BY <1>12, <1>14, <2>1, <2>2, <2>4
    <3> QED  BY <3>1
  <2>5. CASE j < i /\ ~(k < i)
    <3>1. j = k + 1
      BY <1>12, <1>14, <2>1, <2>2, <2>5
    <3> QED  BY <2>5, <3>1
  <2>6. CASE ~(j < i) /\ k < i
    <3>1. j + 1 = k
      BY <1>12, <1>14, <2>1, <2>2, <2>6
    <3> QED  BY <2>6, <3>1
  <2> QED  BY <2>3, <2>4, <2>5, <2>6
<1>15. Apart(d)
  <2> SUFFICES ASSUME NEW f \in Heads, NEW g \in Heads, NEW j \in 1..Len(d[f]), NEW k \in 1..Len(d[g]),
                      d[f][j] = d[g][k]
               PROVE  f = g /\ j = k
    BY DEF Apart
  <2>1. \A m \in Heads : (m = h /\ d[m] = t) \/ (m # h /\ d[m] = c[m])
    BY <1>5
  <2>2. CASE f # h /\ g # h
    <3>1. d[f] = c[f] /\ d[g] = c[g]
      BY <2>1, <2>2
    <3>2. j \in 1..Len(c[f]) /\ k \in 1..Len(c[g]) /\ c[f][j] = c[g][k]
      BY <3>1
    <3>3. Apart(c)
      BY <1>12
    <3> QED  BY <3>2, <3>3, ApartAt
  <2>3. CASE f = h /\ g # h
    <3>1. d[f] = t /\ d[g] = c[g]
      BY <2>1, <2>3
    <3>2. j \in 1..Len(t) /\ k \in 1..Len(c[g]) /\ t[j] = c[g][k]
      BY <3>1
    <3> QED  BY <1>13, <2>3, <3>2
  <2>4. CASE f # h /\ g = h
    <3>1. d[f] = c[f] /\ d[g] = t
      BY <2>1, <2>4
    <3>2. j \in 1..Len(c[f]) /\ k \in 1..Len(t) /\ t[k] = c[f][j]
      BY <3>1
    <3> QED  BY <1>13, <2>4, <3>2
  <2>5. CASE f = h /\ g = h
    <3>1. d[f] = t /\ d[g] = t
      BY <2>1, <2>5
    <3>2. t[j] = t[k] /\ j \in 1..Len(t) /\ k \in 1..Len(t)
      BY <3>1
    <3> QED  BY <1>14, <2>5, <3>2
  <2> QED  BY <2>2, <2>3, <2>4, <2>5
<1>16. ASSUME NEW g \in Heads, NEW k \in 1..Len(d[g]) PROVE d[g][k] \in new
  <2>1. CASE g = h
    <3>0. k \in 1..Len(t)
      BY <1>5, <2>1
    <3>2. PICK b \in 1..Len(s) : t[k] = s[b] /\ b # i
      <4>1. \/ k < i /\ k \in 1..Len(s) /\ t[k] = s[k]
            \/ ~(k < i) /\ k + 1 \in 1..Len(s) /\ t[k] = s[k + 1]
        BY <1>10, <3>0
      <4>2. CASE k < i
        BY <4>1, <4>2
      <4>3. CASE ~(k < i)
        <5>1. k + 1 # i
          BY <4>3
        <5> QED  BY <4>1, <4>3, <5>1
      <4> QED  BY <4>2, <4>3
    <3>1. t[k] \in used /\ t[k] # x
      BY <1>11, <1>12, <3>2
    <3> QED  BY <1>5, <2>1, <3>1
  <2>2. CASE g # h
    BY <1>5, <1>11, <1>12, <2>2 DEF Apart
  <2> QED  BY <2>1, <2>2
<1>17. ASSUME NEW y \in Elements \cap new PROVE \E g \in Heads : \E k \in 1..Len(d[g]) : d[g][k] = y
  <2>1. PICK g \in Heads : \E k \in 1..Len(c[g]) : c[g][k] = y
    BY DEF Represents
  <2>2. PICK k \in 1..Len(c[g]) : c[g][k] = y
    BY <2>1
  <2>3. CASE g # h
    BY <1>5, <2>2, <2>3
  <2>4. CASE g = h /\ k < i
    <3>1. k \in 1..Len(t) /\ t[k] = s[k]
      BY <1>1, <1>2, <2>4
    <3> QED  BY <1>5, <2>2, <2>4, <3>1
  <2>5. CASE g = h /\ ~(k < i)
    <3>1. k # i
      BY <2>2, <2>5
    <3>2. k - 1 \in 1..Len(t) /\ t[k - 1] = s[k]
      <4>1. k - 1 \in 1..(Len(s) - 1) /\ ~(k - 1 < i) /\ (k - 1) + 1 = k
        BY <1>1, <2>5, <3>1
      <4> QED  BY <1>2, <4>1
    <3> QED  BY <1>5, <2>2, <2>5, <3>2
  <2> QED  BY <2>3, <2>4, <2>5
<1>18. Represents(M, new, d)
  BY <1>5, <1>8, <1>9, <1>15, <1>16, <1>17 DEF Represents
<1> QED  BY <1>18 DEF d, t

-----------------------------------------------------------------------------
(* The contents that the loop finds are the ones represented.              *)
LEMMA WalksFind ==
  ASSUME NEW L, NEW used, NEW c, Represents(L, used, c)
  PROVE  [h \in Heads |-> IF h \in used THEN Walk(L, h) ELSE <<>>] = c
<1>1. ASSUME NEW h \in Heads PROVE (IF h \in used THEN Walk(L, h) ELSE <<>>) = c[h]
  <2>1. CASE h \in used
    <3>1. c[h] \in Seq(Elements) /\ Ring(L, h, c[h])
      BY <2>1 DEF Represents
    <3>2. \A i \in 1..Len(c[h]), j \in 1..Len(c[h]) : c[h][i] = c[h][j] => i = j
      BY DEF Represents, Apart
    <3> QED  BY <2>1, <3>1, <3>2, WalkIs
  <2>2. CASE h \notin used
    BY <2>2 DEF Represents
  <2> QED  BY <2>1, <2>2
<1>2. c = [h \in Heads |-> c[h]]
  BY DEF Represents
<1> QED  BY <1>1, <1>2

LEMMA ContentsAre ==
  ASSUME NEW c
  PROVE  /\ Represents(link, inUse, c) => Contents = c
         /\ Represents(link', inUse', c) => Contents' = c
BY WalksFind DEF Contents

(* A node in use is the head or an element of some queue, and its
   neighbours in the ring are what its pointers say.                       *)
LEMMA NodesListed ==
  ASSUME NEW c, Represents(link, inUse, c), NEW n \in Nodes \cap inUse
  PROVE  \E h \in Heads \cap inUse : \E k \in 0..Len(c[h]) :
           /\ n = At(c[h], h, k)
           /\ n \in Elements => k \in 1..Len(c[h]) /\ n = c[h][k]
<1>1. CASE n \in Heads
  <2>1. c[n] \in Seq(Elements)
    BY <1>1 DEF Represents
  <2>2. Len(c[n]) \in Nat /\ At(c[n], n, 0) = n
    BY <1>1, <2>1, RingNodes
  <2>3. n \notin Elements
    BY <1>1, QueueAssumption DEF QueueAssumption
  <2> QED  BY <1>1, <2>2, <2>3
<1>2. CASE n \in Elements
  <2>1. PICK h \in Heads : \E k \in 1..Len(c[h]) : c[h][k] = n
    BY <1>2 DEF Represents
  <2>2. PICK k \in 1..Len(c[h]) : c[h][k] = n
    BY <2>1
  <2>3. c[h] \in Seq(Elements)
    BY DEF Represents
  <2>4. Len(c[h]) \in Nat /\ At(c[h], h, k) = c[h][k]
    BY <2>3, RingNodes
  <2>5. h \in inUse
    <3>1. h \notin inUse => c[h] = <<>>
      BY DEF Represents
    <3>2. Len(<<>>) = 0
      OBVIOUS
    <3> QED  BY <2>2, <3>1, <3>2
  <2> QED  BY <2>2, <2>4, <2>5
<1> QED  BY <1>1, <1>2 DEF Nodes

LEMMA Neighbours ==
  ASSUME QueueInv, NEW c, Represents(link, inUse, c),
         NEW h \in Heads \cap inUse, NEW k \in 0..Len(c[h])
  PROVE  /\ link.next[At(c[h], h, k)] = At(c[h], h, k + 1)
         /\ link.prev[At(c[h], h, k + 1)] = At(c[h], h, k)
<1>1. link.next[At(c[h], h, k)] = At(c[h], h, k + 1)
  BY DEF Represents, Ring
<1>2. At(c[h], h, k) \in inUse
  BY RingsApart
<1> QED  BY <1>1, <1>2 DEF QueueInv, LinksInverse

-----------------------------------------------------------------------------
(* What each operation does to the contents.                               *)
LEMMA InsertsBehind ==
  ASSUME QueueInv, NEW c, Represents(link, inUse, c),
         NEW h \in Heads \cap inUse, NEW k \in 0..Len(c[h]), NEW x \in Elements,
         ngx_queue_insert_head(At(c[h], h, k), x)
  PROVE  Represents(link', inUse', [c EXCEPT ![h] = Inserted(c[h], k + 1, x)])
<1> DEFINE n == At(c[h], h, k)
<1>1. /\ n \in inUse /\ x \notin inUse /\ inUse' = inUse \cup {x}
      /\ link' = InsertHead(link, n, x)
  BY DEF ngx_queue_insert_head
<1>2. n \in Nodes /\ ngx_queue_insert_head(n, x)
  BY <1>1 DEF QueueInv, TypeOK
<1>3. c[h] \in Seq(Elements) /\ Len(c[h]) \in Nat
  BY LenProperties DEF Represents
<1>4. link.next[n] = At(c[h], h, k + 1)
  BY Neighbours
<1> HIDE DEF n
<1>5. /\ link'.next[x] = link.next[n]
      /\ \A m \in inUse : link'.next[m] = IF m = n THEN x ELSE link.next[m]
  BY <1>2, InsertHeadStep
<1>6. k + 1 \in 1..(Len(c[h]) + 1) /\ (k + 1) - 1 = k
  BY <1>3
<1>7. /\ link'.next[x] = At(c[h], h, k + 1)
      /\ \A m \in inUse : link'.next[m] = IF m = At(c[h], h, (k + 1) - 1) THEN x ELSE link.next[m]
  BY <1>4, <1>5, <1>6 DEF n
<1> DEFINE i == k + 1
<1> HIDE DEF i
<1>8. i \in 1..(Len(c[h]) + 1)
  BY <1>6 DEF i
<1>9. /\ link'.next[x] = At(c[h], h, i)
       /\ \A m \in inUse : link'.next[m] = IF m = At(c[h], h, i - 1) THEN x ELSE link.next[m]
  BY <1>7, Zenon DEF i
<1>10. Represents(link', inUse \cup {x}, [c EXCEPT ![h] = Inserted(c[h], i, x)])
  BY <1>1, <1>8, <1>9, SpliceIn, ZenonT(30)
<1> QED  BY <1>1, <1>10 DEF i

LEMMA InsertsBefore ==
  ASSUME QueueInv, NEW c, Represents(link, inUse, c),
         NEW h \in Heads \cap inUse, NEW k \in 1..(Len(c[h]) + 1), NEW x \in Elements,
         ngx_queue_insert_tail(At(c[h], h, k), x)
  PROVE  Represents(link', inUse', [c EXCEPT ![h] = Inserted(c[h], k, x)])
<1> DEFINE n == At(c[h], h, k)
           b == At(c[h], h, k - 1)
<1>1. /\ n \in inUse /\ x \notin inUse /\ inUse' = inUse \cup {x}
      /\ link' = InsertTail(link, n, x)
  BY DEF ngx_queue_insert_tail
<1>2. n \in Nodes /\ ngx_queue_insert_tail(n, x)
  BY <1>1 DEF QueueInv, TypeOK
<1>3. c[h] \in Seq(Elements) /\ Len(c[h]) \in Nat
  BY LenProperties DEF Represents
<1>4. k - 1 \in 0..Len(c[h]) /\ (k - 1) + 1 = k
  BY <1>3
<1>5. link.prev[n] = b /\ b \in inUse
  BY <1>4, Neighbours, RingsApart
<1> HIDE DEF n, b
<1>6. /\ link'.next[x] = n
      /\ \A m \in inUse : link'.next[m] = IF m = b THEN x ELSE link.next[m]
  BY <1>5, <1>2, InsertTailStep
<1>7. /\ link'.next[x] = At(c[h], h, k)
      /\ \A m \in inUse : link'.next[m] = IF m = At(c[h], h, k - 1) THEN x ELSE link.next[m]
  BY <1>6 DEF n, b
<1>8. Represents(link', inUse \cup {x}, [c EXCEPT ![h] = Inserted(c[h], k, x)])
  BY <1>1, <1>7, SpliceIn, ZenonT(30)
<1> QED  BY <1>1, <1>8

LEMMA Removes ==
  ASSUME QueueInv, NEW c, Represents(link, inUse, c),
         NEW h \in Heads \cap inUse, NEW k \in 1..Len(c[h]), ngx_queue_remove(c[h][k])
  PROVE  Represents(link', inUse', [c EXCEPT ![h] = Without(c[h], k)])
<1> DEFINE x == c[h][k]
           a == At(c[h], h, k - 1)
           b == At(c[h], h, k + 1)
<1>1. c[h] \in Seq(Elements) /\ Len(c[h]) \in Nat /\ x \in Elements /\ At(c[h], h, k) = x
  BY RingNodes DEF Represents
<1>2. k - 1 \in 0..Len(c[h]) /\ k \in 0..Len(c[h]) /\ (k - 1) + 1 = k
  BY <1>1
<1>3. link.prev[x] = a /\ link.next[x] = b
  <2>1. link.prev[At(c[h], h, (k - 1) + 1)] = a
    BY <1>2, Neighbours
  <2>2. link.next[At(c[h], h, k)] = b
    BY <1>2, Neighbours
  <2> QED  BY <1>1, <1>2, <2>1, <2>2
<1>4. x \in inUse /\ inUse' = inUse \ {x} /\ link' = RemoveNode(link, x, debug)
  BY DEF ngx_queue_remove
<1> HIDE DEF x, a, b
<1>5. /\ link \in Links /\ x \in Nodes /\ debug \in BOOLEAN /\ inUse \subseteq Nodes
      /\ link.next[x] \in Nodes /\ link.prev[x] \in Nodes
      /\ link.next[x] = x => link.prev[x] = x
  BY <1>4 DEF QueueInv, LinksInverse, TypeOK, Links, Pointers, Nodes
<1>6. /\ Unlink(link, x) \in Links
      /\ Unlink(link, x).next = [link.next EXCEPT ![link.prev[x]] = link.next[x]]
  BY <1>5, UnlinkLinks
<1>7. \A m \in Nodes \ {x} : link'.next[m] = Unlink(link, x).next[m]
  <2>1. /\ RemoveNode(link, x, debug) \in Links
        /\ \A m \in Nodes \ {x} :
             /\ RemoveNode(link, x, debug).next[m] = Unlink(link, x).next[m]
             /\ RemoveNode(link, x, debug).prev[m] = Unlink(link, x).prev[m]
    BY <1>5, <1>6, RemoveLinks, ZenonT(30)
  <2> QED  BY <1>4, <2>1
<1>8. \A m \in inUse \ {x} : link'.next[m] = IF m = a THEN b ELSE link.next[m]
  BY <1>3, <1>5, <1>6, <1>7 DEF Links
<1>9. \A m \in inUse \ {c[h][k]} :
        link'.next[m] = IF m = At(c[h], h, k - 1) THEN At(c[h], h, k + 1) ELSE link.next[m]
  BY <1>8 DEF x, a, b
<1>10. Represents(link', inUse \ {c[h][k]}, [c EXCEPT ![h] = Without(c[h], k)])
  BY <1>9, SpliceOut
<1> QED  BY <1>4, <1>10 DEF x

LEMMA Initialises ==
  ASSUME QueueInv, NEW c, Represents(link, inUse, c), NEW h \in Heads, ngx_queue_init(h)
  PROVE  Represents(link', inUse', c)
<1>1. /\ link \in Links /\ h \in Nodes /\ inUse \subseteq Nodes
      /\ inUse' = inUse \cup {h} /\ link' = InitHead(link, h)
  BY DEF QueueInv, TypeOK, Links, Pointers, Nodes, ngx_queue_init
<1>2. link'.next = [link.next EXCEPT ![h] = h]
  BY <1>1, InitHeadLinks
<1>3. \A m \in inUse \cup {h} : link'.next[m] = IF m = h THEN h ELSE link.next[m]
  BY <1>1, <1>2 DEF Links
<1>4. c[h] = <<>>
  <2>1. CASE h \notin inUse
    BY <2>1 DEF Represents
  <2>2. CASE h \in inUse
    <3>1. c[h] \in Seq(Elements) /\ Len(c[h]) \in Nat
      BY LenProperties DEF Represents
    <3>2. Len(c[h]) \in 0..Len(c[h]) /\ At(c[h], h, Len(c[h]) + 1) = h
      BY <3>1, RingNodes
    <3>3. link.prev[h] = At(c[h], h, Len(c[h]))
      BY <2>2, <3>2, Neighbours
    <3>4. link.prev[h] = h
      BY <2>2 DEF ngx_queue_init
    <3>5. Len(c[h]) \notin 1..Len(c[h])
      <4>1. \A k \in 1..Len(c[h]) : At(c[h], h, k) # h
        BY <3>1, RingNodes
      <4> QED  BY <3>3, <3>4, <4>1
    <3>6. Len(c[h]) = 0
      BY <3>1, <3>5
    <3> QED  BY <3>1, <3>6, EmptySeq
  <2> QED  BY <2>1, <2>2
<1>5. Ring(link', h, c[h])
  <2>1. Len(<<>>) = 0
    OBVIOUS
  <2>2. \A k \in Int : At(<<>>, h, k) = h
    BY <2>1 DEF At
  <2>3. link'.next[h] = h
    BY <1>3
  <2> QED  BY <1>4, <2>1, <2>2, <2>3 DEF Ring
<1>6. ASSUME NEW g \in Heads \cap inUse, g # h PROVE Ring(link', g, c[g])
  <2> SUFFICES ASSUME NEW k \in 0..Len(c[g]) PROVE link'.next[At(c[g], g, k)] = At(c[g], g, k + 1)
    BY DEF Ring
  <2>1. c[g] \in Seq(Elements) /\ Len(c[g]) \in Nat
    BY LenProperties DEF Represents
  <2>2. k = 0 \/ k \in 1..Len(c[g])
    BY <2>1
  <2>3. /\ At(c[g], g, 0) = g
        /\ k \in 1..Len(c[g]) => At(c[g], g, k) \in Elements
    BY <2>1, RingNodes
  <2>4. At(c[g], g, k) # h
    BY <1>6, <2>2, <2>3, QueueAssumption DEF QueueAssumption
  <2>5. At(c[g], g, k) \in inUse
    BY RingsApart
  <2>6. link'.next[At(c[g], g, k)] = link.next[At(c[g], g, k)]
    BY <1>3, <2>4, <2>5
  <2> QED  BY <2>6 DEF Represents, Ring
<1>7. Elements \cap inUse' = Elements \cap inUse
  BY <1>1, QueueAssumption DEF QueueAssumption
<1> QED  BY <1>1, <1>5, <1>6, <1>7 DEF Represents

LEMMA FirstAndLast ==
  ASSUME QueueInv, NEW c, Represents(link, inUse, c), NEW h \in Heads \cap inUse, link.prev[h] # h
  PROVE  /\ 1 \in 1..Len(c[h]) /\ Len(c[h]) \in 1..Len(c[h])
         /\ link.next[h] = c[h][1] /\ link.prev[h] = c[h][Len(c[h])]
<1>1. c[h] \in Seq(Elements)
  BY DEF Represents
<1>2. /\ Len(c[h]) \in Nat
      /\ \A k \in 1..Len(c[h]) : At(c[h], h, k) = c[h][k]
      /\ At(c[h], h, 0) = h /\ At(c[h], h, Len(c[h]) + 1) = h
  BY <1>1, RingNodes
<1>3. 0 \in 0..Len(c[h]) /\ Len(c[h]) \in 0..Len(c[h]) /\ 0 + 1 = 1
  BY <1>2
<1>4. link.next[h] = At(c[h], h, 1)
  BY <1>2, <1>3, Neighbours
<1>5. link.prev[h] = At(c[h], h, Len(c[h]))
  BY <1>2, <1>3, Neighbours
<1>6. Len(c[h]) # 0
  BY <1>2, <1>5
<1>7. 1 \in 1..Len(c[h]) /\ Len(c[h]) \in 1..Len(c[h])
  BY <1>2, <1>6
<1> QED  BY <1>2, <1>4, <1>5, <1>7

-----------------------------------------------------------------------------
(* Every step of the queue is a step of the sequences, or none.            *)
Grows(c)   == \E h \in Heads : \E i \in 1..(Len(c[h]) + 1), x \in Elements :
                x \notin inUse /\ Represents(link', inUse', [c EXCEPT ![h] = Inserted(c[h], i, x)])
Shrinks(c) == \E h \in Heads : \E i \in 1..Len(c[h]) :
                Represents(link', inUse', [c EXCEPT ![h] = Without(c[h], i)])

LEMMA RemovesSome ==
  ASSUME QueueInv, NEW c, Represents(link, inUse, c), NEW x \in Elements, ngx_queue_remove(x)
  PROVE  Shrinks(c)
<1>1. x \in Nodes \cap inUse
  BY DEF Nodes, ngx_queue_remove
<1>2. PICK h \in Heads \cap inUse : \E k \in 0..Len(c[h]) : k \in 1..Len(c[h]) /\ x = c[h][k]
  BY <1>1, NodesListed
<1>3. PICK k \in 1..Len(c[h]) : x = c[h][k]
  BY <1>2
<1>4. Represents(link', inUse', [c EXCEPT ![h] = Without(c[h], k)])
  BY <1>3, Removes
<1> QED  BY <1>4 DEF Shrinks

LEMMA StepOfSequences ==
  ASSUME QueueInv, NEW c, Represents(link, inUse, c), [Next]_vars
  PROVE  Represents(link', inUse', c) \/ Grows(c) \/ Shrinks(c)
<1>0. ASSUME NEW h \in Heads PROVE Len(c[h]) \in Nat /\ At(c[h], h, Len(c[h]) + 1) = h
  <2>1. c[h] \in Seq(Elements)
    BY DEF Represents
  <2> QED  BY <2>1, RingNodes
<1>1. ASSUME NEW h \in Heads, ngx_queue_init(h) PROVE Represents(link', inUse', c)
  BY <1>1, Initialises
<1>2. ASSUME NEW h \in Heads, RemoveFirst(h) \/ RemoveLast(h) PROVE Shrinks(c)
  <2>1. h \in Heads \cap inUse /\ link.prev[h] # h
    BY <1>2 DEF RemoveFirst, RemoveLast
  <2>2. /\ 1 \in 1..Len(c[h]) /\ Len(c[h]) \in 1..Len(c[h])
        /\ link.next[h] = c[h][1] /\ link.prev[h] = c[h][Len(c[h])]
    BY <2>1, FirstAndLast
  <2>3. PICK k \in 1..Len(c[h]) : ngx_queue_remove(c[h][k])
    BY <1>2, <2>2 DEF RemoveFirst, RemoveLast
  <2>4. Represents(link', inUse', [c EXCEPT ![h] = Without(c[h], k)])
    BY <2>1, <2>3, Removes
  <2> QED  BY <2>4 DEF Shrinks
<1>3. ASSUME NEW n \in Nodes, NEW x \in Elements, ngx_queue_insert_head(n, x) PROVE Grows(c)
  <2>1. n \in Nodes \cap inUse /\ x \notin inUse
    BY <1>3 DEF ngx_queue_insert_head
  <2>2. PICK h \in Heads \cap inUse : \E k \in 0..Len(c[h]) : n = At(c[h], h, k)
    BY <2>1, NodesListed
  <2>3. PICK k \in 0..Len(c[h]) : n = At(c[h], h, k)
    BY <2>2
  <2>4. Represents(link', inUse', [c EXCEPT ![h] = Inserted(c[h], k + 1, x)])
    BY <1>3, <2>3, InsertsBehind
  <2>5. k + 1 \in 1..(Len(c[h]) + 1)
    BY <1>0
  <2> QED  BY <2>1, <2>4, <2>5 DEF Grows
<1>4. ASSUME NEW n \in Nodes, NEW x \in Elements, ngx_queue_insert_tail(n, x) PROVE Grows(c)
  <2>1. n \in Nodes \cap inUse /\ x \notin inUse
    BY <1>4 DEF ngx_queue_insert_tail
  <2>2. PICK h \in Heads \cap inUse : \E k \in 0..Len(c[h]) : n = At(c[h], h, k)
    BY <2>1, NodesListed
  <2>3. PICK k \in 0..Len(c[h]) : n = At(c[h], h, k)
    BY <2>2
  <2>4. PICK i \in 1..(Len(c[h]) + 1) : n = At(c[h], h, i)
    <3>1. CASE k = 0
      <4>1. At(c[h], h, 0) = h /\ Len(c[h]) + 1 \in 1..(Len(c[h]) + 1)
        BY <1>0 DEF At
      <4> QED  BY <1>0, <2>3, <3>1, <4>1
    <3>2. CASE k # 0
      BY <1>0, <2>3, <3>2
    <3> QED  BY <3>1, <3>2
  <2>5. Represents(link', inUse', [c EXCEPT ![h] = Inserted(c[h], i, x)])
    BY <1>4, <2>4, InsertsBefore
  <2> QED  BY <2>1, <2>5 DEF Grows
<1>5. ASSUME NEW x \in Elements, ngx_queue_remove(x) PROVE Shrinks(c)
  BY <1>5, RemovesSome
<1>6. CASE UNCHANGED vars
  BY <1>6 DEF vars
<1> QED  BY <1>1, <1>2, <1>3, <1>4, <1>5, <1>6 DEF Next

LEMMA RefInit == Init => RefInv /\ Q!Init
<1> SUFFICES ASSUME Init PROVE RefInv /\ Q!Init
  OBVIOUS
<1> DEFINE c == [h \in Heads |-> <<>>]
<1>1. inUse = {}
  BY DEF Init
<1>2. <<>> \in Seq(Elements) /\ Len(<<>>) = 0
  BY EmptySeq
<1>3. c \in [Heads -> Seq(Elements)] /\ \A h \in Heads : c[h] = <<>>
  BY <1>2
<1> HIDE DEF c
<1>4. \A h \in Heads : 1..Len(c[h]) = {}
  BY <1>2, <1>3
<1>5. Represents(link, inUse, c)
  BY <1>1, <1>3, <1>4 DEF Represents, Apart
<1>6. Contents = c
  BY <1>5, ContentsAre
<1>7. Q!Init
  BY <1>6 DEF Q!Init, c
<1> QED  BY <1>5, <1>7, InitInv DEF RefInv

LEMMA RefStep == RefInv /\ [Next]_vars => RefInv' /\ [Q!Next]_Contents
<1> SUFFICES ASSUME RefInv, [Next]_vars PROVE RefInv' /\ [Q!Next]_Contents
  OBVIOUS
<1>1. QueueInv /\ QueueInv'
  BY StepInv DEF RefInv
<1>2. PICK c : Represents(link, inUse, c)
  BY DEF RefInv
<1>3. Contents = c
  BY <1>2, ContentsAre
<1>4. CASE Represents(link', inUse', c)
  <2>1. Contents' = c
    BY <1>4, ContentsAre
  <2> QED  BY <1>1, <1>3, <1>4, <2>1 DEF RefInv
<1>5. CASE Grows(c)
  <2>1. PICK h \in Heads : \E i \in 1..(Len(c[h]) + 1), x \in Elements :
          x \notin inUse /\ Represents(link', inUse', [c EXCEPT ![h] = Inserted(c[h], i, x)])
    BY <1>5 DEF Grows
  <2>2. PICK i \in 1..(Len(c[h]) + 1), x \in Elements :
          x \notin inUse /\ Represents(link', inUse', [c EXCEPT ![h] = Inserted(c[h], i, x)])
    BY <2>1
  <2> DEFINE d == [c EXCEPT ![h] = Inserted(c[h], i, x)]
  <2>3. Contents' = d
    BY <2>2, ContentsAre
  <2>4. ~Q!Listed(x)
    BY <1>2, <1>3, <2>2 DEF Q!Listed, Represents
  <2>5. Q!Insert(h, i, x)
    BY <1>3, <2>3, <2>4 DEF Q!Insert, Inserted
  <2>6. Q!Next
    BY <1>3, <2>5 DEF Q!Next
  <2> QED  BY <1>1, <2>2, <2>6 DEF RefInv
<1>6. CASE Shrinks(c)
  <2>1. PICK h \in Heads : \E i \in 1..Len(c[h]) :
          Represents(link', inUse', [c EXCEPT ![h] = Without(c[h], i)])
    BY <1>6 DEF Shrinks
  <2>2. PICK i \in 1..Len(c[h]) : Represents(link', inUse', [c EXCEPT ![h] = Without(c[h], i)])
    BY <2>1
  <2> DEFINE d == [c EXCEPT ![h] = Without(c[h], i)]
  <2>3. Contents' = d
    BY <2>2, ContentsAre
  <2>4. Q!Remove(h, i)
    BY <1>3, <2>3 DEF Q!Remove, Without
  <2>5. Q!Next
    BY <1>3, <2>4 DEF Q!Next
  <2> QED  BY <1>1, <2>2, <2>5 DEF RefInv
<1>7. Represents(link', inUse', c) \/ Grows(c) \/ Shrinks(c)
  BY <1>1, <1>2, StepOfSequences
<1> QED  BY <1>4, <1>5, <1>6, <1>7

(* For any number of queues and elements the pointer operations implement
   sequences: every insertion, at either end or behind an element, and every
   removal changes the contents of one queue in one place, and nothing else
   changes any.                                                            *)
THEOREM PointersAreSequences == Spec => IsQueue
BY RefInit, RefStep, PTL DEF Spec, IsQueue, Q!Spec

-----------------------------------------------------------------------------
(* Insertion and removal at the ends of a sequence.                        *)
LEMMA EndsOfSequence ==
  ASSUME NEW S, NEW s \in Seq(S), NEW x \in S
  PROVE  /\ Inserted(s, 1, x) = <<x>> \o s
         /\ Inserted(s, Len(s) + 1, x) = Append(s, x)
         /\ Len(s) > 0 => Without(s, 1) = Tail(s) /\ Without(s, Len(s)) = SubSeq(s, 1, Len(s) - 1)
<1>1. Len(s) \in Nat /\ <<x>> \in Seq(S) /\ <<>> \in Seq(S)
  BY LenProperties
<1>2. SubSeq(s, 1, Len(s)) = s
  BY SubSeqFull
<1>3. SubSeq(s, 1, 1 - 1) = <<>> /\ SubSeq(s, Len(s) + 1, Len(s)) = <<>>
  <2>1. 1 - 1 \in Int /\ 1 - 1 < 1 /\ Len(s) + 1 \in Int /\ Len(s) \in Int /\ Len(s) < Len(s) + 1 /\ 1 \in Int
    BY <1>1
  <2> QED  BY <2>1, SubSeqEmpty
<1>4. <<>> \o <<x>> = <<x>> /\ s \o <<>> = s
  BY <1>1, ConcatEmptySeq
<1>5. Inserted(s, 1, x) = <<x>> \o s
  BY <1>2, <1>3, <1>4 DEF Inserted
<1>6. Inserted(s, Len(s) + 1, x) = Append(s, x)
  <2>1. (Len(s) + 1) - 1 = Len(s)
    BY <1>1
  <2>2. s \o <<x>> \in Seq(S)
    BY <1>1, ConcatProperties
  <2>3. (s \o <<x>>) \o <<>> = s \o <<x>>
    BY <2>2, ConcatEmptySeq
  <2>4. Append(s, x) = s \o <<x>>
    BY AppendIsConcat
  <2>5. Inserted(s, Len(s) + 1, x) = (SubSeq(s, 1, (Len(s) + 1) - 1) \o <<x>>) \o SubSeq(s, Len(s) + 1, Len(s))
    BY DEF Inserted
  <2> QED  BY <1>2, <1>3, <2>1, <2>3, <2>4, <2>5
<1>7. ASSUME Len(s) > 0 PROVE Without(s, 1) = Tail(s) /\ Without(s, Len(s)) = SubSeq(s, 1, Len(s) - 1)
  <2>1. s # <<>>
    BY <1>7
  <2>2. Tail(s) = SubSeq(s, 2, Len(s)) /\ Tail(s) \in Seq(S)
    BY <2>1, TailIsSubSeq, HeadTailProperties
  <2>3. <<>> \o Tail(s) = Tail(s)
    BY <2>2, ConcatEmptySeq
  <2>4. Without(s, 1) = Tail(s)
    <3>1. 1 + 1 = 2
      OBVIOUS
    <3> QED  BY <1>3, <2>2, <2>3, <3>1 DEF Without
  <2>5. 1 \in 1..(Len(s) + 1) /\ Len(s) - 1 \in 0..Len(s)
    BY <1>1, <1>7
  <2>6. SubSeq(s, 1, Len(s) - 1) \in Seq(S)
    BY <2>5, Part
  <2>7. SubSeq(s, 1, Len(s) - 1) \o <<>> = SubSeq(s, 1, Len(s) - 1)
    BY <2>6, ConcatEmptySeq
  <2>8. Without(s, Len(s)) = SubSeq(s, 1, Len(s) - 1)
    BY <1>3, <2>7 DEF Without
  <2> QED  BY <2>4, <2>8
<1> QED  BY <1>5, <1>6, <1>7

(* The operations of ngx_queue_insert_head and ngx_queue_insert_tail on a
   head, and the removals behind a test for an empty queue, work on the
   first and on the last element.                                          *)
THEOREM HeadAndTailAreEnds == Spec => EndsAreEnds
<1>1. ASSUME RefInv, NEW h \in Heads \cap inUse
      PROVE  /\ \A x \in Elements : ngx_queue_insert_head(h, x) => Contents'[h] = <<x>> \o Contents[h]
             /\ \A x \in Elements : ngx_queue_insert_tail(h, x) => Contents'[h] = Append(Contents[h], x)
             /\ RemoveFirst(h) => Contents'[h] = Tail(Contents[h])
             /\ RemoveLast(h) => Contents'[h] = SubSeq(Contents[h], 1, Len(Contents[h]) - 1)
  <2>1. QueueInv
    BY <1>1 DEF RefInv
  <2>2. PICK c : Represents(link, inUse, c)
    BY <1>1 DEF RefInv
  <2>3. Contents = c
    BY <2>2, ContentsAre
  <2>4. c \in [Heads -> Seq(Elements)] /\ c[h] \in Seq(Elements)
    BY <2>2 DEF Represents
  <2>5. Len(c[h]) \in Nat /\ At(c[h], h, 0) = h /\ At(c[h], h, Len(c[h]) + 1) = h
    BY <2>4, RingNodes
  <2>6. ASSUME NEW x \in Elements, ngx_queue_insert_head(h, x) PROVE Contents'[h] = <<x>> \o c[h]
    <3>1. 0 \in 0..Len(c[h]) /\ 0 + 1 = 1
      BY <2>5
    <3>2. Represents(link', inUse', [c EXCEPT ![h] = Inserted(c[h], 0 + 1, x)])
      BY <2>1, <2>2, <2>5, <2>6, <3>1, InsertsBehind
    <3>3. Contents' = [c EXCEPT ![h] = Inserted(c[h], 1, x)]
      BY <3>1, <3>2, ContentsAre
    <3>4. Inserted(c[h], 1, x) = <<x>> \o c[h]
      BY <2>4, EndsOfSequence
    <3> QED  BY <2>4, <3>3, <3>4
  <2>7. ASSUME NEW x \in Elements, ngx_queue_insert_tail(h, x) PROVE Contents'[h] = Append(c[h], x)
    <3>1. Len(c[h]) + 1 \in 1..(Len(c[h]) + 1)
      BY <2>5
    <3>2. Represents(link', inUse', [c EXCEPT ![h] = Inserted(c[h], Len(c[h]) + 1, x)])
      BY <2>1, <2>2, <2>5, <2>7, <3>1, InsertsBefore
    <3>3. Contents' = [c EXCEPT ![h] = Inserted(c[h], Len(c[h]) + 1, x)]
      BY <3>2, ContentsAre
    <3>4. Inserted(c[h], Len(c[h]) + 1, x) = Append(c[h], x)
      BY <2>4, EndsOfSequence
    <3> QED  BY <2>4, <3>3, <3>4
  <2>8. ASSUME link.prev[h] # h
        PROVE  /\ 1 \in 1..Len(c[h]) /\ Len(c[h]) \in 1..Len(c[h])
               /\ link.next[h] = c[h][1] /\ link.prev[h] = c[h][Len(c[h])]
               /\ Without(c[h], 1) = Tail(c[h])
               /\ Without(c[h], Len(c[h])) = SubSeq(c[h], 1, Len(c[h]) - 1)
    <3>1. /\ 1 \in 1..Len(c[h]) /\ Len(c[h]) \in 1..Len(c[h])
          /\ link.next[h] = c[h][1] /\ link.prev[h] = c[h][Len(c[h])]
      BY <2>1, <2>2, <2>8, FirstAndLast
    <3>2. c[h][1] \in Elements /\ Len(c[h]) > 0
      BY <2>4, <2>5, <3>1, ElementOfSeq
    <3>3. Without(c[h], 1) = Tail(c[h]) /\ Without(c[h], Len(c[h])) = SubSeq(c[h], 1, Len(c[h]) - 1)
      BY <2>4, <3>2, EndsOfSequence
    <3> QED  BY <3>1, <3>3
  <2>9. ASSUME RemoveFirst(h) PROVE Contents'[h] = Tail(c[h])
    <3>1. link.prev[h] # h /\ ngx_queue_remove(link.next[h])
      BY <2>9 DEF RemoveFirst
    <3>2. 1 \in 1..Len(c[h]) /\ ngx_queue_remove(c[h][1])
      BY <2>8, <3>1
    <3>3. Represents(link', inUse', [c EXCEPT ![h] = Without(c[h], 1)])
      BY <2>1, <2>2, <3>2, Removes
    <3>4. Contents' = [c EXCEPT ![h] = Without(c[h], 1)]
      BY <3>3, ContentsAre
    <3> QED  BY <2>4, <2>8, <3>1, <3>4
  <2>10. ASSUME RemoveLast(h) PROVE Contents'[h] = SubSeq(c[h], 1, Len(c[h]) - 1)
    <3>1. link.prev[h] # h /\ ngx_queue_remove(link.prev[h])
      BY <2>10 DEF RemoveLast
    <3>2. Len(c[h]) \in 1..Len(c[h]) /\ ngx_queue_remove(c[h][Len(c[h])])
      BY <2>8, <3>1
    <3>3. Represents(link', inUse', [c EXCEPT ![h] = Without(c[h], Len(c[h]))])
      BY <2>1, <2>2, <3>2, Removes
    <3>4. Contents' = [c EXCEPT ![h] = Without(c[h], Len(c[h]))]
      BY <3>3, ContentsAre
    <3> QED  BY <2>4, <2>8, <3>1, <3>4
  <2> QED  BY <2>3, <2>6, <2>7, <2>9, <2>10
<1>2. RefInv =>
        \A h \in Heads \cap inUse :
          LET c == Contents[h]
              d == Contents'[h]
          IN  /\ \A x \in Elements : ngx_queue_insert_head(h, x) => d = <<x>> \o c
              /\ \A x \in Elements : ngx_queue_insert_tail(h, x) => d = Append(c, x)
              /\ RemoveFirst(h) => d = Tail(c)
              /\ RemoveLast(h) => d = SubSeq(c, 1, Len(c) - 1)
  BY <1>1
<1>3. RefInv /\ [Next]_vars => RefInv'
  BY RefStep
<1>4. Init => RefInv
  BY RefInit
<1> QED  BY <1>2, <1>3, <1>4, PTL DEF Spec, EndsAreEnds

=============================================================================
