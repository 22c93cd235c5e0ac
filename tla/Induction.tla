------------------------------ MODULE Induction ------------------------------
(***************************************************************************)
(* What the proofs need of recursive functions: a set of natural numbers   *)
(* has a least element, so a recursive definition has one solution, and    *)
(* the community modules' operators on sequences are what a solution says. *)
(***************************************************************************)
EXTENDS Integers, WellFoundedInduction, TLAPS

LEMMA LeastNumber ==
  ASSUME NEW T \in SUBSET Nat, T # {}
  PROVE  \E n \in T : \A m \in T : n <= m
<1> DEFINE R == {ss \in Nat \X Nat : ss[1] < ss[2]}
<1>1. IsWellFoundedOn(R, Nat)
  BY NatLessThanWellFounded DEF OpToRel
<1>2. \E n \in T : \A m \in T : <<m, n>> \notin R
  <2> HIDE DEF R
  <2> QED  BY <1>1, WFMin
<1>3. PICK n \in T : \A m \in T : <<m, n>> \notin R
  BY <1>2
<1>4. ASSUME NEW m \in T PROVE n <= m
  <2>1. m \in Nat /\ n \in Nat /\ <<m, n>> \notin R
    BY <1>3
  <2>2. ~(m < n)
    BY <2>1
  <2> QED  BY <2>1, <2>2
<1> QED  BY <1>4

LEMMA GreatestNumber ==
  ASSUME NEW bound \in Nat, NEW T \in SUBSET (0..bound), T # {}
  PROVE  \E n \in T : \A m \in T : m <= n
<1> DEFINE U == {bound - n : n \in T}
<1>1. U \in SUBSET Nat /\ U # {}
  <2>1. \A n \in T : n \in Nat /\ n <= bound /\ bound - n \in Nat
    OBVIOUS
  <2>2. \A u \in U : \E n \in T : u = bound - n
    BY Zenon
  <2>3. PICK n \in T : TRUE
    OBVIOUS
  <2>4. bound - n \in U
    OBVIOUS
  <2> HIDE DEF U
  <2> QED  BY <2>1, <2>2, <2>4
<1>2. PICK u \in U : \A v \in U : u <= v
  BY <1>1, LeastNumber
<1>3. PICK n \in T : u = bound - n
  BY <1>2, Zenon
<1>4. \A m \in T : bound - n <= bound - m
  BY <1>2, <1>3
<1> QED  BY <1>3, <1>4

-----------------------------------------------------------------------------
(***************************************************************************)
(* f[0] is given, and every other f[k] is made from the value at a smaller *)
(* number p[k].                                                            *)
(***************************************************************************)
Recursion(f, n, S, a, p, step) ==
  /\ f \in [0..n -> S] /\ f[0] = a
  /\ \A k \in 1..n : f[k] = step[<<k, f[p[k]]>>]

LEMMA RecursionHasSolution ==
  ASSUME NEW n \in Nat, NEW S, NEW a \in S, NEW p \in [1..n -> Nat], \A k \in 1..n : p[k] < k,
         NEW step \in [(1..n) \X S -> S]
  PROVE  \E f : Recursion(f, n, S, a, p, step)
<1> DEFINE T == {m \in 0..n : ~\E f : Recursion(f, m, S, a, p, step)}
<1>1. T = {}
  <2> SUFFICES ASSUME T # {} PROVE FALSE
    OBVIOUS
  <2>1. T \in SUBSET Nat
    OBVIOUS
  <2>2. PICK m \in T : \A k \in T : m <= k
    BY <2>1, LeastNumber
  <2>3. m \in 0..n /\ ~\E f : Recursion(f, m, S, a, p, step)
    BY <2>2
  <2>4. CASE m = 0
    <3>1. Recursion([k \in 0..0 |-> a], 0, S, a, p, step)
      BY DEF Recursion
    <3> QED  BY <2>3, <2>4, <3>1
  <2>5. CASE m # 0
    <3>1. m - 1 \in 0..n /\ m - 1 \notin T /\ m \in 1..n
      BY <2>2, <2>3, <2>5, SMTT(30)
    <3>2. \E f : Recursion(f, m - 1, S, a, p, step)
      BY <3>1
    <3>3. PICK f : Recursion(f, m - 1, S, a, p, step)
      BY <3>2
    <3>4. /\ f \in [0..(m - 1) -> S] /\ f[0] = a
          /\ \A k \in 1..(m - 1) : f[k] = step[<<k, f[p[k]]>>]
      BY <3>3 DEF Recursion
    <3> DEFINE v == step[<<m, f[p[m]]>>]
               g == [k \in 0..m |-> IF k = m THEN v ELSE f[k]]
    <3>5. p[m] \in 0..(m - 1)
      BY <3>1
    <3>6. v \in S
      BY <3>1, <3>4, <3>5
    <3> HIDE DEF v
    <3>7. g \in [0..m -> S] /\ g[0] = a /\ g[m] = v
      BY <2>5, <3>1, <3>4, <3>6
    <3>8. \A k \in 0..(m - 1) : g[k] = f[k]
      BY <3>1
    <3>9. \A k \in 1..m : p[k] \in 0..(m - 1) /\ g[p[k]] = f[p[k]]
      <4>1. ASSUME NEW k \in 1..m PROVE p[k] \in 0..(m - 1)
        <5>1. k \in 1..n /\ k <= m
          BY <3>1
        <5>2. p[k] \in Nat /\ p[k] < k
          BY <5>1
        <5> QED  BY <3>1, <5>1, <5>2
      <4> HIDE DEF g
      <4> QED  BY <3>8, <4>1
    <3>10. ASSUME NEW k \in 1..m PROVE g[k] = step[<<k, g[p[k]]>>]
      <4>1. CASE k = m
        BY <3>7, <3>9, <4>1 DEF v
      <4>2. CASE k # m
        <5>1. k \in 1..(m - 1) /\ k \in 0..(m - 1)
          BY <3>1, <4>2
        <5> HIDE DEF g
        <5>2. g[k] = f[k] /\ f[k] = step[<<k, f[p[k]]>>] /\ g[p[k]] = f[p[k]]
          BY <3>4, <3>8, <3>9, <5>1
        <5> QED  BY <5>2
      <4> QED  BY <4>1, <4>2
    <3> HIDE DEF g
    <3>11. Recursion(g, m, S, a, p, step)
      BY <3>7, <3>10 DEF Recursion
    <3> QED  BY <2>3, <3>11
  <2> QED  BY <2>4, <2>5
<1>2. n \in 0..n /\ n \notin T
  BY <1>1, SMTT(30)
<1> QED  BY <1>2

LEMMA UpTo ==
  ASSUME NEW n \in Nat, NEW T, 0 \in T, \A k \in 1..n : k - 1 \in T => k \in T
  PROVE  \A k \in 0..n : k \in T
<1> DEFINE U == {k \in 0..n : k \notin T}
<1> SUFFICES ASSUME U # {} PROVE FALSE
  OBVIOUS
<1>1. U \in SUBSET Nat
  OBVIOUS
<1>2. PICK k \in U : \A m \in U : k <= m
  BY <1>1, LeastNumber
<1>3. k \in 1..n /\ k \notin T /\ k - 1 \in 0..n /\ ~(k <= k - 1)
  BY <1>2
<1>4. k - 1 \in T
  BY <1>2, <1>3
<1> QED  BY <1>3, <1>4

LEMMA UpToStrong ==
  ASSUME NEW n \in Nat, NEW T, \A k \in 0..n : (\A m \in 0..(k - 1) : m \in T) => k \in T
  PROVE  \A k \in 0..n : k \in T
<1> DEFINE U == {k \in 0..n : k \notin T}
<1> SUFFICES ASSUME U # {} PROVE FALSE
  OBVIOUS
<1>1. U \in SUBSET Nat
  OBVIOUS
<1>2. PICK k \in U : \A m \in U : k <= m
  BY <1>1, LeastNumber
<1>3. ASSUME NEW m \in 0..(k - 1) PROVE m \in T
  <2>1. m \in 0..n /\ ~(k <= m)
    BY <1>2
  <2> QED  BY <1>2, <2>1
<1> QED  BY <1>2, <1>3

=============================================================================
