---------------------------- MODULE ShmtxProofs ----------------------------
(***************************************************************************)
(* Proofs about Shmtx, for any set of processes, any spin and any number   *)
(* of deaths and failing semaphore calls.                                  *)
(***************************************************************************)
EXTENDS Shmtx, FiniteSetTheorems, TLAPS

LEMMA InitTyped == Init => TypeOK
<1> SUFFICES ASSUME Init PROVE TypeOK
  OBVIOUS
<1>1. pc \in [Procs -> Points] /\ at \in [Procs -> Sites]
  BY DEF Init, Points, Sites
<1>2. pass \in [Procs -> 0..SpinPasses] /\ seen \in [Procs -> Int]
  BY ShmtxAssumption DEF ShmtxAssumption, Init
<1>3. wait \in Int /\ sem \in Nat /\ crashes \in Nat /\ faults \in Nat
  BY DEF Init
<1>4. mtx \in {"absent", "ready", "destroyed"} /\ semaphore \in BOOLEAN /\ endless \in BOOLEAN
      /\ lock \in Procs \cup {Free}
  BY DEF Init
<1>5. multi \in BOOLEAN
  BY ShmtxAssumption DEF ShmtxAssumption, Init
<1> QED BY <1>1, <1>2, <1>3, <1>4, <1>5 DEF TypeOK

LEMMA StepTyped == TypeOK /\ [Next]_vars => TypeOK'
<1> SUFFICES ASSUME TypeOK, [Next]_vars PROVE TypeOK'
  OBVIOUS
<1> USE ShmtxAssumption DEF ShmtxAssumption, TypeOK, Points, Sites, Goto, life, budgets, procVars
<1>1. CASE Create
  BY <1>1 DEF Create
<1>2. CASE Destroy
  BY <1>2 DEF Destroy
<1>3. ASSUME NEW p \in Procs, Step(p) PROVE TypeOK'
  <2>1. CASE Test(p)
    BY <2>1 DEF Test, Missed, Block
  <2>2. CASE Cas(p)
    BY <2>2 DEF Cas, Missed, Block, Acquired
  <2>3. CASE SpinPass(p)
    BY <2>3 DEF SpinPass, Block
  <2>4. CASE Register(p) \/ Deregister(p)
    BY <2>4 DEF Register, Deregister
  <2>5. CASE SemWait(p) \/ Yield(p)
    BY <2>5 DEF SemWait, Yield
  <2>6. CASE WakeRead(p) \/ WakeCas(p) \/ Post(p)
    BY <2>6 DEF WakeRead, WakeCas, Post
  <2> QED BY <1>3, <2>1, <2>2, <2>3, <2>4, <2>5, <2>6 DEF Step
<1>4. ASSUME NEW p \in Procs, Call(p) PROVE TypeOK'
  BY <1>4 DEF Call, Trylock, Lock, Unlock, ForceUnlock, Wakeup
<1>5. ASSUME NEW p \in Procs, Failure(p) PROVE TypeOK'
  BY <1>5 DEF Failure, SemWaitFails, PostFails, Crash
<1>6. CASE UNCHANGED vars
  BY <1>6 DEF vars
<1> QED BY <1>1, <1>2, <1>3, <1>4, <1>5, <1>6 DEF Next

(* The variables of ngx_shmtx_t and of the processes inside ngx_shmtx_lock,
   ngx_shmtx_unlock and ngx_shmtx_wakeup keep their types.                 *)
THEOREM TypeCorrect == Spec => []TypeOK
BY InitTyped, StepTyped, PTL DEF Spec

-----------------------------------------------------------------------------
(* How pc and at go together: a process is in an attempt exactly when "at"
   says which one.  And whoever was told that it owns the mutex, does.     *)
AtMatchesPc ==
  \A p \in Procs :
    /\ pc[p] \in {"test", "cas"} => at[p] \in {"try", "first", "spin", "wait"}
    /\ pc[p] = "deregister" => at[p] = "wait"
    /\ pc[p] = "semwait" => at[p] \in {"wait", "held"}
    /\ pc[p] \notin {"test", "cas", "deregister", "semwait"} => at[p] = "none"

InsideOwns == \A p \in Procs : Inside(p) => lock = p

LockInv == TypeOK /\ AtMatchesPc /\ InsideOwns

LEMMA LockInvInit == Init => LockInv
<1> SUFFICES ASSUME Init PROVE AtMatchesPc /\ InsideOwns
  BY InitTyped DEF LockInv
<1> QED BY DEF Init, AtMatchesPc, InsideOwns, Inside

LEMMA LockInvStep == LockInv /\ [Next]_vars => LockInv'
<1> SUFFICES ASSUME LockInv, [Next]_vars PROVE AtMatchesPc' /\ InsideOwns'
  BY StepTyped DEF LockInv
<1> USE DEF LockInv
<1>1. CASE Create \/ Destroy \/ UNCHANGED vars
  BY <1>1 DEF Create, Destroy, vars, procVars, AtMatchesPc, InsideOwns, Inside
<1>2. ASSUME NEW p \in Procs, Step(p) PROVE AtMatchesPc' /\ InsideOwns'
  <2> USE DEF AtMatchesPc, InsideOwns, Inside, Goto, TypeOK, Points, Sites
  <2>1. CASE Test(p)
    BY <2>1 DEF Test, Missed, Block
  <2>2. CASE Cas(p)
    <3>1. CASE lock = Free /\ Acquired(p)
      BY <2>2, <3>1, ShmtxAssumption DEF ShmtxAssumption, Cas, Acquired
    <3>2. CASE lock # Free /\ Missed(p) /\ UNCHANGED lock
      BY <2>2, <3>2 DEF Cas, Missed, Block
    <3> QED BY <2>2, <3>1, <3>2 DEF Cas
  <2>3. CASE SpinPass(p)
    BY <2>3 DEF SpinPass, Block
  <2>4. CASE Register(p) \/ Deregister(p)
    BY <2>4 DEF Register, Deregister
  <2>5. CASE SemWait(p) \/ Yield(p)
    BY <2>5 DEF SemWait, Yield
  <2>6. CASE WakeRead(p) \/ WakeCas(p) \/ Post(p)
    BY <2>6 DEF WakeRead, WakeCas, Post
  <2> QED BY <1>2, <2>1, <2>2, <2>3, <2>4, <2>5, <2>6 DEF Step
<1>3. ASSUME NEW p \in Procs, Call(p) PROVE AtMatchesPc' /\ InsideOwns'
  <2> USE DEF AtMatchesPc, InsideOwns, Inside, Goto, TypeOK, Points, Sites
  <2>1. CASE Trylock(p) \/ Lock(p)
    BY <2>1 DEF Trylock, Lock
  <2>2. CASE Unlock(p)
    BY <2>2 DEF Unlock, Wakeup
  <2>3. ASSUME NEW q \in Procs, ForceUnlock(p, q) PROVE AtMatchesPc' /\ InsideOwns'
    BY <2>3 DEF ForceUnlock, Wakeup
  <2> QED BY <1>3, <2>1, <2>2, <2>3 DEF Call
<1>4. ASSUME NEW p \in Procs, Failure(p) PROVE AtMatchesPc' /\ InsideOwns'
  BY <1>4 DEF Failure, SemWaitFails, PostFails, Crash, AtMatchesPc, InsideOwns,
              Inside, Goto, TypeOK, Points, Sites
<1> QED BY <1>1, <1>2, <1>3, <1>4 DEF Next

(* No two processes are ever told that they own the mutex: what
   ngx_shmtx_trylock, ngx_shmtx_lock, ngx_shmtx_unlock and
   ngx_shmtx_force_unlock promise together, deaths included.               *)
THEOREM MutualExclusionHolds == Spec => []MutualExclusion
<1>1. LockInv => MutualExclusion
  BY DEF LockInv, InsideOwns, MutualExclusion
<1> QED BY <1>1, LockInvInit, LockInvStep, PTL DEF Spec

-----------------------------------------------------------------------------
(* Refinement of Mutex.  A step changes the stage of one process p only.   *)
LEMMA StageMove ==
  ASSUME NEW p \in Procs, NEW s, Stage(p)' = s,
         \A q \in Procs : q # p => Stage(q)' = Stage(q)
  PROVE  Stages' = [Stages EXCEPT ![p] = s]
BY DEF Stages

LEMMA StageStay ==
  ASSUME \A q \in Procs : Stage(q)' = Stage(q)
  PROVE  Stages' = Stages
BY DEF Stages

LEMMA MutexInit == Init => M!Init
BY ShmtxAssumption DEF ShmtxAssumption, Init, M!Init, Stages, Stage

LEMMA MutexStep == LockInv /\ [Next]_vars => [M!Next]_(M!vars)
<1> SUFFICES ASSUME LockInv, [Next]_vars PROVE M!Next \/ UNCHANGED M!vars
  OBVIOUS
<1>1. CASE Create \/ Destroy \/ UNCHANGED vars
  BY <1>1 DEF Create, Destroy, vars, procVars, M!vars, Stages, Stage
<1>2. ASSUME NEW p \in Procs, Step(p) \/ Call(p) \/ Failure(p)
      PROVE  M!Next \/ UNCHANGED M!vars
  <2> DEFINE Others == \A q \in Procs : q # p => pc'[q] = pc[q] /\ at'[q] = at[q]
  <2>1. pc \in [Procs -> Points] /\ at \in [Procs -> Sites] /\ Free \notin Procs
    BY ShmtxAssumption DEF ShmtxAssumption, LockInv, TypeOK
  <2>2. ASSUME UNCHANGED lock, Others
        PROVE  \A q \in Procs : q # p => Stage(q)' = Stage(q)
    BY <2>2 DEF Stage
  <2>3. ASSUME UNCHANGED lock, Others, Stage(p)' = Stage(p)
        PROVE  UNCHANGED M!vars
    BY <2>2, <2>3, StageStay DEF M!vars
  <2>4. CASE Trylock(p) \/ Lock(p)
    <3>1. UNCHANGED lock /\ Others
      BY <2>1, <2>4 DEF Trylock, Lock, Goto
    <3>2. CASE lock = p
      BY <2>1, <2>3, <2>4, <3>1, <3>2 DEF Trylock, Lock, Goto, Stage
    <3>3. CASE lock # p
      <4>1. Stage(p) = "out" /\ Stage(p)' = "want"
        BY <2>1, <2>4, <3>1, <3>3 DEF Trylock, Lock, Goto, Stage, LockInv, AtMatchesPc
      <4>2. M!Request(p)
        BY <2>2, <3>1, <4>1, StageMove DEF M!Request, M!Move, Stages
      <4> QED BY <4>2 DEF M!Next
    <3> QED BY <3>2, <3>3
  <2>5. CASE Test(p)
    <3>1. UNCHANGED lock /\ Others
      BY <2>1, <2>5 DEF Test, Missed, Block, Goto
    <3>2. CASE Stage(p)' = Stage(p)
      BY <2>3, <3>1, <3>2
    <3>3. CASE Stage(p)' # Stage(p)
      <4>1. Stage(p) = "want" /\ Stage(p)' = "out" /\ lock # Free
        BY <2>1, <2>5, <3>1, <3>3
           DEF Test, Missed, Block, Goto, Stage, LockInv, AtMatchesPc
      <4>2. M!TurnAway(p)
        BY <2>2, <3>1, <4>1, StageMove DEF M!TurnAway, M!Move, Stages
      <4> QED BY <4>2 DEF M!Next
    <3> QED BY <3>2, <3>3
  <2>6. CASE Cas(p)
    <3>1. CASE lock = Free /\ Acquired(p)
      <4>1. Stage(p) = "want" /\ Stage(p)' = "in" /\ lock' = p
        BY <2>1, <2>6, <3>1 DEF Cas, Acquired, Goto, Stage, LockInv, AtMatchesPc
      <4>2. \A q \in Procs : q # p => Stage(q)' = Stage(q)
        BY <2>1, <3>1 DEF Acquired, Goto, Stage
      <4>3. M!Grant(p)
        BY <3>1, <4>1, <4>2, StageMove DEF M!Grant, M!Move, Stages
      <4> QED BY <4>3 DEF M!Next
    <3>2. CASE lock # Free /\ Missed(p) /\ UNCHANGED lock
      <4>1. Others
        BY <2>1, <3>2 DEF Missed, Block, Goto
      <4>2. CASE Stage(p)' = Stage(p)
        BY <2>3, <3>2, <4>1, <4>2
      <4>3. CASE Stage(p)' # Stage(p)
        <5>1. Stage(p) = "want" /\ Stage(p)' = "out"
          BY <2>1, <2>6, <3>2, <4>3 DEF Cas, Missed, Block, Goto, Stage, LockInv, AtMatchesPc
        <5>2. M!TurnAway(p)
          BY <2>2, <3>2, <4>1, <5>1, StageMove DEF M!TurnAway, M!Move, Stages
        <5> QED BY <5>2 DEF M!Next
      <4> QED BY <4>2, <4>3
    <3> QED BY <2>6, <3>1, <3>2 DEF Cas
  <2>7. CASE SpinPass(p) \/ Register(p) \/ Deregister(p) \/ SemWait(p) \/ Yield(p) \/ SemWaitFails(p)
    <3>1. UNCHANGED lock /\ Others /\ Stage(p)' = Stage(p)
      BY <2>1, <2>7 DEF SpinPass, Block, Register, Deregister, SemWait, Yield,
         SemWaitFails, Goto, Stage, LockInv, AtMatchesPc
    <3> QED BY <2>3, <3>1
  <2>8. CASE WakeRead(p) \/ WakeCas(p) \/ Post(p) \/ PostFails(p)
    <3>1. UNCHANGED lock /\ Others /\ Stage(p)' = Stage(p)
      BY <2>1, <2>8 DEF WakeRead, WakeCas, Post, PostFails, Goto, Stage, LockInv, AtMatchesPc
    <3> QED BY <2>3, <3>1
  <2>9. CASE Unlock(p)
    <3>1. CASE lock = p /\ lock' = Free /\ Wakeup(p)
      <4>1. Stage(p) = "in" /\ Stage(p)' = "out"
        BY <2>1, <2>9, <3>1 DEF Unlock, Wakeup, Goto, Stage
      <4>2. \A q \in Procs : q # p => Stage(q)' = Stage(q)
        BY <2>1, <3>1 DEF Wakeup, Goto, Stage
      <4>3. M!Release(p)
        BY <3>1, <4>1, <4>2, StageMove DEF M!Release, M!Move, Stages
      <4> QED BY <4>3 DEF M!Next
    <3>2. CASE lock # p /\ UNCHANGED lock /\ Goto(p, "idle", "none")
      <4>1. Others /\ Stage(p)' = Stage(p)
        BY <2>1, <2>9, <3>2 DEF Unlock, Goto, Stage, LockInv, AtMatchesPc
      <4> QED BY <2>3, <3>2, <4>1
    <3> QED BY <2>9, <3>1, <3>2 DEF Unlock
  <2>10. ASSUME NEW q \in Procs, ForceUnlock(p, q) PROVE M!Next \/ UNCHANGED M!vars
    <3>1. Others
      BY <2>1, <2>10 DEF ForceUnlock, Wakeup, Goto
    <3>2. CASE lock = q /\ lock' = Free /\ Wakeup(p)
      <4>1. Stage(q) = "gone" /\ \A r \in Procs : Stage(r)' = Stage(r)
        BY <2>1, <2>10, <3>1, <3>2 DEF ForceUnlock, Wakeup, Goto, Stage, LockInv, AtMatchesPc
      <4>2. M!Revoke(q)
        BY <3>2, <4>1, StageStay DEF M!Revoke, Stages
      <4> QED BY <4>2 DEF M!Next
    <3>3. CASE lock # q /\ UNCHANGED lock /\ Goto(p, "idle", "none")
      <4>1. Stage(p)' = Stage(p)
        BY <2>1, <2>10, <3>3 DEF ForceUnlock, Goto, Stage, LockInv, AtMatchesPc
      <4> QED BY <2>3, <3>1, <3>3, <4>1
    <3> QED BY <2>10, <3>2, <3>3 DEF ForceUnlock
  <2>11. CASE Crash(p)
    <3>1. UNCHANGED lock /\ Others /\ Stage(p) # "gone" /\ Stage(p)' = "gone"
      BY <2>1, <2>11 DEF Crash, Goto, Stage
    <3>2. M!Die(p)
      BY <2>2, <3>1, StageMove DEF M!Die, M!Move, Stages
    <3> QED BY <3>2 DEF M!Next
  <2> QED BY <1>2, <2>4, <2>5, <2>6, <2>7, <2>8, <2>9, <2>10, <2>11 DEF Step, Call, Failure
<1> QED BY <1>1, <1>2 DEF Next

(* ngx_shmtx.c implements an abstract mutex: every step of a process is a
   request, a grant, a release, a refusal, a death or nothing at all.      *)
THEOREM ImplementsMutex == Spec => IsMutex
BY LockInvInit, LockInvStep, MutexInit, MutexStep, PTL DEF Spec, IsMutex, M!Spec

-----------------------------------------------------------------------------
(* Where the processes can be, beyond LockInv: the semaphore is used only
   where there is one, nobody is anywhere before the mutex is made, the dead
   are counted, and an owner that is past its last attempt never gets back
   to a point from which it could unlock.                                  *)
NeedsSemaphore(p) ==
  \/ pc[p] \in {"register", "deregister", "semwait", "wakeread", "wakecas", "post"}
  \/ at[p] \in {"wait", "held"}

WhereInv ==
  /\ \A p \in Procs : NeedsSemaphore(p) => semaphore
  /\ mtx = "absent" => \A p \in Procs : pc[p] = "idle"
  /\ \A p \in Procs : pc[p] = "dead" => crashes > 0
  /\ \A p \in Procs : pc[p] = "deregister" \/ at[p] = "held" => lock = p
  /\ \A p \in Procs : lock = p =>
       \/ pc[p] \in {"cs", "deregister", "semwait", "spin", "register", "yield", "dead"}
       \/ pc[p] \in {"test", "cas"} /\ at[p] # "try"

WakeInv == LockInv /\ WhereInv /\ WakeupsAccounted /\ NoLostWakeup

LEMMA WhereInit == Init => WhereInv
BY ShmtxAssumption DEF ShmtxAssumption, Init, WhereInv, NeedsSemaphore

LEMMA WhereStep == LockInv /\ WhereInv /\ [Next]_vars => WhereInv'
<1> SUFFICES ASSUME LockInv, WhereInv, [Next]_vars PROVE WhereInv'
  OBVIOUS
<1>0. /\ pc \in [Procs -> Points] /\ at \in [Procs -> Sites] /\ Free \notin Procs
      /\ crashes \in Nat /\ semaphore \in BOOLEAN /\ endless \in BOOLEAN /\ multi \in BOOLEAN /\ AtMatchesPc /\ InsideOwns
  BY ShmtxAssumption DEF ShmtxAssumption, LockInv, TypeOK
<1> USE <1>0 DEF WhereInv, NeedsSemaphore, Goto, Points, Sites
<1>1. CASE Create \/ Destroy \/ UNCHANGED vars
  BY <1>1 DEF Create, Destroy, vars, procVars, budgets, AtMatchesPc
<1>2. ASSUME NEW p \in Procs, Step(p) PROVE WhereInv'
  <2>1. CASE Test(p)
    BY <2>1 DEF Test, Missed, Block, AtMatchesPc, life, budgets
  <2>2. CASE Cas(p)
    <3>1. CASE lock = Free /\ Acquired(p)
      BY <2>2, <3>1 DEF Cas, Acquired, AtMatchesPc, life, budgets
    <3>2. CASE lock # Free /\ Missed(p) /\ UNCHANGED lock
      BY <2>2, <3>2 DEF Cas, Missed, Block, AtMatchesPc, life, budgets
    <3> QED BY <2>2, <3>1, <3>2 DEF Cas
  <2>3. CASE SpinPass(p)
    BY <2>3 DEF SpinPass, Block, AtMatchesPc, life, budgets
  <2>4. CASE Register(p) \/ Deregister(p)
    BY <2>4 DEF Register, Deregister, AtMatchesPc, life, budgets
  <2>5. CASE SemWait(p) \/ Yield(p)
    BY <2>5 DEF SemWait, Yield, AtMatchesPc, life, budgets
  <2>6. CASE WakeRead(p) \/ WakeCas(p) \/ Post(p)
    BY <2>6 DEF WakeRead, WakeCas, Post, AtMatchesPc, life, budgets
  <2> QED BY <1>2, <2>1, <2>2, <2>3, <2>4, <2>5, <2>6 DEF Step
<1>3. ASSUME NEW p \in Procs, Call(p) PROVE WhereInv'
  <2>1. CASE Trylock(p) \/ Lock(p)
    BY <2>1 DEF Trylock, Lock, AtMatchesPc, life, budgets
  <2>2. CASE Unlock(p)
    BY <2>2 DEF Unlock, Wakeup, AtMatchesPc, InsideOwns, Inside, life, budgets
  <2>3. ASSUME NEW q \in Procs, ForceUnlock(p, q) PROVE WhereInv'
    BY <2>3 DEF ForceUnlock, Wakeup, AtMatchesPc, life, budgets
  <2> QED BY <1>3, <2>1, <2>2, <2>3 DEF Call
<1>4. ASSUME NEW p \in Procs, Failure(p) PROVE WhereInv'
  BY <1>4 DEF Failure, SemWaitFails, PostFails, Crash, AtMatchesPc, life, budgets
<1> QED BY <1>1, <1>2, <1>3, <1>4 DEF Next

(* The two sides of the books are finite, and one process joins or leaves
   one of them at a time.                                                  *)
LEMMA SidesFinite ==
  /\ IsFiniteSet(Registered) /\ IsFiniteSet(Posting)
  /\ Cardinality(Registered) \in Nat /\ Cardinality(Posting) \in Nat
BY ShmtxAssumption, FS_Subset, FS_CardinalityType DEF ShmtxAssumption, Registered, Posting

LEMMA Joins ==
  ASSUME NEW S, IsFiniteSet(S), NEW x, x \notin S
  PROVE  Cardinality(S \cup {x}) = Cardinality(S) + 1
BY FS_AddElement

LEMMA Leaves ==
  ASSUME NEW S, IsFiniteSet(S), NEW x, x \in S
  PROVE  Cardinality(S \ {x}) = Cardinality(S) - 1
BY FS_RemoveElement

(* Only its death cures an owner that strayed.                             *)
LEMMA StrayStays ==
  LockInv /\ WhereInv /\ [Next]_vars /\ OwnerStrayed => OwnerStrayed' \/ Failures' > Failures
<1> SUFFICES ASSUME LockInv, WhereInv, [Next]_vars,
                    NEW o \in Procs, lock = o,
                    pc[o] \notin {"cs", "deregister", "dead"}, at[o] # "held"
             PROVE  \/ lock' = o /\ pc'[o] \notin {"cs", "deregister", "dead"} /\ at'[o] # "held"
                    \/ crashes' + faults' > crashes + faults
  BY DEF OwnerStrayed, Failures
<1>0. /\ pc \in [Procs -> Points] /\ at \in [Procs -> Sites] /\ Free \notin Procs
      /\ crashes \in Nat /\ faults \in Nat /\ AtMatchesPc
  BY ShmtxAssumption DEF ShmtxAssumption, LockInv, TypeOK
<1> DEFINE Still == lock' = o /\ pc'[o] \notin {"cs", "deregister", "dead"} /\ at'[o] # "held"
<1> USE <1>0 DEF WhereInv, Goto
<1>1. CASE Create \/ Destroy \/ UNCHANGED vars
  BY <1>1 DEF Create, Destroy, vars, procVars
<1>2. ASSUME NEW p \in Procs, Step(p) PROVE Still
  <2>1. CASE Test(p) \/ Cas(p)
    BY <2>1 DEF Test, Cas, Missed, Block, Acquired, AtMatchesPc
  <2>2. CASE SpinPass(p) \/ Register(p) \/ Deregister(p) \/ SemWait(p) \/ Yield(p)
    BY <2>2 DEF SpinPass, Block, Register, Deregister, SemWait, Yield, AtMatchesPc
  <2>3. CASE WakeRead(p) \/ WakeCas(p) \/ Post(p)
    BY <2>3 DEF WakeRead, WakeCas, Post, AtMatchesPc
  <2> QED BY <1>2, <2>1, <2>2, <2>3 DEF Step
<1>3. ASSUME NEW p \in Procs, Call(p) PROVE Still
  BY <1>3 DEF Call, Trylock, Lock, Unlock, ForceUnlock, Wakeup
<1>4. ASSUME NEW p \in Procs, Failure(p) PROVE crashes' + faults' > crashes + faults
  BY <1>4 DEF Failure, SemWaitFails, PostFails, Crash
<1> QED BY <1>1, <1>2, <1>3, <1>4 DEF Next

(* The counts of deaths and failures never go back.                        *)
LEMMA BudgetsUsed ==
  LockInv /\ [Next]_vars /\ crashes' = 0 /\ faults' = 0
    => crashes = 0 /\ faults = 0 /\ \A p \in Procs : ~Failure(p)
<1> SUFFICES ASSUME LockInv, [Next]_vars, crashes' = 0, faults' = 0
             PROVE  crashes = 0 /\ faults = 0 /\ \A p \in Procs : ~Failure(p)
  OBVIOUS
<1>0. crashes \in Nat /\ faults \in Nat
  BY DEF LockInv, TypeOK
<1>1. ASSUME NEW p \in Procs, Failure(p) PROVE FALSE
  BY <1>0, <1>1 DEF Failure, SemWaitFails, PostFails, Crash
<1>2. CASE Create \/ Destroy \/ UNCHANGED vars
  BY <1>1, <1>2 DEF Create, Destroy, budgets, vars
<1>3. ASSUME NEW p \in Procs, Step(p) PROVE UNCHANGED budgets
  BY <1>3 DEF Step, Test, Cas, SpinPass, Register, Deregister, SemWait, Yield,
              WakeRead, WakeCas, Post
<1>4. ASSUME NEW p \in Procs, Call(p) PROVE UNCHANGED budgets
  BY <1>4 DEF Call, Trylock, Lock, Unlock, ForceUnlock
<1> QED BY <1>1, <1>2, <1>3, <1>4 DEF Next, budgets

(* The books by themselves: drift d becomes e, failures f become g, and a
   stray owner s becomes t.                                                *)
LEMMA BooksBound ==
  ASSUME NEW d \in Int, NEW e \in Int, NEW f \in Int, NEW g \in Int, NEW s, NEW t,
         d <= f, -d <= f + 1, ~s => -d <= f,
         g >= f, s => t \/ g > f,
         \/ e = d
         \/ e = d + 1 /\ g > f
         \/ e = d - 1 /\ g > f /\ (s => t)
         \/ e = d - 1 /\ ~s /\ t
  PROVE  e <= g /\ -e <= g + 1 /\ (~t => -e <= g)
<1>1. e <= g /\ -e <= g + 1
  <2>1. CASE s
    BY <2>1
  <2>2. CASE ~s
    BY <2>2
  <2> QED BY <2>1, <2>2
<1>2. ASSUME ~t PROVE -e <= g
  <2>1. CASE s
    <3>1. g > f
      BY <1>2, <2>1
    <3> QED BY <1>2, <3>1
  <2>2. CASE ~s
    BY <1>2, <2>2
  <2> QED BY <2>1, <2>2
<1> QED BY <1>1, <1>2

(* The three ways in which a step may move the books.                      *)
LEMMA BooksKept ==
  ASSUME LockInv, WhereInv, WakeupsAccounted, [Next]_vars, LockInv',
         Failures' >= Failures,
         \/ Drift' = Drift
         \/ Drift' = Drift + 1 /\ Failures' > Failures
         \/ Drift' = Drift - 1 /\ Failures' > Failures /\ (OwnerStrayed => OwnerStrayed')
         \/ Drift' = Drift - 1 /\ ~OwnerStrayed /\ OwnerStrayed'
  PROVE  WakeupsAccounted'
<1>0. Cardinality(Registered') \in Nat /\ Cardinality(Posting') \in Nat
  BY ShmtxAssumption, FS_Subset, FS_CardinalityType DEF ShmtxAssumption, Registered, Posting
<1>1. Drift \in Int /\ Failures \in Int /\ Drift' \in Int /\ Failures' \in Int
  BY <1>0, SidesFinite DEF Drift, Failures, LockInv, TypeOK
<1>2. OwnerStrayed => OwnerStrayed' \/ Failures' > Failures
  BY StrayStays
<1>3. Drift <= Failures /\ -Drift <= Failures + 1 /\ (~OwnerStrayed => -Drift <= Failures)
  BY <1>1 DEF WakeupsAccounted
<1>4. Drift' <= Failures' /\ -Drift' <= Failures' + 1 /\ (~OwnerStrayed' => -Drift' <= Failures')
  BY <1>1, <1>2, <1>3, BooksBound, ZenonT(30)
<1> QED BY <1>4 DEF WakeupsAccounted

LEMMA AccountStep ==
  LockInv /\ WhereInv /\ WakeupsAccounted /\ [Next]_vars => WakeupsAccounted'
<1> SUFFICES ASSUME LockInv, WhereInv, WakeupsAccounted, [Next]_vars PROVE WakeupsAccounted'
  OBVIOUS
<1> DEFINE Books ==
      /\ Failures' >= Failures
      /\ \/ Drift' = Drift
         \/ Drift' = Drift + 1 /\ Failures' > Failures
         \/ Drift' = Drift - 1 /\ Failures' > Failures /\ (OwnerStrayed => OwnerStrayed')
         \/ Drift' = Drift - 1 /\ ~OwnerStrayed /\ OwnerStrayed'
<1>0. SUFFICES Books
  BY LockInvStep, BooksKept
<1>1. /\ pc \in [Procs -> Points] /\ at \in [Procs -> Sites] /\ Free \notin Procs
      /\ crashes \in Nat /\ faults \in Nat /\ wait \in Int /\ sem \in Nat /\ AtMatchesPc
  BY ShmtxAssumption DEF ShmtxAssumption, LockInv, TypeOK
<1>2. /\ IsFiniteSet(Registered) /\ IsFiniteSet(Posting)
      /\ Cardinality(Registered) \in Nat /\ Cardinality(Posting) \in Nat
  BY SidesFinite
<1>3. ASSUME UNCHANGED <<wait, sem, Posting, Registered, budgets>> PROVE Books
  BY <1>1, <1>3 DEF Drift, Failures, budgets
<1>4. CASE Create \/ Destroy \/ UNCHANGED vars
  BY <1>3, <1>4 DEF Create, Destroy, vars, procVars, budgets, Posting, Registered
<1>5. ASSUME NEW p \in Procs, Step(p) PROVE Books
  <2>0. UNCHANGED budgets
    BY <1>5 DEF Step, Test, Cas, SpinPass, Register, Deregister, SemWait, Yield,
                WakeRead, WakeCas, Post
  <2>1. CASE Test(p) \/ SpinPass(p) \/ Yield(p) \/ WakeRead(p)
    <3>1. UNCHANGED <<wait, sem, Posting, Registered>>
      BY <1>1, <2>1 DEF Test, Missed, Block, SpinPass, Yield, WakeRead, Goto, Posting,
                        Registered, AtMatchesPc
    <3> QED BY <1>3, <2>0, <3>1
  <2>2. CASE Cas(p)
    <3>1. UNCHANGED <<wait, sem, Posting, Registered>>
      BY <1>1, <2>2 DEF Cas, Missed, Block, Acquired, Goto, Posting, Registered, AtMatchesPc
    <3> QED BY <1>3, <2>0, <3>1
  <2>3. CASE Register(p)
    <3>1. p \notin Registered /\ Registered' = Registered \cup {p} /\ Posting' = Posting
      BY <1>1, <2>3 DEF Register, Goto, Registered, Posting
    <3>2. wait' = wait + 1 /\ sem' = sem
      BY <2>3 DEF Register
    <3> QED BY <1>1, <1>2, <2>0, <3>1, <3>2, Joins DEF Drift, Failures, budgets
  <2>4. CASE Deregister(p)
    <3>1. p \in Registered /\ Registered' = Registered \ {p} /\ Posting' = Posting
      BY <1>1, <2>4 DEF Deregister, Goto, Registered, Posting, AtMatchesPc
    <3>2. wait' = wait - 1 /\ sem' = sem
      BY <2>4 DEF Deregister
    <3> QED BY <1>1, <1>2, <2>0, <3>1, <3>2, Leaves DEF Drift, Failures, budgets
  <2>5. CASE SemWait(p)
    <3>1. wait' = wait /\ sem' = sem - 1
      BY <2>5 DEF SemWait
    <3>2. CASE at[p] = "wait"
      <4>1. p \in Registered /\ Registered' = Registered \ {p} /\ Posting' = Posting
        BY <1>1, <2>5, <3>2 DEF SemWait, Goto, Registered, Posting
      <4> QED BY <1>1, <1>2, <2>0, <3>1, <4>1, Leaves DEF Drift, Failures, budgets
    <3>3. CASE at[p] = "held"
      <4>1. Registered' = Registered /\ Posting' = Posting
        BY <1>1, <2>5, <3>3 DEF SemWait, Goto, Registered, Posting
      <4>2. lock = p /\ lock' = p /\ pc'[p] = "test" /\ at'[p] = "first"
        BY <1>1, <2>5, <3>3 DEF SemWait, Goto, WhereInv
      <4>3. ~OwnerStrayed /\ OwnerStrayed'
        BY <3>3, <4>2 DEF OwnerStrayed
      <4> QED BY <1>1, <1>2, <2>0, <3>1, <4>1, <4>3 DEF Drift, Failures, budgets
    <3> QED BY <2>5, <3>2, <3>3, <1>1 DEF SemWait, AtMatchesPc
  <2>6. CASE WakeCas(p)
    <3>1. CASE wait = seen[p] /\ wait' = wait - 1 /\ Goto(p, "post", "none")
      <4>1. p \notin Posting /\ Posting' = Posting \cup {p} /\ Registered' = Registered
        BY <1>1, <2>6, <3>1 DEF WakeCas, Goto, Registered, Posting
      <4>2. sem' = sem
        BY <2>6 DEF WakeCas
      <4> QED BY <1>1, <1>2, <2>0, <3>1, <4>1, <4>2, Joins DEF Drift, Failures, budgets
    <3>2. CASE wait # seen[p] /\ UNCHANGED wait /\ Goto(p, "wakeread", "none")
      <4>1. UNCHANGED <<wait, sem, Posting, Registered>>
        BY <1>1, <2>6, <3>2 DEF WakeCas, Goto, Registered, Posting
      <4> QED BY <1>3, <2>0, <4>1
    <3> QED BY <2>6, <3>1, <3>2 DEF WakeCas
  <2>7. CASE Post(p)
    <3>1. p \in Posting /\ Posting' = Posting \ {p} /\ Registered' = Registered
      BY <1>1, <2>7 DEF Post, Goto, Registered, Posting
    <3>2. wait' = wait /\ sem' = sem + 1
      BY <2>7 DEF Post
    <3> QED BY <1>1, <1>2, <2>0, <3>1, <3>2, Leaves DEF Drift, Failures, budgets
  <2> QED BY <1>5, <2>1, <2>2, <2>3, <2>4, <2>5, <2>6, <2>7 DEF Step
<1>6. ASSUME NEW p \in Procs, Call(p) PROVE Books
  <2>1. UNCHANGED <<wait, sem, budgets>>
    BY <1>6 DEF Call, Trylock, Lock, Unlock, ForceUnlock
  <2>2. UNCHANGED <<Posting, Registered>>
    BY <1>1, <1>6 DEF Call, Trylock, Lock, Unlock, ForceUnlock, Wakeup, Goto, Posting, Registered
  <2> QED BY <1>3, <2>1, <2>2
<1>7. ASSUME NEW p \in Procs, Failure(p) PROVE Books
  <2>1. Failures' = Failures + 1 /\ UNCHANGED <<wait, sem>> /\ Failures \in Nat
    BY <1>1, <1>7 DEF Failure, SemWaitFails, PostFails, Crash, Failures
  <2>2. \A q \in Procs : q # p => pc'[q] = pc[q] /\ at'[q] = at[q]
    BY <1>1, <1>7 DEF Failure, SemWaitFails, PostFails, Crash, Goto
  <2>3. p \notin Registered' /\ p \notin Posting'
    BY <1>1, <1>7 DEF Failure, SemWaitFails, PostFails, Crash, Goto, Registered, Posting
  <2>4. CASE p \in Registered
    <3>1. Registered' = Registered \ {p} /\ Posting' = Posting
      BY <2>2, <2>3, <2>4 DEF Registered, Posting
    <3> QED BY <1>1, <1>2, <2>1, <2>4, <3>1, Leaves DEF Drift
  <2>5. CASE p \in Posting
    <3>1. Registered' = Registered /\ Posting' = Posting \ {p}
      BY <2>2, <2>3, <2>5 DEF Registered, Posting
    <3>2. lock # p /\ lock' = lock
      BY <1>7, <2>5 DEF Failure, SemWaitFails, PostFails, Crash, Posting, WhereInv
    <3>3. OwnerStrayed => OwnerStrayed'
      BY <2>2, <3>2 DEF OwnerStrayed
    <3> QED BY <1>1, <1>2, <2>1, <2>5, <3>1, <3>3, Leaves DEF Drift
  <2>6. CASE p \notin Registered /\ p \notin Posting
    <3>1. Registered' = Registered /\ Posting' = Posting
      BY <2>2, <2>3, <2>6 DEF Registered, Posting
    <3> QED BY <1>1, <1>2, <2>1, <3>1 DEF Drift
  <2> QED BY <2>4, <2>5, <2>6
<1> QED BY <1>4, <1>5, <1>6, <1>7 DEF Next

LEMMA NoLostStep ==
  WakeInv /\ [Next]_vars => NoLostWakeup'
<1> SUFFICES ASSUME WakeInv, [Next]_vars,
                    crashes' = 0, faults' = 0, lock' = Free,
                    NEW s \in Procs, pc'[s] = "semwait"
             PROVE  sem' > 0 \/ \E p \in Procs : OnTheWay(p)'
  BY DEF NoLostWakeup, Sleeping
<1>1. /\ pc \in [Procs -> Points] /\ at \in [Procs -> Sites] /\ Free \notin Procs
      /\ crashes \in Nat /\ faults \in Nat /\ wait \in Int /\ sem \in Nat
      /\ AtMatchesPc /\ LockInv /\ WhereInv
  BY ShmtxAssumption DEF ShmtxAssumption, WakeInv, LockInv, TypeOK
<1>2. lock = Free /\ pc[s] = "semwait" => sem > 0 \/ \E p \in Procs : OnTheWay(p)
  BY BudgetsUsed DEF WakeInv, NoLostWakeup, Sleeping
<1> USE <1>1 DEF Goto
<1>3. CASE Create \/ Destroy \/ UNCHANGED vars
  BY <1>2, <1>3 DEF Create, Destroy, vars, procVars, OnTheWay
<1>4. ASSUME NEW p \in Procs, Call(p)
      PROVE  sem' > 0 \/ \E q \in Procs : OnTheWay(q)'
  <2>1. CASE Trylock(p) \/ Lock(p)
    <3>1. lock = Free /\ pc[s] = "semwait" /\ sem' = sem
      BY <2>1 DEF Trylock, Lock
    <3>2. \A q \in Procs : OnTheWay(q) => OnTheWay(q)'
      BY <2>1 DEF Trylock, Lock, OnTheWay
    <3> QED BY <1>2, <3>1, <3>2
  <2>2. ASSUME NEW q \in Procs, Unlock(p) \/ ForceUnlock(p, q)
        PROVE  sem' > 0 \/ \E r \in Procs : OnTheWay(r)'
    <3>1. s # p /\ pc[s] = "semwait" /\ sem' = sem /\ semaphore
      BY <2>2 DEF Unlock, ForceUnlock, Wakeup, WhereInv, NeedsSemaphore, Points
    <3>2. CASE lock = Free
      <4>1. \A r \in Procs : OnTheWay(r) => OnTheWay(r)'
        BY <2>2, <3>2 DEF Unlock, ForceUnlock, Wakeup, OnTheWay
      <4> QED BY <1>2, <3>1, <3>2, <4>1
    <3>3. CASE lock # Free
      BY <2>2, <3>1, <3>3 DEF Unlock, ForceUnlock, Wakeup, OnTheWay
    <3> QED BY <3>2, <3>3
  <2> QED BY <1>4, <2>1, <2>2 DEF Call
<1>5. ASSUME NEW p \in Procs, Step(p)
      PROVE  sem' > 0 \/ \E q \in Procs : OnTheWay(q)'
  <2>1. lock = Free
    BY <1>5 DEF Step, Test, Cas, Acquired, SpinPass, Register, Deregister, SemWait, Yield,
                WakeRead, WakeCas, Post
  <2>2. CASE Test(p) \/ Cas(p)
    <3>1. pc[s] = "semwait" /\ sem' = sem
      BY <2>1, <2>2 DEF Test, Cas, Acquired
    <3>2. \A q \in Procs : OnTheWay(q) => OnTheWay(q)'
      BY <2>1, <2>2 DEF Test, Cas, Acquired, OnTheWay, AtMatchesPc
    <3> QED BY <1>2, <2>1, <3>1, <3>2
  <2>3. CASE SpinPass(p) \/ Register(p) \/ Yield(p) \/ SemWait(p)
    BY <2>3 DEF SpinPass, Block, Register, Yield, SemWait, OnTheWay
  <2>4. CASE Deregister(p)
    BY <2>1, <2>4 DEF Deregister, WhereInv
  <2>5. CASE WakeCas(p)
    BY <2>5 DEF WakeCas, OnTheWay
  <2>6. CASE Post(p)
    BY <2>6 DEF Post
  <2>7. CASE WakeRead(p)
    <3>1. CASE wait > 0
      BY <2>7, <3>1 DEF WakeRead, OnTheWay
    <3>2. CASE wait <= 0 /\ sem = 0
      <4>1. pc[s] = "semwait" /\ at[s] = "wait"
        BY <2>1, <2>7, <3>2 DEF WakeRead, AtMatchesPc, WhereInv
      <4>2. s \in Registered
        BY <4>1 DEF Registered
      <4>3. Cardinality(Registered) >= 1
        BY <4>2, SidesFinite, FS_EmptySet
      <4>4. Cardinality(Posting) >= 1
        BY <2>1, <3>2, <4>3, BudgetsUsed, SidesFinite
           DEF WakeInv, WakeupsAccounted, OwnerStrayed, Drift, Failures
      <4>5. PICK q \in Procs : pc[q] = "post"
        BY <4>4, FS_EmptySet DEF Posting
      <4>6. OnTheWay(q)'
        BY <2>7, <4>5 DEF WakeRead, OnTheWay
      <4> QED BY <4>6
    <3>3. CASE sem > 0
      BY <2>7, <3>3 DEF WakeRead
    <3> QED BY <3>1, <3>2, <3>3
  <2> QED BY <1>5, <2>2, <2>3, <2>4, <2>5, <2>6, <2>7 DEF Step
<1>6. ASSUME NEW p \in Procs, Failure(p) PROVE FALSE
  BY <1>6 DEF Failure, SemWaitFails, PostFails, Crash
<1> QED BY <1>3, <1>4, <1>5, <1>6 DEF Next

LEMMA WakeInvInit == Init => WakeInv
<1> SUFFICES ASSUME Init PROVE WakeupsAccounted /\ NoLostWakeup
  BY LockInvInit, WhereInit DEF WakeInv
<1>1. Registered = {} /\ Posting = {}
  BY DEF Init, Registered, Posting
<1>2. WakeupsAccounted
  BY <1>1, FS_EmptySet DEF Init, WakeupsAccounted, Drift, Failures
<1>3. NoLostWakeup
  BY DEF Init, NoLostWakeup, Sleeping
<1> QED BY <1>2, <1>3

LEMMA WakeInvStep == WakeInv /\ [Next]_vars => WakeInv'
BY LockInvStep, WhereStep, AccountStep, NoLostStep DEF WakeInv

(* Every death, every failing semaphore call and an owner that strayed put
   the books of ngx_shmtx_lock and ngx_shmtx_wakeup out by one at most.    *)
THEOREM WakeupsBalance == Spec => []WakeupsAccounted
<1>1. WakeInv => WakeupsAccounted
  BY DEF WakeInv
<1> QED BY <1>1, WakeInvInit, WakeInvStep, PTL DEF Spec

(* ngx_shmtx_lock and ngx_shmtx_wakeup never lose a wake-up while nothing
   fails: whoever sleeps beside a free mutex has somebody awake or a post
   to count on.                                                            *)
THEOREM WakeupsNeverLost == Spec => []NoLostWakeup
<1>1. WakeInv => NoLostWakeup
  BY DEF WakeInv
<1> QED BY <1>1, WakeInvInit, WakeInvStep, PTL DEF Spec

=============================================================================
