------------------------------- MODULE Shmtx -------------------------------
(***************************************************************************)
(* The process-shared mutex of src/core/ngx_shmtx.c in its atomic-ops      *)
(* build with POSIX semaphores: a lock word taken by compare-and-set, an   *)
(* exponential spin, and a semaphore on which a process sleeps after it    *)
(* has counted itself in the wait word.                                    *)
(*                                                                         *)
(* One step is one access to a shared word.  All writes are locked         *)
(* instructions (full barriers), so plain reads see the latest value.      *)
(* The wait word is an unsigned long that the code reads as a signed one:  *)
(* an integer that may be negative here.                                   *)
(***************************************************************************)
EXTENDS Integers, FiniteSets

CONSTANTS
  Procs,       \* the worker processes
  Free,        \* the value 0 of the lock word
  MultiCpu,    \* whether ngx_ncpu > 1
  SpinPasses,  \* how many n = 1, 2, 4, ... are below mtx->spin
  TryOnly,     \* whether mtx->spin is (ngx_uint_t) -1: no semaphore, endless spin
  SemInit,     \* the outcomes of sem_init() considered: TRUE is success
  MaxCrashes,  \* bound on processes that die
  MaxFaults    \* bound on failing sem_wait() and sem_post() calls

ASSUME ShmtxAssumption ==
  /\ IsFiniteSet(Procs)
  /\ Free \notin Procs
  /\ MultiCpu \subseteq BOOLEAN
  /\ SpinPasses \in Nat
  /\ TryOnly \subseteq BOOLEAN
  /\ SemInit \subseteq BOOLEAN
  /\ MaxCrashes \in Nat
  /\ MaxFaults \in Nat

VARIABLES
  mtx,        \* "absent", "ready" or "destroyed"
  lock,       \* *mtx->lock: the pid of the owner, or Free
  wait,       \* *mtx->wait
  semaphore,  \* mtx->semaphore
  endless,    \* mtx->spin is (ngx_uint_t) -1
  multi,      \* ngx_ncpu > 1
  sem,        \* the value of mtx->sem
  pc,         \* where each process stands
  at,         \* which of the lock attempts it makes (see Sites)
  pass,       \* spin passes done in this round
  seen,       \* the local variable "wait" of ngx_shmtx_wakeup
  crashes,    \* processes dead so far
  faults      \* semaphore calls failed so far

procVars == <<pc, at, pass, seen>>
budgets  == <<crashes, faults>>
life     == <<mtx, semaphore, endless, multi>>
vars     == <<mtx, lock, wait, semaphore, endless, multi, sem, pc, at, pass, seen, crashes, faults>>

Points == {"idle", "test", "cas", "spin", "register", "deregister", "semwait",
           "yield", "cs", "wakeread", "wakecas", "post", "dead"}

(* "try": ngx_shmtx_trylock; "first", "spin", "wait": the three attempts of
   ngx_shmtx_lock.  "held" marks a sem_wait() entered as owner.            *)
Sites == {"none", "try", "first", "spin", "wait", "held"}

TypeOK ==
  /\ mtx \in {"absent", "ready", "destroyed"}
  /\ lock \in Procs \cup {Free}
  /\ wait \in Int
  /\ semaphore \in BOOLEAN
  /\ endless \in BOOLEAN
  /\ multi \in BOOLEAN
  /\ sem \in Nat
  /\ pc \in [Procs -> Points]
  /\ at \in [Procs -> Sites]
  /\ pass \in [Procs -> 0..SpinPasses]
  /\ seen \in [Procs -> Int]
  /\ crashes \in Nat
  /\ faults \in Nat

Init ==
  /\ mtx = "absent"
  /\ lock = Free
  /\ wait = 0
  /\ semaphore = FALSE
  /\ endless = FALSE
  /\ multi \in MultiCpu
  /\ sem = 0
  /\ pc = [p \in Procs |-> "idle"]
  /\ at = [p \in Procs |-> "none"]
  /\ pass = [p \in Procs |-> 0]
  /\ seen = [p \in Procs |-> 0]
  /\ crashes = 0
  /\ faults = 0

-----------------------------------------------------------------------------
(* Life of the mutex: made before the workers start, destroyed after the
   last of them has left it, as the note on sem_destroy() demands.         *)

Create ==
  /\ mtx = "absent"
  /\ mtx' = "ready"
  /\ endless' \in TryOnly
  /\ UNCHANGED multi
  /\ semaphore' \in IF endless' THEN {FALSE} ELSE SemInit
  /\ UNCHANGED <<lock, wait, sem, procVars, budgets>>

Destroy ==
  /\ mtx = "ready"
  /\ \A p \in Procs : pc[p] \in {"idle", "dead"}
  /\ mtx' = "destroyed"
  /\ UNCHANGED <<lock, wait, semaphore, endless, multi, sem, procVars, budgets>>

-----------------------------------------------------------------------------
Goto(p, point, site) ==
  /\ pc' = [pc EXCEPT ![p] = point]
  /\ at' = [at EXCEPT ![p] = site]

Trylock(p) ==
  /\ mtx = "ready"
  /\ pc[p] = "idle"
  /\ Goto(p, "test", "try")
  /\ UNCHANGED <<life, lock, wait, sem, pass, seen, budgets>>

Lock(p) ==
  /\ mtx = "ready"
  /\ pc[p] = "idle"
  /\ Goto(p, "test", "first")
  /\ UNCHANGED <<life, lock, wait, sem, pass, seen, budgets>>

Block_AlwaysSleeps(p) ==
  /\ Goto(p, "register", "none")
  /\ pass' = [pass EXCEPT ![p] = 0]

\* Out of spins: go to sleep on the semaphore, or yield if there is none.
Block(p) ==
  /\ Goto(p, IF semaphore THEN "register" ELSE "yield", "none")
  /\ pass' = [pass EXCEPT ![p] = 0]

\* What a process does when its attempt found the mutex taken.
Missed(p) ==
  \/ at[p] = "try"   /\ Goto(p, "idle", "none") /\ UNCHANGED pass
  \/ at[p] = "first" /\ multi /\ Goto(p, "spin", "none") /\ UNCHANGED pass
  \/ at[p] = "first" /\ ~multi /\ Block(p)
  \/ at[p] = "spin"  /\ Goto(p, "spin", "none") /\ UNCHANGED pass
  \/ at[p] = "wait"  /\ Goto(p, "semwait", "wait") /\ UNCHANGED pass

\* The "*mtx->lock == 0 &&" in front of every compare-and-set.
Test(p) ==
  /\ pc[p] = "test"
  /\ \/ lock = Free /\ Goto(p, "cas", at[p]) /\ UNCHANGED pass
     \/ lock # Free /\ Missed(p)
  /\ UNCHANGED <<life, lock, wait, sem, seen, budgets>>

\* The caller is told it owns the mutex, except on the way to sem_wait().
Acquired(p) ==
  /\ lock' = p
  /\ pass' = [pass EXCEPT ![p] = 0]
  /\ IF at[p] = "wait" THEN Goto(p, "deregister", "wait") ELSE Goto(p, "cs", "none")

Cas_Store(p) ==
  /\ pc[p] = "cas"
  /\ Acquired(p)
  /\ UNCHANGED <<life, wait, sem, seen, budgets>>

\* ngx_atomic_cmp_set(mtx->lock, 0, ngx_pid)
Cas(p) ==
  /\ pc[p] = "cas"
  /\ \/ lock = Free /\ Acquired(p)
     \/ lock # Free /\ Missed(p) /\ UNCHANGED lock
  /\ UNCHANGED <<life, wait, sem, seen, budgets>>

\* Head of the spin loop, and the pauses before the next attempt.  With
\* spin = -1 the doubling n wraps to 0, which is still below spin.
SpinPass(p) ==
  /\ pc[p] = "spin"
  /\ \/ /\ endless \/ pass[p] < SpinPasses
        /\ pass' = [pass EXCEPT ![p] = IF @ < SpinPasses THEN @ + 1 ELSE @]
        /\ Goto(p, "test", "spin")
     \/ /\ ~endless /\ pass[p] = SpinPasses
        /\ Block(p)
  /\ UNCHANGED <<life, lock, wait, sem, seen, budgets>>

Register_NoRecheck(p) ==
  /\ pc[p] = "register"
  /\ wait' = wait + 1
  /\ Goto(p, "semwait", "wait")
  /\ UNCHANGED <<life, lock, sem, pass, seen, budgets>>

\* ngx_atomic_fetch_add(mtx->wait, 1), then one more attempt.
Register(p) ==
  /\ pc[p] = "register"
  /\ wait' = wait + 1
  /\ Goto(p, "test", "wait")
  /\ UNCHANGED <<life, lock, sem, pass, seen, budgets>>

\* The attempt after registering succeeded: the count is taken back and,
\* there being no return, the owner goes on to sem_wait().
Deregister(p) ==
  /\ pc[p] = "deregister"
  /\ wait' = wait - 1
  /\ Goto(p, "semwait", "held")
  /\ UNCHANGED <<life, lock, sem, pass, seen, budgets>>

SemWait_Ungated(p) ==
  /\ pc[p] = "semwait"
  /\ sem' = sem - 1
  /\ Goto(p, "test", "first")
  /\ UNCHANGED <<life, lock, wait, pass, seen, budgets>>

\* sem_wait() returns 0 and the loop starts over.  An interrupted call is
\* repeated at once, which changes nothing.
SemWait(p) ==
  /\ pc[p] = "semwait"
  /\ sem > 0
  /\ sem' = sem - 1
  /\ Goto(p, "test", "first")
  /\ UNCHANGED <<life, lock, wait, pass, seen, budgets>>

\* sem_wait() fails for another reason: logged, and the loop starts over.
SemWaitFails(p) ==
  /\ pc[p] = "semwait"
  /\ faults < MaxFaults
  /\ faults' = faults + 1
  /\ Goto(p, "test", "first")
  /\ UNCHANGED <<life, lock, wait, sem, pass, seen, crashes>>

\* ngx_sched_yield(), then the loop starts over.
Yield(p) ==
  /\ pc[p] = "yield"
  /\ Goto(p, "test", "first")
  /\ UNCHANGED <<life, lock, wait, sem, pass, seen, budgets>>

-----------------------------------------------------------------------------
\* ngx_shmtx_wakeup returns at once when there is no semaphore.
Wakeup(p) == Goto(p, IF semaphore THEN "wakeread" ELSE "idle", "none")

Unlock_Unchecked(p) ==
  /\ mtx = "ready"
  /\ pc[p] \in {"cs", "idle"}
  /\ lock' = Free
  /\ Wakeup(p)
  /\ UNCHANGED <<life, wait, sem, pass, seen, budgets>>

\* The operands of the compare-and-set swapped: it never matches.
Unlock_Swapped(p) ==
  /\ mtx = "ready"
  /\ pc[p] \in {"cs", "idle"}
  /\ Goto(p, "idle", "none")
  /\ UNCHANGED <<life, lock, wait, sem, pass, seen, budgets>>

\* A process may also call unlock when it owns nothing: its compare-and-set
\* then fails and nothing is woken.
Unlock(p) ==
  /\ mtx = "ready"
  /\ pc[p] \in {"cs", "idle"}
  /\ \/ lock = p /\ lock' = Free /\ Wakeup(p)
     \/ lock # p /\ UNCHANGED lock /\ Goto(p, "idle", "none")
  /\ UNCHANGED <<life, wait, sem, pass, seen, budgets>>

\* A survivor gives back the mutex of a dead process q.
ForceUnlock(p, q) ==
  /\ mtx = "ready"
  /\ pc[p] = "idle"
  /\ pc[q] = "dead"
  /\ \/ lock = q /\ lock' = Free /\ Wakeup(p)
     \/ lock # q /\ UNCHANGED lock /\ Goto(p, "idle", "none")
  /\ UNCHANGED <<life, wait, sem, pass, seen, budgets>>

WakeRead_OffByOne(p) ==
  /\ pc[p] = "wakeread"
  /\ \/ wait <= 1 /\ Goto(p, "idle", "none") /\ UNCHANGED seen
     \/ wait > 1 /\ Goto(p, "wakecas", "none") /\ seen' = [seen EXCEPT ![p] = wait]
  /\ UNCHANGED <<life, lock, wait, sem, pass, budgets>>

\* wait = *mtx->wait; nobody to wake unless it is positive.
WakeRead(p) ==
  /\ pc[p] = "wakeread"
  /\ \/ wait <= 0 /\ Goto(p, "idle", "none") /\ UNCHANGED seen
     \/ wait > 0 /\ Goto(p, "wakecas", "none") /\ seen' = [seen EXCEPT ![p] = wait]
  /\ UNCHANGED <<life, lock, wait, sem, pass, budgets>>

WakeCas_Store(p) ==
  /\ pc[p] = "wakecas"
  /\ wait' = seen[p] - 1
  /\ Goto(p, "post", "none")
  /\ seen' = [seen EXCEPT ![p] = 0]
  /\ UNCHANGED <<life, lock, sem, pass, budgets>>

\* ngx_atomic_cmp_set(mtx->wait, wait, wait - 1), or read again.
WakeCas(p) ==
  /\ pc[p] = "wakecas"
  /\ \/ wait = seen[p] /\ wait' = wait - 1 /\ Goto(p, "post", "none")
     \/ wait # seen[p] /\ UNCHANGED wait /\ Goto(p, "wakeread", "none")
  /\ seen' = [seen EXCEPT ![p] = 0]
  /\ UNCHANGED <<life, lock, sem, pass, budgets>>

Post(p) ==
  /\ pc[p] = "post"
  /\ sem' = sem + 1
  /\ Goto(p, "idle", "none")
  /\ UNCHANGED <<life, lock, wait, pass, seen, budgets>>

\* sem_post() fails: logged, the wake-up is gone.
PostFails(p) ==
  /\ pc[p] = "post"
  /\ faults < MaxFaults
  /\ faults' = faults + 1
  /\ Goto(p, "idle", "none")
  /\ UNCHANGED <<life, lock, wait, sem, pass, seen, crashes>>

-----------------------------------------------------------------------------
\* A process dies wherever it stands; the shared words stay as they are.
Crash(p) ==
  /\ mtx = "ready"
  /\ pc[p] # "dead"
  /\ crashes < MaxCrashes
  /\ crashes' = crashes + 1
  /\ Goto(p, "dead", "none")
  /\ pass' = [pass EXCEPT ![p] = 0]
  /\ seen' = [seen EXCEPT ![p] = 0]
  /\ UNCHANGED <<life, lock, wait, sem, faults>>

\* The steps of the code itself, which a running process always takes.
Step(p) ==
  \/ Test(p) \/ Cas(p) \/ SpinPass(p)
  \/ Register(p) \/ Deregister(p) \/ SemWait(p) \/ Yield(p)
  \/ WakeRead(p) \/ WakeCas(p) \/ Post(p)

\* Calls made by the users of the mutex.
Call(p) == Trylock(p) \/ Lock(p) \/ Unlock(p) \/ \E q \in Procs : ForceUnlock(p, q)

Failure(p) == SemWaitFails(p) \/ PostFails(p) \/ Crash(p)

Next ==
  \/ Create \/ Destroy
  \/ \E p \in Procs : Step(p) \/ Call(p) \/ Failure(p)

Spec == Init /\ [][Next]_vars

(* The scheduler runs every process that can run, and whoever is inside
   leaves eventually.  Nothing forces a process to ask for the mutex.      *)
LeavesCs(p) == pc[p] = "cs" /\ Unlock(p)
Fairness == \A p \in Procs : WF_vars(Step(p)) /\ WF_vars(LeavesCs(p))
FairSpec == Spec /\ Fairness

-----------------------------------------------------------------------------
Inside(p)   == pc[p] = "cs"
Sleeping(p) == pc[p] = "semwait"

(* Two processes are never both told that they own the mutex, whatever the
   order of their test, compare-and-set and unlock steps, and whoever dies
   and has its lock taken back by ngx_shmtx_force_unlock.                  *)
MutualExclusion ==
  \A p, q \in Procs : Inside(p) /\ Inside(q) => p = q

(* ngx_shmtx_lock and ngx_shmtx_wakeup never lose a wake-up: with the mutex
   free and a process in sem_wait(), somebody is still on the way to post,
   a post is there to be taken, or a process awake in ngx_shmtx_lock will
   look at the lock word again.  A death or a failing semaphore call between
   the unlock and the post breaks this, so it is stated without them.      *)
OnTheWay(p) ==
  \/ pc[p] \in {"wakeread", "wakecas", "post", "spin", "register", "yield"}
  \/ pc[p] \in {"test", "cas"} /\ at[p] # "try"
NoLostWakeup ==
  crashes = 0 /\ faults = 0 /\ lock = Free /\ (\E p \in Procs : Sleeping(p))
    => sem > 0 \/ \E p \in Procs : OnTheWay(p)

(* The books of ngx_shmtx_lock and ngx_shmtx_wakeup balance: every process
   counted in the wait word, and not yet back from sem_wait(), has either
   its count still there, or a post being made, or a post made.  A worker
   that dies anywhere in between, or a semaphore call that fails, costs at
   most one wake-up or leaves at most one too many, and so does a living
   owner that went on to sem_wait() and took a post meant for another.     *)
Registered ==
  {p \in Procs : pc[p] \in {"test", "cas", "semwait", "deregister"} /\ at[p] = "wait"}
Posting == {p \in Procs : pc[p] = "post"}
Drift == wait + sem + Cardinality(Posting) - Cardinality(Registered)
Failures == crashes + faults
OwnerStrayed ==
  \E p \in Procs : lock = p /\ pc[p] \notin {"cs", "deregister", "dead"} /\ at[p] # "held"
WakeupsAccounted ==
  /\ Drift <= Failures
  /\ -Drift <= IF OwnerStrayed THEN Failures + 1 ELSE Failures

(* As a user sees it, this is a mutex: it is granted only when free, given
   back only by its owner or on behalf of a dead one, and trylock refuses
   only while somebody owns it.                                            *)
Stage(p) ==
  IF pc[p] = "dead" THEN "gone"
  ELSE IF lock = p THEN "in"
  ELSE IF at[p] # "none" \/ pc[p] \in {"spin", "register", "yield"} THEN "want"
  ELSE "out"
Stages == [p \in Procs |-> Stage(p)]
M == INSTANCE Mutex WITH owner <- lock, stage <- Stages
IsMutex == M!Spec

(* A mutex that is released while somebody sleeps on the semaphore is taken
   again: the wake-up reaches a process that then wins the lock word.      *)
RetakenAfterRelease ==
  (lock = Free /\ \E p \in Procs : Sleeping(p)) ~> (lock # Free)

(* Without a semaphore ngx_shmtx_lock spins and yields; as long as somebody
   is asking, somebody gets in, though not necessarily the same process.   *)
Asking(p) == pc[p] \in {"spin", "yield", "register"} \/ at[p] \in {"first", "spin"}
SomeoneGetsIn ==
  (~semaphore /\ \E p \in Procs : Asking(p)) ~> (\E p \in Procs : Inside(p))

(* A process sleeps on the semaphore only after its attempts to acquire the
   mutex have failed (ngx_shmtx.h: attempts "before blocking on the posix
   semaphore"), never as the owner of the mutex.                           *)
OwnerNeverSleeps ==
  \A p \in Procs : Sleeping(p) => lock # p

=============================================================================
