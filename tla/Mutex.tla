------------------------------- MODULE Mutex -------------------------------
(***************************************************************************)
(* What a process-shared mutex promises, without saying how: at any time   *)
(* at most one process owns it, ownership is only ever taken from a free   *)
(* mutex, and it is given up by the owner itself or, once the owner has    *)
(* died, on its behalf.  A process that asked may also be turned away      *)
(* (the non-blocking form of the request).                                 *)
(***************************************************************************)

CONSTANTS
  Procs,   \* the processes that share the mutex
  Free     \* the owner of a mutex nobody owns: not one of Procs

VARIABLES
  owner,   \* the owning process, or Free
  stage    \* what each process is doing: "out", "want", "in", "gone"

vars == <<owner, stage>>

TypeOK ==
  /\ owner \in Procs \cup {Free}
  /\ stage \in [Procs -> {"out", "want", "in", "gone"}]

Init ==
  /\ owner = Free
  /\ stage = [p \in Procs |-> "out"]

Move(p, s) == stage' = [stage EXCEPT ![p] = s]

Request(p) ==
  /\ stage[p] = "out"
  /\ Move(p, "want")
  /\ UNCHANGED owner

\* A request is only refused while somebody owns the mutex.
TurnAway(p) ==
  /\ stage[p] = "want"
  /\ owner # Free
  /\ Move(p, "out")
  /\ UNCHANGED owner

Grant(p) ==
  /\ stage[p] = "want"
  /\ owner = Free
  /\ owner' = p
  /\ Move(p, "in")

Release(p) ==
  /\ stage[p] = "in"
  /\ owner = p
  /\ owner' = Free
  /\ Move(p, "out")

Die(p) ==
  /\ stage[p] # "gone"
  /\ Move(p, "gone")
  /\ UNCHANGED owner

\* The owner died: somebody else gives the mutex back for it.
Revoke(p) ==
  /\ stage[p] = "gone"
  /\ owner = p
  /\ owner' = Free
  /\ UNCHANGED stage

Next ==
  \E p \in Procs :
    \/ Request(p) \/ TurnAway(p) \/ Grant(p)
    \/ Release(p) \/ Die(p) \/ Revoke(p)

Spec == Init /\ [][Next]_vars

=============================================================================
