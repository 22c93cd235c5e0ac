------------------------------- MODULE Shmem --------------------------------
(***************************************************************************)
(* src/os/unix/ngx_shmem.c: a zone of shared memory is mapped and given    *)
(* back, in the build that maps anonymous memory (the one selected by      *)
(* objs/ngx_auto_config.h) and in the one that maps /dev/zero.  The code   *)
(* leaves the build for System V segments to be written.                   *)
(*                                                                         *)
(* Mappings are numbered by the call that made them; `failing' and         *)
(* `logged' hold the system calls of the current call that failed, and     *)
(* those of which the log says so.                                         *)
(***************************************************************************)
EXTENDS Integers

CONSTANTS
  Builds,    \* "anon" and "devzero"
  ShmSizes,  \* the values of shm->size
  MaxCalls   \* bound on calls of ngx_shm_alloc()

VARIABLES
  build,
  doing,    \* "nothing", or the system call that comes next
  calls,    \* calls of ngx_shm_alloc() so far
  size,     \* shm->size
  addr,     \* shm->addr: a mapping, MAP_FAILED, or NULL at first
  fd,       \* /dev/zero is open
  maps,     \* the mappings the process has
  kept,     \* those munmap() refused to remove
  result,   \* what ngx_shm_alloc() returned last, or "none"
  failing, logged

shmVars == <<build, doing, calls, size, addr, fd, maps, kept, result, failing, logged>>

NULL       == 0
MAP_FAILED == -1

ShmInit ==
  /\ build \in Builds
  /\ doing = "nothing" /\ calls = 0 /\ size = 0 /\ addr = NULL /\ fd = FALSE
  /\ maps = {} /\ kept = {} /\ result = "none" /\ failing = {} /\ logged = {}

\* A system call either succeeds or fails and is recorded.
Fails(call)    == failing' = failing \cup {call}
Reports(call)  == logged' = logged \cup {call}
Succeeds       == UNCHANGED <<failing, logged>>

-----------------------------------------------------------------------------
\* Nobody asks for a zone that he has.
Asks ==
  /\ doing = "nothing" /\ result # "ok"
  /\ calls < MaxCalls /\ calls' = calls + 1
  /\ size' \in ShmSizes

(* The condition `shm->addr = MAP_FAILED' overwrites the address and holds.  *)
AllocAnon ==
  /\ build = "anon" /\ Asks
  /\ \/ maps' = maps \cup {calls'} /\ failing' = {}
     \/ UNCHANGED maps /\ failing' = {"mmap"}
  /\ addr' = MAP_FAILED /\ result' = "error" /\ logged' = {"mmap"}
  /\ UNCHANGED <<build, doing, fd, kept>>

Open ==
  /\ build = "devzero" /\ Asks
  /\ \/ fd' = TRUE /\ doing' = "mmap" /\ failing' = {} /\ logged' = {}
        /\ result' = "none"
     \/ UNCHANGED fd /\ doing' = "nothing" /\ failing' = {"open"} /\ logged' = {"open"}
        /\ result' = "error"
  /\ UNCHANGED <<build, addr, maps, kept>>

Map_ReturnsOnError ==
  /\ doing = "mmap"
  /\ \/ addr' = calls /\ maps' = maps \cup {calls} /\ Succeeds
        /\ doing' = "close" /\ UNCHANGED result
     \/ addr' = MAP_FAILED /\ UNCHANGED maps /\ Fails("mmap") /\ Reports("mmap")
        /\ doing' = "nothing" /\ result' = "error"
  /\ UNCHANGED <<build, calls, size, fd, kept>>

(* A failing mmap() is reported, and the descriptor is closed all the same.  *)
Map ==
  /\ doing = "mmap" /\ doing' = "close"
  /\ \/ addr' = calls /\ maps' = maps \cup {calls} /\ Succeeds
     \/ addr' = MAP_FAILED /\ UNCHANGED maps /\ Fails("mmap") /\ Reports("mmap")
  /\ UNCHANGED <<build, calls, size, fd, kept, result>>

Close_AlwaysOk ==
  /\ doing = "close" /\ doing' = "nothing"
  /\ fd' = FALSE
  /\ Succeeds \/ (Fails("close") /\ Reports("close"))
  /\ result' = "ok"
  /\ UNCHANGED <<build, calls, size, addr, maps, kept>>

\* A close() that fails has let go of the descriptor, and fails nothing else.
Close ==
  /\ doing = "close" /\ doing' = "nothing"
  /\ fd' = FALSE
  /\ Succeeds \/ (Fails("close") /\ Reports("close"))
  /\ result' = IF addr = MAP_FAILED THEN "error" ELSE "ok"
  /\ UNCHANGED <<build, calls, size, addr, maps, kept>>

\* ngx_shm_free: the address stays in shm->addr.
ngx_shm_free ==
  /\ doing = "nothing" /\ result = "ok"
  /\ result' = "none"
  /\ \/ maps' = maps \ {addr} /\ failing' = {} /\ logged' = {} /\ UNCHANGED kept
     \/ kept' = kept \cup {addr} /\ failing' = {"munmap"} /\ logged' = {"munmap"}
        /\ UNCHANGED maps
  /\ UNCHANGED <<build, doing, calls, size, addr, fd>>

ShmNext == AllocAnon \/ Open \/ Map \/ Close \/ ngx_shm_free

-----------------------------------------------------------------------------
(* Between calls, whichever system call failed in them: ngx_shm_alloc() of
   the /dev/zero build succeeded exactly when its address is mapped, keeps no
   descriptor and no other mapping, and the log names the calls that failed
   and no others.                                                          *)
ZoneOrNothing ==
  build = "devzero" /\ doing = "nothing" =>
    /\ ~fd
    /\ maps = kept \cup (IF result = "ok" THEN {addr} ELSE {})
    /\ result = "ok" => addr \in 1..calls
    /\ logged = failing

(* ngx_shmem.c:11 "mmap(MAP_ANON|MAP_SHARED, %uz) failed": the log says so
   of an mmap() that failed.                                               *)
MmapFailureReal == "mmap" \in logged => "mmap" \in failing

=============================================================================
