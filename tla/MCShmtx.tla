------------------------------ MODULE MCShmtx ------------------------------
(***************************************************************************)
(* Small instances of Shmtx.  Processes are model values.                  *)
(***************************************************************************)
EXTENDS Shmtx, TLC

\* The outcomes of sem_init(), and the values of spin, a run considers.
SemWorks   == {TRUE}
SemEither  == BOOLEAN
SpinEither == BOOLEAN
SpinFinite == {FALSE}
AnyCpus    == BOOLEAN
ManyCpus   == {TRUE}

\* Which process is which does not matter to a safety property.
Symmetry == Permutations(Procs)

=============================================================================
