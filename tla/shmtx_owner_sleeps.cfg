CONSTANTS
  Procs = {p1, p2}
  Free = free
  MultiCpu <- ManyCpus
  SpinPasses = 1
  TryOnly <- SpinFinite
  SemInit <- SemWorks
  MaxCrashes = 0
  MaxFaults = 0
SPECIFICATION Spec
CHECK_DEADLOCK FALSE
INVARIANT OwnerNeverSleeps
