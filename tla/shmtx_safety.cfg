CONSTANTS
  Procs = {p1, p2, p3}
  Free = free
  MultiCpu <- AnyCpus
  SpinPasses = 1
  TryOnly <- SpinEither
  SemInit <- SemEither
  MaxCrashes = 2
  MaxFaults = 1
SPECIFICATION Spec
CHECK_DEADLOCK FALSE
SYMMETRY Symmetry
INVARIANTS TypeOK MutualExclusion NoLostWakeup WakeupsAccounted
PROPERTY IsMutex
