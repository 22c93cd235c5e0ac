CONSTANTS
  Procs = {p1, p2, p3}
  Free = free
  MultiCpu <- AnyCpus
  SpinPasses = 1
  TryOnly <- SpinEither
  SemInit <- SemEither
  MaxCrashes = 0
  MaxFaults = 0
SPECIFICATION FairSpec
CHECK_DEADLOCK FALSE
PROPERTIES RetakenAfterRelease SomeoneGetsIn
