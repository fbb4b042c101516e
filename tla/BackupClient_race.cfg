\* One entry, no faults, and a user who does not wait for the initial
\* synchronization.
SPECIFICATION Spec
CONSTANTS
  Paths = {p1}
  NoPath = NoPath
  Threads = {"main", "f", "f3"}
  MaxStamp = 4
  Endpoints = 1
  FaultKinds = {}
  MaxFaults = 0
  MaxTentativi = 3
  InitialSyncAlone = FALSE
INVARIANTS
  NothingInvented
