\* Two entries, two writes and any number of removals, no faults; the user waits
\* for the initial synchronization.  Every initial state of the server.
SPECIFICATION FairSpec
CONSTANTS
  Paths = {p1, p2}
  NoPath = NoPath
  Threads = {"main", "f", "f3"}
  MaxStamp = 5
  Endpoints = 1
  FaultKinds = {}
  MaxFaults = 0
  MaxTentativi = 3
  InitialSyncAlone = TRUE
INVARIANTS
  InSyncAtRest
PROPERTIES
  Refinement
  EventuallyMirrored
