\* Two entries and one request lost on an established connection.
SPECIFICATION Spec
CONSTANTS
  Paths = {p1, p2}
  NoPath = NoPath
  Threads = {"main", "f", "f3"}
  MaxStamp = 5
  Endpoints = 1
  FaultKinds = {"midrequest"}
  MaxFaults = 1
  MaxTentativi = 3
  InitialSyncAlone = TRUE
INVARIANTS
  ChangesArrive
