\* One entry and one outage of the server.
SPECIFICATION Spec
CONSTANTS
  Paths = {p1}
  NoPath = NoPath
  Threads = {"main", "f", "f3"}
  MaxStamp = 3
  Endpoints = 1
  FaultKinds = {"refuse"}
  MaxFaults = 1
  MaxTentativi = 3
  InitialSyncAlone = TRUE
PROPERTIES
  DeletionsKept
