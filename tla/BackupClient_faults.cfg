\* One entry, one write and one fault of any kind; two endpoints, so that the
\* retries of handle_connect happen too.
SPECIFICATION FairSpec
CONSTANTS
  Paths = {p1}
  NoPath = NoPath
  Threads = {"main", "f", "f3"}
  MaxStamp = 4
  Endpoints = 2
  FaultKinds = {"refuse", "midrequest", "resolve", "accept", "exit", "credentials"}
  MaxFaults = 1
  MaxTentativi = 3
  InitialSyncAlone = TRUE
INVARIANTS
  TypeOK
  EditsAfterRecovery
  RestartRepairs
  RejectedStaysOut
PROPERTIES
  CheckSyncRepairs
  MainKeepsPolling
  Reconnects
