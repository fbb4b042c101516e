\* Every path of up to two characters, every body of up to three of those that
\* the marker is made of and some with the marker, in pieces of up to three
\* characters.
SPECIFICATION Spec
CONSTANTS
  Requests <- AllRequests
  Accounts <- BothUsers
  BufferSize = 3
  PathLength = 2
  BodyLength = 3
INVARIANTS
  TypeOK
  ReadsWhatWasSent
  PlainPathsArrive
  UploadsAndSignIns
  AccountsRecognized
PROPERTIES
  Answered
  RepliesUnderstood
\* A closed connection has nothing left to do.
CHECK_DEADLOCK FALSE
