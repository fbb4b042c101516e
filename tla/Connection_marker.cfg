\* Bodies of up to four characters, one of which is the marker.
SPECIFICATION Spec
CONSTANTS
  Requests <- AllRequests
  Accounts <- BothUsers
  BufferSize = 3
  PathLength = 0
  BodyLength = 4
INVARIANT ContentArrives
CHECK_DEADLOCK FALSE
