\* One connection, a folder and a file in it, and a disk that may be full.
SPECIFICATION HistorySpec
CONSTANTS
  Conns = {c1}
  NoPath = NoPath
  d = d
  e = e
  f = f
  g = g
  Paths = {d, f}
  Above <- TwoLevels
  Files = {f}
  HasExt = {f}
  Long = 3
  WritesFail = TRUE
INVARIANT ErrorChangesNothing
