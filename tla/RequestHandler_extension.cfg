\* One connection and a file whose name has no extension (Makefile).
SPECIFICATION Spec
CONSTANTS
  Conns = {c1}
  NoPath = NoPath
  d = d
  e = e
  f = f
  g = g
  Paths = {d, f}
  Above <- TwoLevels
  Files = {f}
  HasExt = {}
  Long = 3
  WritesFail = FALSE
INVARIANT RepliesTrue
