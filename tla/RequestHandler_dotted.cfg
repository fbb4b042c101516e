\* One connection, a folder whose name has an extension (d.x) and a file in it.
SPECIFICATION Spec
CONSTANTS
  Conns = {c1}
  NoPath = NoPath
  d = d
  e = e
  f = f
  g = g
  Paths = {d, f}
  Above <- TwoLevels
  Files = {f}
  HasExt = {d, f}
  Long = 3
  WritesFail = FALSE
PROPERTY EveryRequestAnswered
