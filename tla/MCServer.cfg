\* A folder d with a folder d/g and a folder d/e, which has a file d/e/f.x, and
\* two connections: the requests overlap on the same entry, on a folder and an
\* entry below it, on two entries that share a folder, and not at all.  Three
\* levels make create_directories and remove_all take several steps.
SPECIFICATION FairServerSpec
CONSTANTS
  Conns = {c1, c2}
  NoPath = NoPath
  d = d
  e = e
  f = f
  g = g
  Paths = {d, e, f, g}
  Above <- Fork
  Files = {f}
  HasExt = {f}
  Long = 3
  WritesFail = TRUE
INVARIANTS
  TypeOK
  ServerTypeOK
  RepliesTrue
  UploadsKept
PROPERTIES
  DiesOnlyOnOverlap
  SignalEndsServer
