\* Two entries and three writes beyond the initial content: a write can land
\* before the visit, between visit and read, between read and report, and
\* after, on the entry in hand and on another.  No symmetry: it is not sound
\* for the liveness property.
SPECIFICATION FairSpec
CONSTANTS
  Paths = {p1, p2}
  NoPath = NoPath
  MaxStamp = 6
INVARIANTS
  TypeOK
  NoMissedChange
  IInv
PROPERTIES
  EventuallyMirrored
