SPECIFICATION Spec
CONSTANTS
  Client = {c1, c2}
  Host = host
  Name = {n1, n2}
  Cursor = {p1}
  NoCursor = noCursor
  ActionId = {a1, a2}
  MaxStream = 4
  MaxSeed = 1
  MaxDocs = 1
SYMMETRY Symmetry
INVARIANTS
  StreamsWhole
  EveryoneTold
PROPERTIES
  NothingRewritten
  ImplementsLog
CHECK_DEADLOCK FALSE
