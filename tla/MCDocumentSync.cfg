SPECIFICATION SyncSpec
CONSTANTS
  s1 = s1
  s2 = s2
  own = own
  shared = shared
  Session = {s1, s2}
  Layer = {own, shared}
  Works <- SharedWorks
  Turns = {shared}
  Midway = FALSE
  Cell = {c1, c2}
  Color = {red}
  Empty = empty
  Depth = 20
  MaxActs = 4
SYMMETRY Symmetry
INVARIANTS
  Converge
  CanvasIsStack

  
CHECK_DEADLOCK FALSE
