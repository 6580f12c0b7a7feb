SPECIFICATION StoreSpec
CONSTANTS
  Layer = {l1}
  Cell = {c1}
  Color = {red}
  Empty = empty
  Depth = 1
  Painters = 1
  UserRoots = 1
  MaxActs = 3
  MaxDocs = 3
  MaxRev = 3
  MaxCrashes = 1
  MaxSessions = 1
INVARIANTS
  FoldFaithful
  Durable
  
CHECK_DEADLOCK FALSE
