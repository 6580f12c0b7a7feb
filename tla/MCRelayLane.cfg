SPECIFICATION RelaySpec
CONSTANTS
  Client = {u1}
  Host = host
  Name = {n1}
  Cursor = {}
  NoCursor = noCursor
  ActionId = {1, 2}
  MaxStream = 0
  MaxSeed = 0
  MaxDocs = 1
  None = none
  Conn = {k1, k2}
  MaxMembers = 2
  Prompt = TRUE
  HalfOpen = TRUE
  MaxFaults = 2
SYMMETRY Slots
INVARIANTS
  MembersAgree
  RelayConverged
CHECK_DEADLOCK FALSE
