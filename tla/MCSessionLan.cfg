SPECIFICATION LanSpec
CONSTANTS
  u1 = u1
  x1 = x1
  Client = {u1}
  Host = host
  Name = {n1}
  Cursor = {}
  NoCursor = noCursor
  ActionId = {1, 2}
  MaxStream = 0
  MaxSeed = 1
  MaxDocs = 1
  App = {x1}
  UserOf <- OneUser
  Conn = {k1, k2}
  None = none
  SeedAuthor = {host}
  Prompt = TRUE
  MaxFaults = 1
  MaxLeaves = 1
SYMMETRY Slots
INVARIANTS
  MemberIsWired
  
CHECK_DEADLOCK FALSE
