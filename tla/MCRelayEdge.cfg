SPECIFICATION EdgeSpec
CONSTANTS
  a1 = a1
  Conn = {h1, x1, j1}
  Hosts = {h1, x1, j1}
  Joiners = {x1, j1}
  User = {u1}
  RoomId = {r1, r2}
  Codes = {"right", "garbled"}
  Address = {a1}
  AddressOf <- OneAddress
  All = all
  Blank = blank
  None = none
  MaxRooms = 2
  MaxMembers = 1
  ClaimsPerWindow = 2
  JoinWindow = 1
  MaxFrame = 3
  Wrapping = 1
  Sizes = {2}
  Fresh = TRUE
  MaxLines = 1
  MaxClock = 1
  Prefix = 2
  MaxChunk = 3
  Window = 5
  MayBreak = TRUE
  DialTimeout = 3
  HandshakeTimeout = 5
  MaxAddresses = 3
CHECK_DEADLOCK FALSE
INVARIANTS RateHeld Tenancy Heard FramesWhole DialHolds
 
