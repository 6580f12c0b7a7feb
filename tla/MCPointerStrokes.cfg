SPECIFICATION Spec
CONSTANTS
  Width = 2
  Breath = {1, 3}
  None = None
  Blank = Blank
  red = red
  b1 = b1
  b2 = b2
  BlockAt <- MCBlockAt
  Ink <- MCInk
  Tools <- MCTools
  Mode <- MCMode
  IdleScrub = TRUE
  Apart = TRUE
INVARIANT AtRest
