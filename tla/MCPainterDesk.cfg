SPECIFICATION DeskSpec
CONSTANTS
  Colors = {c1, c2}
  First = c1
  Tools = {"brush", "text", "picker", "lasso", "move"}
  Equip = {"text"}
  MaxWeight = 1
  None = none
  MaxPalette = 3
  MaxPresets = 3
  MaxInputs = 4
  MaxBoots = 1
  Heights = {2, 7}
  MaxPresses = 4
INVARIANTS
  TypingEndsWell
  PreviewCommits
PROPERTIES
  
  DirtyIsSaved
  PanelsServe
CHECK_DEADLOCK FALSE
