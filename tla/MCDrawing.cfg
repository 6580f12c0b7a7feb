SPECIFICATION DrawSpec
CONSTANTS
  Width = 3
  Height = 3
  Layers = 2
  g = g
  red = red
  blue = blue
  Graphic = {g}
  Color = {red, blue}
  Blank = Blank
  None = None
  Opened <- MCOpened
  Loop <- MCLoop
  Facing = {1}
  Hand <- MCHand
  MaxEdits = 3
  inkA = inkA
  inkB = inkB
  sprite = sprite
  matter = matter
  Space = Space
  NoValue = NoValue
  Eases = 1
  Glyph = {inkA, inkB}
  Flat = {0, 120, 200}
  Position <- MCPosition
  Palette <- MCPalette
  Stain <- MCStain
  Keyframes <- MCKeyframes
  Lead = 3
  Middle = 3
  MaxCells = 2
VIEW Drawing
INVARIANTS FloodsAreRegions 
PROPERTY StrokeEffect
CHECK_DEADLOCK FALSE
