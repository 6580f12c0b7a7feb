SPECIFICATION PanelSpec
CONSTANTS
  Layer = {1, 2}
  Color = {red}
  Empty = Empty
  NoValue = NoValue
  None = None
  Bars = {"raster"}
  Eases = 2
  Span = 2
  View = 4
  MaxInputs = 3
  Opened <- MCOpened
  Others <- MCOthers
  MaxEdits = 4
  MaxOffset = 1
  MaxStructures = 3
  MaxSnaps = 1
  MoveBreaths = {2}
INVARIANTS StaysWhole ShownIsHit TracksPlay Replays
PROPERTIES DropKeepsPreview PlaysThrough
CHECK_DEADLOCK FALSE
