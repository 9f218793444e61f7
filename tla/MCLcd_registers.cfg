\* All registers the game can write, no save states.
SPECIFICATION FairSpec
CONSTANTS
  VisibleLines = 3
  LastLine = 5
  OamTicks = 2
  DrawTicks = 3
  HBlankTicks = 3
  LineTicks = 4
  MaxTicks = 2
  LycValues = {0, 2}
  WyValues = {0, 1}
  HdmaLengths = {0, 1}
  StatValues <- MCStatValues
  Slots = {}
  NoState = NoState
INVARIANTS
  RenderInBounds
  WindowBehindLine
  HdmaOwed
PROPERTIES
  NoRowSkipped
  FrameIsComplete
  FramesFinish
