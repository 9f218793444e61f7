\* Save states: two slots, saved and loaded across frames, launches and restarts.
SPECIFICATION Spec
CONSTANTS
  VisibleLines = 2
  LastLine = 3
  OamTicks = 2
  DrawTicks = 2
  HBlankTicks = 3
  LineTicks = 3
  MaxTicks = 2
  LycValues = {}
  WyValues = {1}
  HdmaLengths = {1}
  StatValues <- MCNoStat
  Slots = {0}
  NoState = NoState
INVARIANTS
  BoundaryAtVBlank
  AccumInMode
