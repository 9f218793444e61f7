\* A game is left while its CPU is halted, and another one is launched.
SPECIFICATION FairSpec
CONSTANTS
  Slots = {}
  Sources = {"vblank", "other"}
  Chunk = 4096
  MaxSaves = 0
  NoFile = NoFile
PROPERTIES
  LaunchedGameStarts
