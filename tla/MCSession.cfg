\* Two saves into one slot, VBlank and one other interrupt.
SPECIFICATION FairSpec
CONSTANTS
  Slots = {0}
  Sources = {"vblank", "other"}
  Chunk = 4096
  MaxSaves = 2
  NoFile = NoFile
INVARIANTS
  HeadIsOneMoment
PROPERTIES
  GameGoesOn
