\* Blocks of two frames, a card with room for four and one retry in five ticks.
SPECIFICATION FairSpec
CONSTANTS
  DeviceFrames = 4
  RetryTicks = 5
  MaxLag = 4
  None = None
  BlockFrames = 2
  SoundBlocks = 2
  Sounds <- MCSounds
INVARIANTS
  PacedInRealTime
PROPERTIES
  SoundFollows
  DeviceReopened
