\* A ring of eight units, buffers of three, reads of two units at a time.
SPECIFICATION FairSpec
CONSTANTS
  bufA = bufA
  bufB = bufB
  Buffers <- MCBuffers
  Tags <- MCTags
  RingFrames = 8
  BufferFrames = 3
  PumpSamples = {4}
INVARIANTS
  TypeOK
  BuffersConserved
  WaitingIsWokenUp
  NoStaleAfterClear
  QuietOutsideGame
PROPERTIES
  StopReturns
