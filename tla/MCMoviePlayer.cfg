\* Three frames through a queue of two.
SPECIFICATION FairSpec
CONSTANTS
  LastFrame = 3
  QueueFrames = 2
  DropLate = 1
INVARIANTS
  NoThreadOutlivesPlay
PROPERTIES
  ImplementsScreening
  PlayReturns
\* The system may stop: finish can lose its wakeup (MCMoviePlayer_close.cfg).
CHECK_DEADLOCK FALSE
