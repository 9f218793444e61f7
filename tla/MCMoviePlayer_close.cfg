\* The window is closed while the movie plays.
SPECIFICATION FairSpec
CONSTANTS
  LastFrame = 3
  QueueFrames = 2
  DropLate = 1
PROPERTIES
  CloseStopsPlayback
\* The system may stop: finish can lose its wakeup (MCMoviePlayer_close.cfg).
CHECK_DEADLOCK FALSE
