\* Two openings of the credits in a window of two sizes.
SPECIFICATION FairSpec
CONSTANTS
  MaxShows = 2
  Sizes = {small, large}
  FirstSize = small
INVARIANTS
  NoBrowserLeft
PROPERTIES
  ImplementsApplet
  ShowEnds
  CloseEndsApp
  PageFollowsWindow
