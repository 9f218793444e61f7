\* Every path through the menus, with a pause screen that slides for two frames.
SPECIFICATION FairSpec
CONSTANTS
  Titles = {0, 1}
  Pads <- MCPads
  AnimFrames = 2
  SlideFrames = 2
  NoCart = NoCart
INVARIANTS
  CartMatchesState
  CallsUseSlots
  KeysFollowPad
PROPERTIES
  MenuAwakens
  LaunchArrives
  ClosingEnds
