SPECIFICATION FairSpec
CONSTANTS
  Outputs = {o1, o2}
  Sizes = {s1}
  Regions <- MCRegions
  Pictures <- MCTwo
  NoPicture <- MCNone
  Animated = FALSE
  World = {}
  MaxMatching = 3
  MaxOwed = 1
  None = None
PROPERTY CatchesUp
