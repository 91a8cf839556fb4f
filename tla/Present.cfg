SPECIFICATION Spec
CONSTANTS
  Outputs = {o1, o2}
  Sizes = {s1, s2}
  Regions <- MCRegions
  Pictures <- MCTwo
  NoPicture <- MCNone
  Animated = TRUE
  World = {}
  MaxMatching = 3
  MaxOwed = 2
  None = None
INVARIANTS TypeOK EveryOutputLocked Paced NothingIsMissed
