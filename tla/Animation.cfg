SPECIFICATION FairSpec
CONSTANTS
  None = None
  fast = fast
  still = still
  smooth = smooth
  Mode <- MCMode
  FirstDelay <- MCFirst
  Delays <- MCDelays
  Incremental = {still}
  Interpolating = {smooth}
  Refresh = 2
  CatchUp = 3
  Floors = {0, 3}
  Lists <- MCLists
  Cycle = 5
INVARIANTS FrameIdTellsFrames NeverBlank NoBacklog
PROPERTIES ImplementsRotation EveryModeAirs
CHECK_DEADLOCK FALSE
