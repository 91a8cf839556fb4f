SPECIFICATION Spec
CONSTANTS
  None = None
  color = color
  cycle = cycle
  Options <- MCOptions
  Lines <- MCLines
  Files <- MCFiles
PROPERTIES ImplementsLock ScreenGetsLocked WaiterHears
CHECK_DEADLOCK FALSE
