SPECIFICATION Spec
CONSTANTS
  Outputs = {o1}
  Sizes = {s1, s2}
  Regions = {all}
  Pictures <- MCOne
  NoPicture <- MCNone
  Animated = TRUE
  World = {"battery", "resize", "late release", "failure"}
  MaxMatching = 2
  MaxOwed = 2
  None = None
INVARIANTS PendingIsOwed PoolIsBounded
PROPERTY BusyIsUntouched
SYMMETRY SizeSymmetry
VIEW ButScreen
