SPECIFICATION FairSpec
CONSTANTS
  None = None
  MaxAttempt = 1
  MaxTyped = 1
  MaxOwed = 1
  VerifyEnvelope = 2
  CompleteFade = 1
  KeystrokeSettle = 1
  Frame = 1
  MessageTtl = 4
  IdleHide = 2
  FailClear = 1
  IdleClear = 3
  RepeatDelay = 1
  RepeatInterval = 0
PROPERTY SignalEnds
CHECK_DEADLOCK FALSE
