SPECIFICATION Spec
CONSTANTS
  None = None
  MaxAttempt = 2
  MaxTyped = 2
  MaxOwed = 1
  VerifyEnvelope = 2
  CompleteFade = 1
  KeystrokeSettle = 1
  Frame = 1
  MessageTtl = 3
  IdleHide = 2
  FailClear = 1
  IdleClear = 2
  RepeatDelay = 1
  RepeatInterval = 1
INVARIANTS UnlockedByVerdict PasswordIsTransient KeystrokesMatch
  ClearMeetsItsFailure
PROPERTY AuthSteps
CHECK_DEADLOCK FALSE
