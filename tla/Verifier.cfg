SPECIFICATION Spec
CONSTANTS
  MaxHelper = 2
  MaxAttempt = 3
INVARIANTS
  AnswersAreVerdicts
  RequestsStayFramed
  NoStrayHelper
PROPERTIES
  ForkIsSingleThreaded
  EveryAttemptAnswered
  ShutdownTerminates
  HelpersFollow
  ImplementsService
CHECK_DEADLOCK FALSE
