SPECIFICATION Spec
CONSTANTS
  None = None
  Capacity = 5
  Keys <- MCKeys
  Typing <- MCTyping
  Original <- MCOriginal
  Calls <- MCCalls
  MaxMessage = 5
INVARIANTS NothingBehind LineIsSent TerminalRestored RepliesAreWhole
  HandedOnce FreedIsWiped
PROPERTY ImplementsText
CHECK_DEADLOCK FALSE
