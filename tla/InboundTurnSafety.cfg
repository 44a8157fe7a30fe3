SPECIFICATION FairSpec
CONSTANTS
  Workers = {w1}
  Debounce = 1
  BatchLimit = 3
  SameSecond = FALSE
  MaxMessages = 3
  MaxTime = 3
  MaxRollbacks = 1
INVARIANTS
  Heard
  QueuedAnswersAreCurrent
  TurnsMoveForward
PROPERTIES
  EveryEventEnds
