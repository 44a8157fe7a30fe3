SPECIFICATION Spec
CONSTANTS
  Workers = {w1, w2}
  Debounce = 1
  BatchLimit = 2
  SameSecond = FALSE
  MaxMessages = 3
  MaxTime = 3
  MaxRollbacks = 1
PROPERTIES
  FinishedForGood
