SPECIFICATION Spec
CONSTANTS
  Messages <- MCMessages
  ModelReadings <- MCModelReadings
  ModelReplies <- MCModelReplies
  Setups <- MCSetups
  MaxRetries = 1
CHECK_DEADLOCK FALSE
INVARIANTS
  HardStopsHeld
  QuestionFirst
  Foreseen
