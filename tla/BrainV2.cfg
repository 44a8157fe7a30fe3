SPECIFICATION Spec
CONSTANTS
  Agenda <- ShortAgenda
  Messages <- FiveMessages
  Answers = {"good"}
  Models <- TwoModels
  ModelVerdicts = {"handoff"}
  ShadowModes = {TRUE, FALSE}
  Operators = {o1}
  MaxMessages = 2
  MaxVerdicts = 2
  MaxTroubles = 1
CHECK_DEADLOCK FALSE
INVARIANTS
  NothingUncleared
  PendingIsNewest
  HardStops
PROPERTIES
  QuestionKept
