SPECIFICATION Spec
CONSTANTS
  Leads = {l1}
  Requests = {r1, r2}
  RequiredFacts <- TwoFacts
  MinInbound = 2
  Campaigns <- SeededCampaigns
  Texts <- SomeTexts
  LlmDecisions <- SomeDecisions
  MaxInbound = 3
CHECK_DEADLOCK FALSE
INVARIANTS
  AcceptedOnce
  StepsInOrder
  WaitsForItsMessage
PROPERTIES
  HandsOverOnce
  EndedStaysEnded
  NoRunHangs
