SPECIFICATION Spec
CONSTANTS
  e1 = e1
  e2 = e2
  h1 = h1
  h2 = h2
  autopilot = autopilot
  script = script
  v1 = v1
  v2 = v2
  f1 = f1
  Events = {e1, e2}
  Malformed = {e2}
  Handlers = {h1, h2}
  MaxLost = 2
  NoEvent = NoEvent
  Size = 2
  Autopilot = autopilot
  Configured = {1}
  Scripts = {script}
  MaxFloods = 2
  MaxChanges = 1
  Voices = {v1, v2}
  FileIds = {f1}
  StableFileId <- MCStableFileId
  Parts = 2
  MaxVoiceAttempts = 2
  NoVoice = NoVoice
  Faq = {1, 2, 3}
  Objections = {4}
  Cards = {5, 6, 7}
  TopicOf <- MCTopicOf
  Topics <- MCTopics
  Canonical <- MCCanonical
  Aliases <- MCAliases
  Stages = {"early", "late"}
  StageOf <- MCStageOf
  AnyStage = "any"
  Internal = {5}
  Mentor = {6}
  Points = {0, 90}
  ItemLimit = 2
  TopK = 2
  ContextSize = 3
  MaxTexts = 2
CHECK_DEADLOCK FALSE
INVARIANTS
  StoredOnceWithItsTask
  HeldBackForAWait
  WholeVoice
  AskedIsAnswered
  
PROPERTIES
  WebhooksAnswered
  AccountsComeBack
