SPECIFICATION Spec
CONSTANTS
  Volunteered = {"interview_interest"}
  Denied = {}
  MaxFacts = 2
  Failures = {"turn", "send"}
INVARIANTS
  MaterialsQueued
  OnlyCurrentQuestions
PROPERTIES
  AgeGate
  NoQuestionSkipped
  TerminalAbsorbing
