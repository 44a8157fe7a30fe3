SPECIFICATION Spec
CONSTANTS
  j1 = j1
  j2 = j2
  w1 = w1
  w2 = w2
  a1 = a1
  d1 = d1
  Jobs = {j1, j2}
  Workers = {w1, w2}
  Accounts = {a1}
  Dialogs = {d1}
  AccountOf <- MCAccountOf
  DialogOf <- MCDialogOf
  AllowedJobs = {j1, j2}
  CancelOnInbound = TRUE
  BatchLimit = 2
  MaxAttempts = 2
  MaxRollbacks = 1
  None = None
SYMMETRY WorkerSymmetry
INVARIANTS
  SentWasDelivered
PROPERTIES
  FinalIsFinal
  NoStaleSend
  PacingRespected
  KeepsDeliveryContract
