SPECIFICATION Spec
CONSTANTS
  a1 = a1
  a2 = a2
  person = person
  channel = channel
  Pollers = {w1, w2}
  AllAccounts = {w1}
  Accounts = {a1, a2}
  DefaultAccount = a1
  Peers = {person, channel}
  People = {person}
  HistoryLimit = 2
  Chats <- ThreeChats
  MaxMessages <- FewMessages
  Backlog <- OneStored
  MaxTroubles = 1
CHECK_DEADLOCK FALSE
INVARIANTS
  StoredWithEvent
  NoGap
PROPERTIES
  EventuallyStored
