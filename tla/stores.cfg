SPECIFICATION MCSpec
CONSTANTS
  m1 = m1
  m2 = m2
  m3 = m3
  Ids = {m1, m2, m3}
  Chats = {"group:1"}
  Ttl = 1
  MaxEntries = 2
  PerChatLimit = 2
  Retention = 1
  OtherProcess = TRUE
  DbMayFail = TRUE
  MaxTime = 2
  MaxStamp = 4
  Messages = {1, 2, 3, 4}
  StoreChats = {"group:1", "group:2"}
  ChatOf <- MCChatOf
  AuthorOf <- MCAuthorOf
  WritersOf <- MCWritersOf
  RowLimit = 3
  KeepFor = 1
  MaxClock = 2
  NoRow = NoRow
  NoChat = NoChat
INVARIANTS
  DedupInStep
  KeptUntilRecalled
  RowsAreMerged
PROPERTIES
  HistoryIsWhole
SYMMETRY IdSymmetry
CHECK_DEADLOCK FALSE
