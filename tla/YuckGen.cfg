CONSTANTS
  NULL = "NULL"
  Def = "def"
  Temp <- MCTemp
  UserFiles = {"a", "b", "i", "j"}
  Calls <- MCCalls
  Text <- MCText
  PipeSize = 2
  ReadSize = 2
SPECIFICATION FairSpec
INVARIANTS ExitTells NoLitter
PROPERTIES Ends
CHECK_DEADLOCK FALSE
