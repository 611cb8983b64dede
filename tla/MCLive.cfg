CONSTANTS
  TokKinds = {"mcp", "byo"}
  TokTasks = {"sw", "a"}
  TokSweeper = "sw"
  TokSess = {"s1"}
  TokMaxUse = 2
  TokMaxFaults = 1
  TokFaults = {"net", "lost", "garbage", "revoke", "write", "cancel"}
  ElToks = {"k1"}
  ElMaxPermits = 1
  ElMaxPending = 1
  ElSwitches = 1
  CaCalls = {"k1"}
  CaIds = {"i1"}
  CaRounds = 2
  CaPrompts = 1
  CaFaults = {"drop", "dup", "close", "init"}
  HcRedirects = 2
  HcQueue = 1
  HcMaxTok = 3
  HcChunks = 2
SPECIFICATION LiveSpec
PROPERTIES TokensEnd ElAllEnd CaEnds 
CHECK_DEADLOCK FALSE
