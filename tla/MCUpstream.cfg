CONSTANTS
  TokKinds = {"mcp", "byo"}
  TokTasks = {"sw", "a"}
  TokSweeper = "sw"
  TokSess = {"s1", "s2"}
  TokMaxUse = 2
  TokMaxFaults = 1
  TokFaults = {"net", "lost", "garbage", "revoke", "write", "cancel"}
  ElToks = {"k1", "k2"}
  ElMaxPermits = 1
  ElMaxPending = 1
  ElSwitches = 1
  McConns = {"c1"}
  McSess = {s1, s2}
  McReqs = {"r1"}
  McLimit = 1
  McMaxGen = 1
  McKinds = {"tools", "status", "call", "res"}
  McModes = {"off", "open"}
  McFaults = {"list", "discover"}
  CaCalls = {k1, k2}
  CaIds = {"i1"}
  CaRounds = 2
  CaPrompts = 1
  CaFaults = {"drop", "dup", "init"}
SPECIFICATION UpSpec
INVARIANTS TokensSound ElicitationsSound McpCatalogSound McpCallsSound
PROPERTIES ElKeepsPromise
SYMMETRY UpSymm
CHECK_DEADLOCK FALSE
