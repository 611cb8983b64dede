CONSTANTS
  HeReqs = {r1, r2}
  HeKinds = {"plain", "mcp", "leg"}
  HeUploads = 1
  HeAllUploads = 1
  HeMaxSess = 1
  HeMaxVer = 2
  HeMaxChanges = 2
  AgCalls = {k1, k2}
  AgMaxVer = 2
  AgMaxChanges = 2
  LmKeys = {"a", "b"}
  LmMax = 2
  LmWindow = 2
  LmMaxKeys = 1
  LmCallers = {"x", "y"}
  LmMaxTime = 4
  HlCalls = {h1, h2}
  HlNeed = 2
  HlMaxVer = 2
  HlFaults = {"write", "restart", "tamper"}
  RdBytes = {"a", "b", "c"}
  RdInjections <- Injections
  RdMaxLen = 5
  HcRedirects = 2
  HcQueue = 1
  HcMaxTok = 3
  HcChunks = 2
  OpCallers = {o1, o2}
  OpMaxProc = 2
  OpMaxTok = 2
  OpMaxSeq = 2
  OpFaults = {"time", "drop", "expire", "die"}
  OpMaxFaults = 1
SPECIFICATION ServeSpec
INVARIANTS HttpEndpointSound HttpCallSound LimitsSound AgentCallsSound HealthSound RedactionSound OnePasswordSound
VIEW ServeView
SYMMETRY ServeSymm
CHECK_DEADLOCK FALSE
