CONSTANTS
  a1 = a1
  a2 = a2
  c1 = c1
  c2 = c2
  c3 = c3
  k1 = k1
  k2 = k2
  Conns <- OneConn
  Agents <- TwoAgents
  Calls <- TwoCalls
  Units = {"Traffic", "HostKey"}
  Timeout = 1
  Grace = 0
  Window = 1
  Cooldown = 1
  MaxPending = 2
  MaxWaiters = 2
  Harness = TRUE
  MaxTime = 1
  MaxSkew = 0
  MaxTodo = 2
SPECIFICATION Spec
INVARIANTS RegistryConsistent AllowedOnlyByAnswer ToldAsRecorded
SYMMETRY Symm
VIEW SafetyView
