CONSTANTS
  a1 = a1
  a2 = a2
  c1 = c1
  c2 = c2
  c3 = c3
  k1 = k1
  k2 = k2
  Conns <- OneConn
  Agents <- OneAgent
  Calls <- TwoCalls
  Units = {"Traffic"}
  Timeout = 1
  Grace = 0
  Window = 2
  Cooldown = 1
  MaxPending = 2
  MaxWaiters = 1
  Harness = FALSE
  MaxTime = 2
  MaxSkew = 1
  MaxTodo = 0
SPECIFICATION Spec
PROPERTIES LateAnswerOpensNoWindow WindowNeverOutlived
SYMMETRY Symm
VIEW SafetyView
