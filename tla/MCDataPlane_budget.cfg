CONSTANTS
  k1 = k1
  t1 = t1
  t2 = t2
  e1 = e1
  o1 = o1
  o2 = o2
  o3 = o3
  Conns <- OneConn
  Tickets <- OneTicket
  Endpoints = {}
  Opens <- ThreeOpens
  Routes = {"pgTicket", "sshTicket"}
  PerTicket = 2
  PerTicketTotal = 2
  Global = 2
  TicketTtl = 0
  Keep = 0
  Faults = TRUE
  MaxTime = 1
  MaxVersion = 1
SPECIFICATION Spec
INVARIANTS TicketBudget
SYMMETRY Symm
VIEW SafetyView
CHECK_DEADLOCK FALSE
