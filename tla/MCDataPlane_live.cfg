CONSTANTS
  k1 = k1
  t1 = t1
  t2 = t2
  e1 = e1
  o1 = o1
  o2 = o2
  o3 = o3
  Conns <- OneConn
  Tickets <- OneTicket
  Endpoints <- OneEndpoint
  Opens <- OneOpen
  Routes = {"pgTicket", "pgEndpoint", "sshEndpoint"}
  PerTicket = 2
  PerTicketTotal = 2
  Global = 2
  TicketTtl = 1
  Keep = 0
  Faults = FALSE
  MaxTime = 0
  MaxVersion = 2
SPECIFICATION FairSpec
INVARIANTS AuthorityReached
PROPERTIES WithdrawnSessionsEnd
CHECK_DEADLOCK FALSE
