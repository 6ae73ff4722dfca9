\* Two clients, one descriptor, every fault.  A server that has exited and
\* whose clients are gone does nothing more.
SPECIFICATION FairSpec
CONSTANTS
  c1 = c1
  c2 = c2
  Clients <- MCClients
  MaxRequests <- MCMaxRequests
  MaxSockets = 1
  Faults = {"reset", "body", "signal", "null", "throw"}
INVARIANTS
  TypeOK
  OneOperation
  ResponsesInOrder
PROPERTIES
  EndsForCause
  RequestsAnswered
  ConnectionsAccepted
  SignalStops
  ImplementsSessions
CHECK_DEADLOCK FALSE
