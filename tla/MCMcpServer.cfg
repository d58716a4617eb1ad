CONSTANTS
  Connections = {c1, c2}
  Sessions = {"s1"}
  Requests <- MCRequests
  MaxRequests = 3
  MaxStops = 1
SPECIFICATION FairSpec
INVARIANTS
  GuardsMatchCalls
PROPERTIES
  RunsOnceInOrder
  RequestsAnswered
CHECK_DEADLOCK FALSE
