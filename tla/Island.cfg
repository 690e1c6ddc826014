SPECIFICATION Spec
CONSTANTS
  n1 = n1
  n2 = n2
  s1 = s1
  c1 = c1
  c2 = c2
  Node <- TwoNodes
  SessionId <- OneSession
  Client <- TwoClients
  Parts <- TwoNodes
  Related <- TwoNodes
  Roots <- OneNode
  Ops <- EveryOp
  MaxRequests = 4
  MaxOutages = 1
INVARIANTS  WiredBeforeTriggered 
PROPERTIES RequestsEnd 
CHECK_DEADLOCK FALSE
