SPECIFICATION Spec
CONSTANTS
  n1 = n1
  n2 = n2
  s1 = s1
  s2 = s2
  a1 = a1
  d1 = d1
  Node <- TwoNodes
  SessionId <- TwoSessions
  Drop <- Ping
  Data <- PingData
  Home <- PingHome
  Rel <- PingRel
  LoadFaults <- FirstFails
  FaultyNodes <- Second
  MaxFaults = 1
INVARIANTS WiredUp InOrder
PROPERTIES DeploymentsEnd Completes
CHECK_DEADLOCK FALSE
