SPECIFICATION Spec
CONSTANTS
  n1 = n1
  n2 = n2
  Node <- TwoNodes
  MaxAsks = 1
INVARIANTS OneChain StatesWait
PROPERTY EndsDrawn
CHECK_DEADLOCK FALSE
