\* A decision is final.
SPECIFICATION Spec
CONSTANTS
  a = a
  b = b
  c = c
  d = d
  Nodes <- MCNodes
  Entry = a
  Edges <- MCEdges
  MaxCalls = 1
  MaxAsks = 1
PROPERTIES OnlyPendingTransitions
CHECK_DEADLOCK FALSE
