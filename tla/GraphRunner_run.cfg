\* A run with a join, two tool calls a step and two approvals.
SPECIFICATION FairSpec
CONSTANTS
  a = a
  b = b
  c = c
  d = d
  Nodes <- MCNodes
  Entry = a
  Edges <- MCEdges
  MaxCalls = 2
  MaxAsks = 2
INVARIANTS StepsAreSerial StreamTellsStatus
PROPERTIES ResumedByApproval NoStepAfterCancel RunEnds KeepsRunSpec
CHECK_DEADLOCK FALSE
