SPECIFICATION Spec
CONSTANTS
  c1 = c1
  c2 = c2
  c3 = c3
  p1 = p1
  p2 = p2
  p3 = p3
  Paths = {p1, p2}
  Calls = {c1, c2, c3}
  RunOf <- OwnRuns
  ToolsOf <- LateWriter
  Large = {c3}
  Late = {c1}
INVARIANT WritesAreWhole
SYMMETRY Symmetry
CHECK_DEADLOCK FALSE
