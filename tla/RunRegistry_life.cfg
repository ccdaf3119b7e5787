\* Three runs of which one is kept, one client with a stream after the other, and a
\* shutdown at any time.
SPECIFICATION FairSpec
CONSTANTS
  Runs = {r1, r2, r3}
  Clients = {c1}
  Retention = 1
  None = None
INVARIANTS FinishedAreBounded EndIsSeen
PROPERTIES OldestGoFirst ShutdownEnds
CHECK_DEADLOCK FALSE
