\* Every list of up to four edges among three nodes, and malformed documents.
SPECIFICATION Spec
CONSTANTS
  NodeLists <- MCNodeLists
  EdgeLists <- MCEdgeLists
  Entries <- MCEntries
INVARIANTS AcceptedIsAcyclic RefusedIsCyclic
CHECK_DEADLOCK FALSE
