\* One client, a run longer than its buffer, three failures of the network.
SPECIFICATION ClientFairSpec
CONSTANTS
  Subs = {s1}
  BufferSize = 2
  QueueSize = 2
  MaxEvents = 5
  MaxRetries = 2
  MaxBreaks = 3
  MaxShows = 2
INVARIANTS ClosedIsTold ListTellsOutcome
PROPERTIES InOrderNoneTwice NoSilentSkip ClientLearns
CHECK_DEADLOCK FALSE
