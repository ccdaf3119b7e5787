SPECIFICATION Spec
CONSTANTS
  Providers = {p1, p2}
  Profiles = {f1, f2}
  Namesakes = {f1, f2}
  Slots = {s1, s2}
  None = None
  MaxAsks = 4
  MaxLaunches = 2
  MaxFaults = 1
INVARIANTS
  StraysAreExplained
  FailsOnlyByFault
  AnswersHold
  ProfilesAreLinked
  ListsAgree
PROPERTIES
  AppComesUp
  RequestsEnd
CHECK_DEADLOCK FALSE
