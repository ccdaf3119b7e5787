\* One call of every kind under every fault.
SPECIFICATION FairSpec
CONSTANTS
  Calls = {c1}
  Tools = {write, shell, read}
  Targets = {t1}
  Mutating = {write, shell}
  Reversible = {write}
  DryByDefault = {}
  Effects = {"allow", "ask", "deny", "dry_run_only"}
  Overrides = {TRUE, FALSE}
  DryFlags = {TRUE, FALSE}
  Faults = {"tool_call", "journal", "snapshot", "audit_db", "audit_file", "link", "commit", "host_cancel", "crash"}
INVARIANTS RecordIsWhole EffectWasAllowed EffectWasJournaled EventTellsRecord MirrorTellsRecord
PROPERTIES CancelStopsTheRun EveryCallEnds
CHECK_DEADLOCK FALSE
