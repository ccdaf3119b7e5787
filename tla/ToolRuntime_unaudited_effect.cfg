\* The log file cannot be written after the tool has run.
SPECIFICATION Spec
CONSTANTS
  Calls = {c1}
  Tools = {write, shell, read}
  Targets = {t1}
  Mutating = {write, shell}
  Reversible = {write}
  DryByDefault = {}
  Effects = {"allow"}
  Overrides = {FALSE}
  DryFlags = {FALSE}
  Faults = {"audit_file"}
INVARIANTS EffectIsAudited
CHECK_DEADLOCK FALSE
