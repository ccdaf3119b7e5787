\* Three edits, two saves and a validation, in any order.
SPECIFICATION EditorSpec
CONSTANTS
  Data = {"a", "b"}
  Texts <- MCTexts
  MaxEdits = 3
  MaxSaves = 2
  MaxValidations = 1
  None = None
INVARIANTS EdgesHaveEnds CleanIsSaved
