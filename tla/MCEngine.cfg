\* Two launches, three ids and two edits.
CONSTANTS
  Launches = {l1, l2}
  MaxIds = 3
  MaxEdits = 2
  Faults = {"crash", "full", "readonly", "throw", "transport"}
SPECIFICATION Spec
INVARIANTS
  SameIdInEveryRun
  EditsSurvive
