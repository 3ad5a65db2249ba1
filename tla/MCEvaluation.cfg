SPECIFICATION Spec
CONSTANTS
  a = a
  b = b
  c = c
  Threads = {a, b, c}
  NoThread = NoThread
  Kinds = {"code", "prepare", "condition"}
  Outcomes = {"ok", "again", "stop", "error"}
  MaxRuns = 1
SYMMETRY MCSymmetry
INVARIANTS TypeOK CopyIsCurrent PreparationIsLocal ToldIsApplied ConditionIsCurrent
PROPERTIES ChangesAtomically
