SPECIFICATION Spec
CONSTANTS
  Programs <- MCSearchPrograms
  NoPosition = NoPosition
  MaxTurns = 0
  MaxStarts = 2
INVARIANTS SearchTriesAll
