SPECIFICATION Spec
CONSTANTS
  Programs <- MCPrograms
  NoPosition = NoPosition
  MaxTurns = 3
  MaxStarts = 4
INVARIANTS TypeOK StacksMatch ChoiceIsKept CompletedOnce FinishedIsComplete
