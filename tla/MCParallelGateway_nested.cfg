SPECIFICATION Spec
CONSTANTS
    m = m
    a = a
    b = b
    c = c
    none = none
    all = all
    Threads <- MCThreads3
    Main = m
    NoThread = none
    All = all
    Waits = {all, 0, 1, 2}
    Conds = {"first", "last"}
    Outcomes = {"sync", "async"}
    Jumps = {}
    Signals = FALSE
    Forks = {m, a}
    MaxOps <- MCMainTwice
INVARIANTS CountersAgree CancelJustified StructuredParallelism BarrierHolds
PROPERTIES GateWaitsForBranches OnlyAbandonedUnanswered
SYMMETRY MCSymmetryBC
