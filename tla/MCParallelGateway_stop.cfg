SPECIFICATION Spec
CONSTANTS
    m = m
    a = a
    b = b
    c = c
    none = none
    all = all
    Threads <- MCThreads2
    Main = m
    NoThread = none
    All = all
    Waits = {all, 1}
    Conds = {"first", "last"}
    Outcomes = {"sync", "async", "refused", "error"}
    Jumps = {"stop", "terminate"}
    Signals = TRUE
    Forks = {m}
    MaxOps <- MCTwice
INVARIANTS TypeOK EndIsSignalled StoppedMeansEnded
PROPERTIES ResultIsAnswered
SYMMETRY MCSymmetryAB
