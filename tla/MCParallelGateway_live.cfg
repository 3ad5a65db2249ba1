SPECIFICATION Spec
CONSTANTS
    m = m
    a = a
    b = b
    c = c
    none = none
    all = all
    Threads <- MCThreads2
    Main = m
    NoThread = none
    All = all
    Waits = {1}
    Conds = {"last"}
    Outcomes = {"sync", "async"}
    Jumps = {}
    Signals = TRUE
    Forks = {m, a}
    MaxOps <- MCOnce
PROPERTIES StopCompletes LastGatewayOpens
