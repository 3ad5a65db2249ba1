SPECIFICATION Spec
CONSTANTS
    m = m
    a = a
    b = b
    c = c
    none = none
    all = all
    Threads <- MCThreads2
    Main = m
    NoThread = none
    All = all
    Waits = {1}
    Conds = {"first"}
    Outcomes = {"sync", "async"}
    Jumps = {}
    Signals = FALSE
    Forks = {m}
    MaxOps <- MCOnce
PROPERTIES FirstGatewayOpens
