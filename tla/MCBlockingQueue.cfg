SPECIFICATION Spec
CONSTANTS
    t1 = t1
    t2 = t2
    t3 = t3
    unit = unit
    signal = signal
    Threads <- MCThreads
    Elements <- MCElements
    Default = unit
    MaxLen = 3
    MaxWaiting = 3
INVARIANTS TypeOK NoLostWakeup
PROPERTIES ActsAtomically
\* everybody may wait on an empty queue
CHECK_DEADLOCK FALSE
