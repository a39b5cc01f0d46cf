SPECIFICATION Spec
CONSTANTS
    Threads = {t1, t2}
    WebRT = TRUE
    QueueCapacity = 2
    MaxSent = 1
    MaxTime = 1
    Budget = 5
SYMMETRY Symmetry
INVARIANTS TypeOK SingleWorkToken ReplacementDChecks
PROPERTY ImplementsContract
CHECK_DEADLOCK FALSE
