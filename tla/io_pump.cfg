SPECIFICATION FairIOPumpSpec
CONSTANTS
    Threads = {t1, t2}
    Bound = bound
    Operations = {o1, o2}
    PortCapacity = 2
    MaxTime = 2
    Budget = 4
INVARIANT PortIsConsistent
PROPERTIES ServesContract LoopMakesProgress
CHECK_DEADLOCK FALSE
