SPECIFICATION FairSpec
CONSTANTS
    Threads = {t1}
    WebRT = FALSE
    QueueCapacity = 5
    MaxSent = 0
    MaxTime = 2
    Budget = 4
INVARIANT NativeTimerCoversDelay
PROPERTY RequestsAreServed
CHECK_DEADLOCK FALSE
