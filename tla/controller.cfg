SPECIFICATION FairSpec
CONSTANTS
    Threads = {t1}
    Bound = bound
    Tasks = {k1, k2}
    WorkBatchSize = 2
    MaxTime = 1
    Budget = 3
INVARIANTS PermissionIsRight SleepsOnNothing
PROPERTIES BatchStopsOnQuit TasksRun
CHECK_DEADLOCK FALSE
