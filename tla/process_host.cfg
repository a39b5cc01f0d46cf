SPECIFICATION Spec
CONSTANTS
    f1 = f1
    f2 = f2
    f3 = f3
    v1 = v1
    o1 = o1
    o2 = o2
    SpareManager = SpareManager
    Frames <- MCFrames
    Guests <- MCGuests
    Views <- MCViews
    Observers <- MCObservers
    Group <- MCGroup
    AllowExit = TRUE
    Budget = 9
INVARIANTS TypeOK DeathIsToldOnce DeathAndTeardownChecks TeardownIsUnreferenced
           ServesItsProcess LivesAsLongAsNeeded
PROPERTY DestroyedIsLast
CHECK_DEADLOCK FALSE
