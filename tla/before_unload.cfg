SPECIFICATION Spec
CONSTANTS
    A1 = A1
    B2 = B2
    A3 = A3
    a = a
    b = b
    None = None
    Order <- MCOrder
    Parent <- MCParent
    Site <- MCSite
    LegacyMode = "task"
    Debugging = FALSE
    Budget = 3
INVARIANTS CompletionIsRight RoundsAreTimed
CHECK_DEADLOCK FALSE
