SPECIFICATION Spec
CONSTANTS
    M1 = M1
    M2 = M2
    C1 = C1
    C2 = C2
    D1 = D1
    D2 = D2
    E1 = E1
    a = a
    b = b
    m = m
    c = c
    d = d
    e = e
    None = None
    Order <- MCOrder
    Parent <- MCParent
    Node <- MCNode
    Site <- MCSite
    First <- MCFirst
INVARIANTS ChecksHold PendingSubtrees
PROPERTY PendingDeletionEnds
CHECK_DEADLOCK FALSE
