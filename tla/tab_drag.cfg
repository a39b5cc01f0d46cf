SPECIFICATION FairTabDragSpec
CONSTANTS
    W1 = W1
    W2 = W2
    N1 = N1
    a = a
    b = b
    c = c
    d = d
    e = e
    Browsers = {W1, W2, N1}
    Tabs = {a, b, c, d, e}
    Strips <- MCStrips
    Child = {}
    MaxEvents = 4
    Null = Null
INVARIANTS DragIsConsistent TabsAreKept CancelRestores
PROPERTY ReleaseEndsDrag
CHECK_DEADLOCK FALSE
