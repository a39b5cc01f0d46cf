SPECIFICATION FairSpec
CONSTANTS
    Sizes <- MCSizes
    Scales <- MCScales
    Rects <- MCRects
    None = None
    MaxChanges = 4
    MaxInFlight = 2
INVARIANTS RendererIsInStep HangIsWatched LocksAreHeld
PROPERTY RendererHasGeometry
CHECK_DEADLOCK FALSE
