SPECIFICATION Spec
CONSTANTS
    h1 = h1
    h2 = h2
    None = None
    Hosts = {h1, h2}
    First = h1
    Kinds <- MCKinds
    Galaxies = TRUE
    MaxNavs = 3
INVARIANTS ChecksHold RequestsAreInFlight DocumentsAgree LoadingSettles
CHECK_DEADLOCK FALSE
