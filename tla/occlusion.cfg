SPECIFICATION FairSpec
CONSTANTS
    w1 = w1
    w2 = w2
    Windows <- MCWindows
    Open <- MCWindows
    Other = Other
    Popup = Popup
    Thumbnail = Thumbnail
    None = None
    Kinds = {"move", "show", "desktop", "session", "display", "suspend", "popup", "thumbnail", "destroy"}
    Rare = {"desktop", "session", "display", "suspend", "popup", "thumbnail", "destroy"}
    MaxChanges = 3
INVARIANTS HooksAreHeld NeededHooksComeBack
PROPERTY EverythingSettles
CHECK_DEADLOCK FALSE
