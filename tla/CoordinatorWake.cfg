SPECIFICATION Spec
CONSTANTS
    chat = chat
    other = other
    e1 = e1
    e2 = e2
    e3 = e3
    NoWake = NoWake
    Channels = {chat, other}
    Events <- TwoAndOne
    Plain <- PlainThird
    Home <- HomeTwoAndOne
    Visible = 1
    MaxAttempts = 2
    MaxConts = 2
INVARIANTS
    ResendNeedsLapse
PROPERTIES
    EventsKept
    WakeSurfaces
CHECK_DEADLOCK FALSE
