SPECIFICATION Spec
CONSTANTS
    a = a
    b = b
    w1 = w1
    None = None
    Chats <- TwoChats
    Waiters = {w1}
    MaxGen = 2
    MaxRolls = 2
    MaxCrashes = 1
SYMMETRY Alike
INVARIANTS
    LeftQuiet
    BootstrapOnce
    OneChatPerGeneration
CHECK_DEADLOCK FALSE
