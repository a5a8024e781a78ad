CONSTANTS
    A = A
    B = B
    a = a
    b = b
    Threads = {A, B}
    Tasklets = {A, B, a, b}
    Home <- HomeMap
    Channels = {c1}
    NULL = NULL
    Preferences = {"SENDER"}
    Ops = {"setup", "schedule", "send", "receive", "preference", "catch", "kill", "close", "end"}
SPECIFICATION FairSpec
INVARIANTS QueuedAtHome NothingLeft WokenByItsPartner
PROPERTIES BookSpec TeardownEnds
