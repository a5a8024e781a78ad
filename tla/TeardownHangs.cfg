CONSTANTS
    A = A
    B = B
    a = a
    b = b
    Threads = {A, B}
    Tasklets = {A, B, a, b}
    Home <- HomeMap
    Channels = {c1}
    NULL = NULL
    Preferences = {}
    Ops = {"setup", "send", "receive", "end"}
SPECIFICATION FairSpec
PROPERTIES TeardownCompletes
