CONSTANTS
    A = A
    B = B
    a = a
    b = b
    d = d
    Threads = {A, B}
    Tasklets = {A, B, a, b}
    Home <- TwoThreads
    Channels = {c1}
    NULL = NULL
    Preferences = {}
    Ops = {"setup", "schedule", "queue_send", "queue_receive"}
    MaxSent = 3
SPECIFICATION QSpec
INVARIANTS SenderNeverBlocks
