CONSTANTS
    A = A
    B = B
    a = a
    b = b
    d = d
    Threads = {A}
    Tasklets = {A, a, b, d}
    Home <- OneThread
    Channels = {c1}
    NULL = NULL
    Preferences = {}
    Ops = {"setup", "schedule", "kill", "catch", "close", "queue_send", "queue_receive", "end"}
    MaxSent = 3
SPECIFICATION QSpec
INVARIANTS SenderNeverBlocks NobodyWaitsForQueuedData
PROPERTIES InOrder
SYMMETRY Symmetry
