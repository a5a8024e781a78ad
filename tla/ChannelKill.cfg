CONSTANTS
    Tasklets = {main, a, b}
    Main = main
    Channels = {c1, c2}
    NULL = NULL
    Nested = TRUE
    MaxLimit = 1
    MainOps = {"setup", "run_scheduler", "schedule", "send", "receive", "run", "clear", "unblock_all", "kill", "kill_pending"}
    TaskletOps = {"schedule", "send", "receive"}
SPECIFICATION ChannelFairSpec
INVARIANTS BlockedIsListed TransferOver
PROPERTIES KeptUntilTaken MainWakes ClearReturns
