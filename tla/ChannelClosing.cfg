CONSTANTS
    Tasklets = {main, a, b}
    Main = main
    Channels = {c1}
    NULL = NULL
    Nested = FALSE
    MaxLimit = 1
    MainOps = {"setup", "run_scheduler", "schedule", "send", "send_exception", "receive", "preference", "close", "open", "block_trap", "kill"}
    TaskletOps = {"schedule", "send", "receive", "raise", "catch"}
SPECIFICATION ChannelSpec
INVARIANTS BalanceOK BlockedDoesNotRun
PROPERTIES BookSpec
SYMMETRY Symmetry
