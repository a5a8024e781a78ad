CONSTANTS
    Tasklets = {main, a, b}
    Main = main
    Channels = {c1}
    NULL = NULL
    Nested = TRUE
    MaxLimit = 1
    MainOps = {"setup", "run_scheduler", "schedule", "run", "send", "receive", "preference", "insert", "remove", "switch"}
    TaskletOps = {"schedule", "schedule_remove", "send", "receive", "run", "switch", "send_exception", "catch"}
SPECIFICATION ChannelSpec
INVARIANTS CurrentIsActive NoLostTasklet RunnersWait WokenByItsPartner
PROPERTIES QueueSpec
SYMMETRY Symmetry
