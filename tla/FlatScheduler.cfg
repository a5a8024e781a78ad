CONSTANTS
    Tasklets = {main, a, b}
    Main = main
    Channels = {}
    NULL = NULL
    Nested = FALSE
    MaxLimit = 1
    MainOps = {"schedule", "run", "setup", "run_scheduler", "insert", "throw", "throw_pending", "kill_pending", "schedule_remove", "remove", "kill", "bind", "rebind", "unbind"}
    TaskletOps = {"schedule", "schedule_remove", "remove", "run", "kill", "raise", "dont_raise", "kill_pending", "insert"}
SPECIFICATION Spec
INVARIANTS NoLostTasklet QueuedCanRun KillIsDone KilledRunsNoMore AliveUntilDone
PROPERTIES QueueSpec ThrownAtItsTarget
SYMMETRY Symmetry
