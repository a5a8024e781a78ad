CONSTANTS
    Tasklets = {main, a, b, c}
    Main = main
    Channels = {}
    NULL = NULL
    Nested = FALSE
    MaxLimit = 2
    MainOps = {"setup", "run_scheduler", "schedule", "run_n_tasklets", "run_for_time", "switch_trap"}
    TaskletOps = {"schedule", "raise", "switch_trap"}
SPECIFICATION FairSpec
INVARIANTS TypeOK LimitsMatchTheCall
PROPERTIES LimitedRunEnds QueuedGetsItsTurn TrapKeepsControl
