CONSTANTS
    Tasklets = {main, a, b}
    Main = main
    Channels = {}
    NULL = NULL
    Nested = TRUE
    MaxLimit = 1
    MainOps = {"setup", "schedule"}
    TaskletOps = {"schedule", "run"}
SPECIFICATION Spec
INVARIANTS AliveWhileItRuns
SYMMETRY Symmetry
