CONSTANTS
    Tasklets = {main, a, b, c}
    Main = main
    Channels = {ch1}
    NULL = NULL
SPECIFICATION Spec
INVARIANTS TypeOK QueueIsAList
PROPERTY LineSpec
SYMMETRY Symmetry
