CONSTANTS
    Tasklets = {main, a, b}
    Main = main
    Channels = {c1}
    NULL = NULL
    MaxRefs = 2
    Ops = {"send", "receive", "close", "preference", "kill_pending", "kill", "remove", "insert"}
SPECIFICATION Spec
INVARIANTS ListsReadBothWays
PROPERTIES LinksImplementBook OnlyTakenIsGivenBack GivenBack
SYMMETRY Symmetry
