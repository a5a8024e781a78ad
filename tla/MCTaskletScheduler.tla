--------------------------- MODULE MCTaskletScheduler ---------------------------
EXTENDS TaskletScheduler, TLC
Symmetry == Permutations(Tasklets \ {Main})
================================================================================
