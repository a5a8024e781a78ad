--------------------------- MODULE MCTaskletChannels ---------------------------
EXTENDS TaskletChannels, TLC
Symmetry == Permutations(Tasklets \ {Main})
================================================================================
