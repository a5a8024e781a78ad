------------------------------- MODULE MCRunQueue -------------------------------
EXTENDS RunQueue, TLC
Symmetry == Permutations(Tasklets \ {Main})
================================================================================
