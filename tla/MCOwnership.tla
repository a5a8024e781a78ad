------------------------------ MODULE MCOwnership ------------------------------
EXTENDS Ownership, TLC
Symmetry == Permutations(Tasklets \ {Main})
================================================================================
