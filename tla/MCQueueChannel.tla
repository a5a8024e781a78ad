----------------------------- MODULE MCQueueChannel -----------------------------
EXTENDS QueueChannel, TLC
CONSTANTS A, B, a, b, d
OneThread == [t \in {A, a, b, d} |-> A]
TwoThreads == A :> A @@ a :> A @@ B :> B @@ b :> B
Symmetry == Permutations({a, b, d})
================================================================================
