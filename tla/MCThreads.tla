------------------------------- MODULE MCThreads -------------------------------
EXTENDS Threads, TLC
CONSTANTS A, B, a, b
HomeMap == A :> A @@ a :> A @@ B :> B @@ b :> B
================================================================================
