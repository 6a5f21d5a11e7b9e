----------------------------- MODULE MCHeapTimer ------------------------------
EXTENDS HeapTimer, TLC

\* Descriptors are interchangeable.
Symmetry == Permutations(Id)
===============================================================================
