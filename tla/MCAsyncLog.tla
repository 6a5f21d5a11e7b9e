------------------------------ MODULE MCAsyncLog ------------------------------
EXTENDS AsyncLog, TLC

\* Threads that log are interchangeable.
Symmetry == Permutations(Writer)
===============================================================================
