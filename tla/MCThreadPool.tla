----------------------------- MODULE MCThreadPool -----------------------------
EXTENDS ThreadPool, TLC

\* Workers and tasks are interchangeable.
Symmetry == Permutations(Worker) \cup Permutations(Task)
===============================================================================
