---------------------------- MODULE MCSqlConnPool -----------------------------
EXTENDS SqlConnPool, TLC

\* Connections are interchangeable, and so are names, passwords and workers.
Symmetry ==
  Permutations(Conn) \cup Permutations(Worker) \cup Permutations(Password)
===============================================================================
