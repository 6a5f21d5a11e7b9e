------------------------------ MODULE MCReactor ------------------------------
EXTENDS Reactor, TLC

\* Descriptors, clients and workers are interchangeable.
Symmetry == Permutations(Fd) \cup Permutations(Client) \cup Permutations(Worker)
===============================================================================
