--------------------------- MODULE MCLockFreeQueue ---------------------------
EXTENDS LockFreeQueue, TLC

\* Producers, consumers and nodes are interchangeable.
Symmetry == Permutations(Producers) \cup Permutations(Consumers) \cup Permutations(Nodes)

=============================================================================
