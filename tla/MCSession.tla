------------------------------ MODULE MCSession ------------------------------
EXTENDS Session, TLC

\* Workers and application threads are interchangeable; safety runs only.
ThreadSymmetry == Permutations(Workers) \cup Permutations(Apps)

=============================================================================
