-------------------------- MODULE MCSessionHistory --------------------------
\* Symmetry sets for the TLC instances of SessionHistory.
EXTENDS SessionHistory, TLC

Symmetric == Permutations(Requests) \cup Permutations(Users)
=============================================================================
