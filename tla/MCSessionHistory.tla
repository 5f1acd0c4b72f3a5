-------------------------- MODULE MCSessionHistory --------------------------
EXTENDS SessionHistory, TLC

Symmetric == Permutations(Walks)
=============================================================================
