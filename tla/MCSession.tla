----------------------------- MODULE MCSession ------------------------------
EXTENDS ResponsesSessionProperties, TLC
Symmetry == Permutations(Sockets) \cup Permutations(Pins)
=============================================================================
