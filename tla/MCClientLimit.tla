--------------------------- MODULE MCClientLimit ---------------------------
EXTENDS ClientLimitProperties, TLC
Symmetry == Permutations(Requests) \cup Permutations(Keys)
=============================================================================
