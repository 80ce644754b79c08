--------------------------- MODULE MCAccountAccess ---------------------------
\* The instances of AccountAccess that TLC checks: its handlers are alike.
EXTENDS AccountAccess, TLC

Symmetry == Permutations(Requests)
=============================================================================
