--------------------------- MODULE MCAckTracking ---------------------------
EXTENDS AckTracking, TLC

Symmetry == Permutations(Name)
=============================================================================
