--------------------------- MODULE MCLinkSession ---------------------------
EXTENDS LinkSession, TLC

Symmetry == Permutations(Guests)
=============================================================================
