----------------------------- MODULE MCRegistry -----------------------------
EXTENDS Registry, TLC

Symmetry == Permutations(Node)
=============================================================================
