---------------------------- MODULE MCRoundRobin ----------------------------
EXTENDS RoundRobin, TLC

Symmetry == Permutations(Caller)
=============================================================================
