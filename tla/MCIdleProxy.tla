---------------------------- MODULE MCIdleProxy ----------------------------
EXTENDS IdleProxy, TLC
Symmetry == Permutations(Conns) \cup Permutations(Pods)
=============================================================================
