------------------------------ MODULE MCRWLock ------------------------------
EXTENDS RWLock, TLC

Symmetry == Permutations(Procs)
=============================================================================
