----------------------------- MODULE MCCallMedia -----------------------------
EXTENDS CallMedia, TLC

CallSymmetry == Permutations(Calls)
=============================================================================
