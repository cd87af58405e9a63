---------------------------- MODULE MCCallControl ----------------------------
EXTENDS CallControl, TLC

TagSymmetry == Permutations(Tags)
=============================================================================
