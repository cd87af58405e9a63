---------------------------- MODULE MCMediaSockets ----------------------------
EXTENDS MediaSockets, TLC

SessionSymmetry == Permutations(Sessions)
=============================================================================
