------------------------------- MODULE MCHandRank -------------------------------
\* Small instances of HandRankMirror, and of the HandRank it extends, for TLC.
EXTENDS HandRankMirror, TLC

Symmetry == Permutations(Suits)
================================================================================
