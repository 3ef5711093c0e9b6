-------------------------------- MODULE MCPoker --------------------------------
\* Small instances of Poker for TLC.
EXTENDS Poker, TLC

Symmetry == Permutations(Players)
================================================================================
