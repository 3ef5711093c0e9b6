-------------------------------- MODULE MCTable --------------------------------
\* Small instances of TableMirror, and of the Table it extends, for TLC.
EXTENDS TableMirror, TLC

MCAmounts == -1..3
Symmetry == Permutations(Players)
================================================================================
