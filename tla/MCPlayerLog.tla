------------------------------ MODULE MCPlayerLog ------------------------------
\* A small instance of PlayerLog for TLC.
EXTENDS PlayerLog, TLC

Symmetry == Permutations(Workers)
================================================================================
