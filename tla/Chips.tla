--------------------------------- MODULE Chips ---------------------------------
\* Chips in several places.
EXTENDS Integers, FiniteSets, Functions

\* The sum of f's values.
Total(f) == FoldFunction(LAMBDA x, y : x + y, 0, f)
================================================================================
