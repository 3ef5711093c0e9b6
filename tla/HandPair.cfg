\* The deck of a pair of fives with low kickers, and a pair of fours with an ace.
CONSTANTS
  Ranks = {2, 3, 4, 5, 14}
  Suits = {s1, s2}
  HandSize = 5
SPECIFICATION Spec
INVARIANT ScoresFollowRules
SYMMETRY Symmetry
CHECK_DEADLOCK FALSE
