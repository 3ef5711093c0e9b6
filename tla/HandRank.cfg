\* Both ends of the ranks, so that the wheel and the royal flush are there; six
\* cards, so that there is a choice between two pairs, trips, flushes and straights.
CONSTANTS
  Ranks = {2, 3, 4, 5, 10, 11, 12, 13, 14}
  Suits = {s1, s2, s3, s4}
  HandSize = 6
SPECIFICATION Spec
INVARIANTS RankFollowsRules BestHandIsFound MirrorRevealsSameRank
SYMMETRY Symmetry
CHECK_DEADLOCK FALSE
