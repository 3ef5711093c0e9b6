\* A player raises more than once in a round.
CONSTANTS
  Players = {1, 2}
  Stacks = {1, 2}
  Variants = {"TEXAS_HOLDEM"}
  DeckSize = 7
  DefaultMinBet = 1
  BetAmounts = {1, 2, 3}
  AwardAmounts = {1, 2, 3}
  MaxBet = 8
SPECIFICATION MirrorSpec
PROPERTY RaisesAddToThePot
CHECK_DEADLOCK FALSE
