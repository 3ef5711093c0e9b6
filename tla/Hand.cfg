\* Two players, all actions in any order, stacks that a bet can exhaust,
\* streets in one variant and draws in the other.
CONSTANTS
  Players = {1, 2}
  Stacks = {1, 2}
  Variants = {"TEXAS_HOLDEM", "FIVE_CARD_DRAW"}
  DeckSize = 12
  DefaultMinBet = 1
  BetAmounts = {1, 2, 3}
  AwardAmounts = {1, 2, 3}
  MaxBet = 6
SPECIFICATION MirrorSpec
INVARIANTS TypeOK ChipsConserved AllInHasNothingLeft HeldCardsUnique MirrorAgreesOnBets MirrorAgreesOnActions
PROPERTIES FoldedWinNothing ResultIsFinal ImplementsPayout
CHECK_DEADLOCK FALSE
