\* Either code handles each command: three players at a table of three seats, late and repeated results.
CONSTANTS
  Players = {p1, p2, p3}
  MaxPlayers = 3
  MinBuyIn = 1
  MaxBuyIn = 2
  MaxInt = 15
  Amounts <- MCAmounts
  Winnings = {0, 1}
  MaxHands = 3
  MaxStack = 3
SPECIFICATION SpecEither
INVARIANTS TypeOK OneSeatPerPlayer HandPlayersStayPut ResultsOncePerHand BlindsFollowDealer BlindsAreDistinctPlayers MirrorJoinsAreTables
PROPERTY ButtonMovesOn
SYMMETRY Symmetry
