\* One hand under fair delivery; a buy-in of 2 is refused.
CONSTANTS
  Players = {p1, p2}
  MaxPlayers = 2
  MinBuyIn = 1
  MaxBuyIn = 1
  MaxInt = 31
  Amounts = {1, 2}
  MaxHands = 1
  ChipSupply = 2
  MaxStack = 15
  MaxBuyIns = 1
  MaxInFlight = 20
  Redelivered = {"HandStarted", "HandComplete", "HandEnded"}
SPECIFICATION FairSpec
PROPERTIES StartedHandsAreDealt WinningsArrive BuyInsSettle
CHECK_DEADLOCK FALSE
