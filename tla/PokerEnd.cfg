\* One hand under fair delivery, each event delivered once.
CONSTANTS
  Players = {p1, p2}
  MaxPlayers = 2
  MinBuyIn = 1
  MaxBuyIn = 1
  MaxInt = 31
  Amounts = {1}
  MaxHands = 1
  ChipSupply = 1
  MaxStack = 15
  MaxBuyIns = 1
  MaxInFlight = 20
  Redelivered = {}
SPECIFICATION FairSpec
PROPERTY CompletedHandsEnd
CHECK_DEADLOCK FALSE
