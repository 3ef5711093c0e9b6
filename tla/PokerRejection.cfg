\* Buy-ins refused and accepted, notices that come late.
CONSTANTS
  Players = {p1, p2}
  MaxPlayers = 2
  MinBuyIn = 1
  MaxBuyIn = 1
  MaxInt = 31
  Amounts = {1}
  MaxHands = 1
  ChipSupply = 1
  MaxStack = 15
  MaxBuyIns = 2
  MaxInFlight = 20
  Redelivered = {}
SPECIFICATION Spec
PROPERTY OnlyFailedJoinsAreReleased
CHECK_DEADLOCK FALSE
