\* Two hands; commands in any order, what the first hand published may come again during the second.
CONSTANTS
  Players = {p1, p2}
  MaxPlayers = 2
  MinBuyIn = 1
  MaxBuyIn = 1
  MaxInt = 31
  Amounts = {1}
  MaxHands = 2
  ChipSupply = 1
  MaxStack = 15
  MaxBuyIns = 2
  MaxInFlight = 2
  Redelivered = {"HandStarted", "HandComplete", "HandEnded"}
SPECIFICATION Spec
INVARIANTS TypeOK DealtFromTheTable WinningsPaidOnce
PROPERTY HandsArePayouts
SYMMETRY Symmetry
CHECK_DEADLOCK FALSE
