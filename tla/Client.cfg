\* The player's commands in any order, with legal and illegal amounts, around
\* calls of up to three attempts.
CONSTANTS
  NTables = 3
  MaxInt = 15
  Amounts <- MCAmounts
  CommandRoots = {1, 2, 3}
  ChipSupply = 6
  MaxAttempts = 3
  CallAmounts = {1}
SPECIFICATION ClientSpec
INVARIANTS TypeOK ReservedIsSum NeverOvercommitted AppliedOnce OutcomeIsTrue
PROPERTIES ImplementsEscrow CallsEnd
