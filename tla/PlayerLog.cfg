\* Two commands in flight on one log, snapshots, overlapping pages.
CONSTANTS
  NTables = 2
  MaxInt = 7
  Amounts = {1}
  CommandRoots = {1, 2}
  ChipSupply = 2
  Workers = {w1, w2}
  MaxEvents = 4
SPECIFICATION Spec
INVARIANTS TypeOK ReplayIsIdempotent
PROPERTY ImplementsPlayer
SYMMETRY Symmetry
