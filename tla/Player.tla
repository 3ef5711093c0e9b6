--------------------------------- MODULE Player ---------------------------------
(***************************************************************************)
(* The player aggregate: one state, one action per command that main.go    *)
(* routes.  A rejected command changes nothing, so an action is the        *)
(* accepted command.  Reservations are compensated by TableJoinRejected,   *)
(* which the code runs without any guard, at any moment, any number of     *)
(* times.                                                                  *)
(***************************************************************************)
EXTENDS PlayerState

CONSTANTS
  Amounts,      \* amounts that commands carry, legal or not
  CommandRoots, \* table roots that commands and rejections carry
  ChipSupply    \* bound: no deposit takes the exact bankroll above this

ASSUME AmountsAssumption == Amounts \subseteq Int64
ASSUME CommandRootsAssumption == CommandRoots \subseteq Tables \cup {NoRoot}
ASSUME ChipSupplyAssumption == ChipSupply \in Nat

VARIABLE player

vars == player

Init == player = NewPlayerState

RegisterPlayer ==
  /\ CanRegister(player)
  /\ player' = Apply(player, PlayerRegistered)

DepositFunds(amount) ==
  /\ CanDeposit(player, amount)
  /\ player.bankroll + amount <= ChipSupply
  /\ player' = Apply(player, FundsDeposited(player, amount))

WithdrawFunds(amount) ==
  /\ CanWithdraw(player, amount)
  /\ player' = Apply(player, FundsWithdrawn(player, amount))

ReserveFunds(root, amount) ==
  /\ CanReserve(player, root, amount)
  /\ player' = Apply(player, FundsReserved(player, root, amount))

ReleaseFunds(root) ==
  /\ CanRelease(player, root)
  /\ player' = Apply(player, FundsReleased(player, root))

\* Compensation of a JoinTable command that the table refused.
TableJoinRejected(root) ==
  player' = Apply(player, FundsReleased(player, root))

Next ==
  \/ RegisterPlayer
  \/ \E amount \in Amounts : DepositFunds(amount)
  \/ \E amount \in Amounts : WithdrawFunds(amount)
  \/ \E root \in CommandRoots, amount \in Amounts : ReserveFunds(root, amount)
  \/ \E root \in CommandRoots : ReleaseFunds(root)
  \/ \E root \in CommandRoots : TableJoinRejected(root)

Spec == Init /\ [][Next]_vars

--------------------------------------------------------------------------------
(***************************************************************************)
(* Properties                                                              *)
(***************************************************************************)

\* Type invariant of PlayerState; reservations are never negative.
TypeOK ==
  player \in [exists : BOOLEAN, bankroll : Int64, reserved : Int64,
              reservations : [Tables -> 0..MaxInt]]

\* The running sums of the reservations, in table order, that end at total;
\* that they never decrease follows, and is stated for the proofs.
PartialSums(reservations, total) ==
  {ps \in [0..NTables -> 0..total] :
     /\ ps[0] = 0
     /\ \A t \in Tables : ps[t] = ps[t - 1] + reservations[t]
     /\ ps[NTables] = total
     /\ \A i, j \in 0..NTables : i <= j => ps[i] <= ps[j]}

\* Every reserved chip belongs to the reservation of a table: ReservedFunds,
\* which the handlers maintain on its own, is the sum of TableReservations.
\* A chip outside the map could never be released (release.go refuses it).
ReservedIsSum == PartialSums(player.reservations, player.reserved) # {}

\* No order of reservations, withdrawals, releases and compensations commits
\* more chips to tables than the bankroll holds.
NeverOvercommitted == 0 <= player.reserved /\ player.reserved <= player.bankroll

\* A chip reserved for a table never leaves the bankroll while the
\* reservation lasts, and a release returns it to the player: the player
\* implements an escrow account.
Escrow == INSTANCE Escrow WITH
  free <- player.bankroll - player.reserved,
  locked <- player.reservations

ImplementsEscrow == Escrow!Spec
================================================================================
