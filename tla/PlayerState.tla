------------------------------ MODULE PlayerState ------------------------------
(***************************************************************************)
(* The player aggregate as pure operators: its state record, the guard,    *)
(* validation and event of every command handler, and the appliers that    *)
(* fold an event into the state (player/agg/handlers/).  Player.tla runs   *)
(* them on one state; PlayerLog.tla runs them over a persisted event log.  *)
(* Names, e-mail, AI model and time stamps are left out: no decision reads *)
(* them, except that a registered player has an id (field "exists").       *)
(***************************************************************************)
EXTENDS Integers

CONSTANTS
  NTables,  \* table roots are numbered 1..NTables
  MaxInt    \* largest value of the balances' type, int64 in the code

ASSUME NTablesAssumption == NTables \in Nat
ASSUME MaxIntAssumption == MaxInt \in Nat \ {0}

Tables == 1..NTables
NoRoot == 0                  \* a command whose table_root bytes are empty
Int64 == (-MaxInt - 1)..MaxInt

\* Two's complement result of one addition or subtraction of Int64 values.
Wrap(x) == IF x > MaxInt THEN x - 2 * (MaxInt + 1)
           ELSE IF x < -MaxInt - 1 THEN x + 2 * (MaxInt + 1)
           ELSE x

(***************************************************************************)
(* State.  reservations[t] = 0 is a table with no entry in                 *)
(* TableReservations: every handler refuses to reserve less than 1.        *)
(***************************************************************************)
NewPlayerState ==
  [exists |-> FALSE, bankroll |-> 0, reserved |-> 0,
   reservations |-> [t \in Tables |-> 0]]

AvailableBalance(s) == Wrap(s.bankroll - s.reserved)

(***************************************************************************)
(* Appliers.  Events carry the new balance, not the amount moved.  An      *)
(* empty table_root does not survive the wire (it decodes to nil), so the  *)
(* appliers of FundsReserved and FundsReleased skip the map for NoRoot.    *)
(***************************************************************************)
Bug_applyDeposited(s, e) == [s EXCEPT !.bankroll = Wrap(s.bankroll + e.newBalance)]

applyRegistered(s) ==
  [s EXCEPT !.exists = TRUE, !.bankroll = 0, !.reserved = 0]

applyDeposited(s, e) == [s EXCEPT !.bankroll = e.newBalance]

applyWithdrawn(s, e) == [s EXCEPT !.bankroll = e.newBalance]

applyReserved(s, e) ==
  [s EXCEPT !.reserved = e.newReserved,
            !.reservations = [t \in Tables |->
                                IF t = e.root THEN e.amount ELSE @[t]]]

applyReleased(s, e) ==
  [s EXCEPT !.reserved = e.newReserved,
            !.reservations = [t \in Tables |->
                                IF t = e.root THEN 0 ELSE @[t]]]

\* stateRouter: one applier for each event type.
Apply(s, e) ==
  CASE e.type = "PlayerRegistered" -> applyRegistered(s)
    [] e.type = "FundsDeposited"   -> applyDeposited(s, e)
    [] e.type = "FundsWithdrawn"   -> applyWithdrawn(s, e)
    [] e.type = "FundsReserved"    -> applyReserved(s, e)
    [] e.type = "FundsReleased"    -> applyReleased(s, e)

(***************************************************************************)
(* Command handlers: Can* is guard and validation together, the operator   *)
(* named for the event is the compute step.                                *)
(***************************************************************************)
CanRegister(s) == ~s.exists
PlayerRegistered == [type |-> "PlayerRegistered"]

CanDeposit(s, amount) == s.exists /\ amount > 0
FundsDeposited(s, amount) ==
  [type |-> "FundsDeposited", newBalance |-> Wrap(s.bankroll + amount)]

Bug_CanWithdraw(s, amount) == s.exists /\ amount > 0 /\ amount <= s.bankroll

CanWithdraw(s, amount) ==
  s.exists /\ amount > 0 /\ amount <= AvailableBalance(s)
FundsWithdrawn(s, amount) ==
  [type |-> "FundsWithdrawn", newBalance |-> Wrap(s.bankroll - amount)]

HasReservation(s, root) == root \in Tables /\ s.reservations[root] # 0

Bug_CanReserveAnyAmount(s, root, amount) ==
  s.exists /\ amount <= AvailableBalance(s) /\ ~HasReservation(s, root)
Bug_CanReserveTwice(s, root, amount) ==
  s.exists /\ amount > 0 /\ amount <= AvailableBalance(s)

CanReserve(s, root, amount) ==
  /\ s.exists
  /\ amount > 0
  /\ amount <= AvailableBalance(s)
  /\ ~HasReservation(s, root)
FundsReserved(s, root, amount) ==
  [type |-> "FundsReserved", root |-> root, amount |-> amount,
   newReserved |-> Wrap(s.reserved + amount)]

CanRelease(s, root) ==
  /\ s.exists
  /\ root # NoRoot
  /\ HasReservation(s, root)

\* What a release gives back: the whole entry of the map, 0 without one.
Reservation(s, root) == IF root \in Tables THEN s.reservations[root] ELSE 0

Bug_FundsReleased(s, root) ==
  [type |-> "FundsReleased", root |-> root, newReserved |-> 0]

FundsReleased(s, root) ==
  [type |-> "FundsReleased", root |-> root,
   newReserved |-> Wrap(s.reserved - Reservation(s, root))]
================================================================================
