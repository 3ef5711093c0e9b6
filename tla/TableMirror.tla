------------------------------ MODULE TableMirror ------------------------------
(***************************************************************************)
(* The table's functional handlers (table/agg/handlers/), which the tests  *)
(* of the repository run instead of the deployed aggregate.  Their state   *)
(* and their appliers are those of Table.tla, statement for statement, and *)
(* so are the handlers that stand here as Table's own actions; they differ *)
(* in the seat a join gets, and there is no handler for AddChips.          *)
(*                                                                         *)
(* Here every command may be handled by either code, so that whatever one  *)
(* of them leads to is a state the other one meets.                        *)
(***************************************************************************)
EXTENDS Table

HandleCreateTable == CreateTable

\* Every position is a specific seat, 0 included.
SeatRequested(preferred) == 0 <= preferred /\ preferred < MaxPlayers

Bug_SeatGranted(preferred) ==
  SeatRequested(preferred) => seatFor(preferred) \notin DOMAIN seats

\* A specific seat is had or refused.
SeatGranted(preferred) ==
  SeatRequested(preferred) => preferred \notin DOMAIN seats

MirrorSeat(preferred) ==
  IF SeatRequested(preferred) THEN preferred ELSE nextAvailableSeat

HandleJoinTable(p, buyIn, preferred) ==
  LET pos == MirrorSeat(preferred)
      seat == [player |-> p, stack |-> buyIn, sittingOut |-> FALSE]
  IN
  /\ CanJoin(p, buyIn)
  /\ SeatGranted(preferred)
  /\ seats' = [q \in DOMAIN seats \cup {pos} |-> IF q = pos THEN seat ELSE seats[q]]
  /\ UNCHANGED <<exists, dealer, handCount, currentHand, status, hand, ended>>

HandleLeaveTable(p) == LeaveTable(p)
HandleStartHand == StartHand
HandleEndHand(root, won) == EndHand(root, won)

NextInTests ==
  \/ HandleCreateTable
  \/ \E p \in Players, buyIn \in Amounts, preferred \in 0..MaxPlayers :
       HandleJoinTable(p, buyIn, preferred)
  \/ \E p \in Players : HandleLeaveTable(p)
  \/ HandleStartHand
  \/ \E root \in 1..handCount, won \in [Players -> Winnings] : HandleEndHand(root, won)
  \/ \E p \in Players : PlayerSatOut(p) \/ PlayerSatIn(p)

NextEither == Next \/ NextInTests

SpecEither == Init /\ [][NextEither]_vars

--------------------------------------------------------------------------------
(***************************************************************************)
(* Properties                                                              *)
(***************************************************************************)

\* What a test sees of a join happens at a deployed table too: a join that
\* the functional handler accepts is accepted there and gets the same seat.
\* The deployed table accepts more joins, but only those of a player who asks
\* for a seat that is taken.
MirrorJoinsAreTables ==
  \A p \in Players, buyIn \in Amounts :
    CanJoin(p, buyIn) =>
      \A preferred \in 0..MaxPlayers :
        IF SeatGranted(preferred)
        THEN MirrorSeat(preferred) = seatFor(preferred)
        ELSE preferred \in DOMAIN seats
================================================================================
