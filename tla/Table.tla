--------------------------------- MODULE Table ---------------------------------
(***************************************************************************)
(* The table aggregate as deployed (table/agg/table.go): seats, the dealer *)
(* button, the blinds and the life of one hand at a time.  A rejected      *)
(* command changes nothing, so an action is the accepted command.          *)
(*                                                                         *)
(* A hand root is a hash of the table's root and the hand number, so       *)
(* within one table the hand number stands for it; 0 is no hand.           *)
(* PlayerSatOut and PlayerSatIn are facts that player/saga-table injects:  *)
(* the table folds them whenever they come.  The saga leaves the player    *)
(* to "context"; a fact that names nobody seated changes nothing.          *)
(***************************************************************************)
EXTENDS Integers, FiniteSets

CONSTANTS
  Players,             \* player roots
  MaxPlayers,          \* seats, numbered from 0
  MinBuyIn, MaxBuyIn,  \* limits of CreateTable
  MaxInt,              \* largest stack the type holds, int64 in the code
  Amounts,             \* amounts that JoinTable and AddChips carry
  Winnings,            \* amounts a hand's result can give to one player
  MaxHands,            \* bound on the hands played
  MaxStack             \* bound on a stack that winnings lead to

ASSUME MaxPlayersAssumption == MaxPlayers \in Nat
ASSUME AmountsAssumption ==
  /\ Amounts \subseteq Int /\ Winnings \subseteq Int
  /\ MinBuyIn \in Int /\ MaxBuyIn \in Int
ASSUME BoundsAssumption == MaxInt \in Nat \ {0} /\ MaxHands \in Nat /\ MaxStack \in Nat

VARIABLES
  exists,       \* TableID is set
  seats,        \* occupied position -> [player, stack, sittingOut]
  dealer,       \* DealerPosition
  handCount,
  currentHand,  \* CurrentHandRoot
  status,       \* "" before CreateTable, then "waiting" or "in_hand"
  hand,         \* the last HandStarted event, as the hand's saga sees it
  ended         \* history: roots of the hands whose result was applied

tableVars == <<exists, seats, dealer, handCount, currentHand, status>>
vars == <<tableVars, hand, ended>>

Positions == 0..(MaxPlayers - 1)
NoHand == 0

--------------------------------------------------------------------------------
(***************************************************************************)
(* Accessors                                                               *)
(***************************************************************************)
Wrap(x) == IF x > MaxInt THEN x - 2 * (MaxInt + 1) ELSE x

\* findSeatByPlayer: the positions it may answer, none for -1.
SeatsOf(p) == {pos \in DOMAIN seats : seats[pos].player = p}

ActivePositions == {pos \in DOMAIN seats : ~seats[pos].sittingOut}

\* The slice of a set of positions, sorted: its i-th element, and the index
\* of a position, 0 when the search loop finds nothing.
Nth(S, i) == CHOOSE pos \in S : Cardinality({q \in S : q < pos}) = i
IndexOf(S, pos) == IF pos \in S THEN Cardinality({q \in S : q < pos}) ELSE 0

nextAvailableSeat ==
  CHOOSE pos \in Positions \ DOMAIN seats :
    \A q \in Positions \ DOMAIN seats : pos <= q

Bug_seatFor(preferred) ==
  IF preferred > 0 /\ preferred <= MaxPlayers /\ preferred \notin DOMAIN seats
  THEN preferred ELSE nextAvailableSeat

\* A preferred seat that is free is honoured, except seat 0.
seatFor(preferred) ==
  IF preferred > 0 /\ preferred < MaxPlayers /\ preferred \notin DOMAIN seats
  THEN preferred ELSE nextAvailableSeat

Bug_nextDealerPosition ==
  Nth(DOMAIN seats, IndexOf(DOMAIN seats, dealer) % Cardinality(DOMAIN seats))

nextDealerPosition ==
  Nth(DOMAIN seats, (IndexOf(DOMAIN seats, dealer) + 1) % Cardinality(DOMAIN seats))

Bug_smallBlind(A, d) == Nth(A, (IndexOf(A, d) + 1) % Cardinality(A))

\* Positions of the blinds among the active seats A, for dealer d.
smallBlind(A, d) ==
  Nth(A, IF Cardinality(A) = 2 THEN IndexOf(A, d)
         ELSE (IndexOf(A, d) + 1) % Cardinality(A))
Bug_bigBlind(A, d) ==
  Nth(A, (IndexOf(A, d) + 2) % Cardinality(A))

bigBlind(A, d) ==
  Nth(A, IF Cardinality(A) = 2 THEN (IndexOf(A, d) + 1) % 2
         ELSE (IndexOf(A, d) + 2) % Cardinality(A))

--------------------------------------------------------------------------------
(***************************************************************************)
(* Commands and facts                                                      *)
(***************************************************************************)
NoHandYet ==
  [root |-> NoHand, dealer |-> 0, sb |-> 0, bb |-> 0, players |-> <<>>]

Init ==
  /\ exists = FALSE
  /\ seats = <<>>
  /\ dealer = 0
  /\ handCount = 0
  /\ currentHand = NoHand
  /\ status = ""
  /\ hand = NoHandYet
  /\ ended = {}

CreateTable ==
  /\ ~exists
  /\ 0 < MinBuyIn /\ MinBuyIn <= MaxBuyIn
  /\ 2 <= MaxPlayers /\ MaxPlayers <= 10
  /\ exists' = TRUE
  /\ dealer' = 0
  /\ handCount' = 0
  /\ status' = "waiting"
  /\ UNCHANGED <<seats, currentHand, hand, ended>>

Bug_CanJoin(p, buyIn) ==
  /\ exists
  /\ Cardinality(DOMAIN seats) < MaxPlayers
  /\ MinBuyIn <= buyIn /\ buyIn <= MaxBuyIn

CanJoin(p, buyIn) ==
  /\ exists
  /\ SeatsOf(p) = {}
  /\ Cardinality(DOMAIN seats) < MaxPlayers
  /\ MinBuyIn <= buyIn /\ buyIn <= MaxBuyIn

\* A player may join while a hand is being played, and is not in it.
JoinTable(p, buyIn, preferred) ==
  /\ CanJoin(p, buyIn)
  /\ LET seat == [player |-> p, stack |-> buyIn, sittingOut |-> FALSE]
     IN seats' = [pos \in DOMAIN seats \cup {seatFor(preferred)} |->
                    IF pos = seatFor(preferred) THEN seat ELSE seats[pos]]
  /\ UNCHANGED <<exists, dealer, handCount, currentHand, status, hand, ended>>

Bug_LeaveTable(p) ==
  /\ exists
  /\ \E pos \in SeatsOf(p) :
       seats' = [q \in DOMAIN seats \ {pos} |-> seats[q]]
  /\ UNCHANGED <<exists, dealer, handCount, currentHand, status, hand, ended>>

LeaveTable(p) ==
  /\ exists
  /\ status # "in_hand"
  /\ \E pos \in SeatsOf(p) :
       seats' = [q \in DOMAIN seats \ {pos} |-> seats[q]]
  /\ UNCHANGED <<exists, dealer, handCount, currentHand, status, hand, ended>>

StartHand ==
  /\ exists
  /\ status # "in_hand"
  /\ Cardinality(ActivePositions) >= 2
  /\ handCount < MaxHands
  /\ hand' = [root    |-> handCount + 1,
              dealer  |-> nextDealerPosition,
              sb      |-> smallBlind(ActivePositions, nextDealerPosition),
              bb      |-> bigBlind(ActivePositions, nextDealerPosition),
              players |-> [pos \in ActivePositions |->
                             [player |-> seats[pos].player, stack |-> seats[pos].stack]]]
  /\ currentHand' = hand'.root
  /\ handCount' = hand'.root
  /\ dealer' = hand'.dealer
  /\ status' = "in_hand"
  /\ UNCHANGED <<exists, seats, ended>>

Bug_AddChips(p, amount) ==
  /\ exists
  /\ amount > 0
  /\ \E pos \in SeatsOf(p) :
       /\ Wrap(seats[pos].stack + amount) <= MaxBuyIn
       /\ seats' = [seats EXCEPT ![pos].stack = Wrap(@ + amount)]
  /\ UNCHANGED <<exists, dealer, handCount, currentHand, status, hand, ended>>

AddChips(p, amount) ==
  /\ exists
  /\ status # "in_hand"
  /\ amount > 0
  /\ \E pos \in SeatsOf(p) :
       /\ Wrap(seats[pos].stack + amount) <= MaxBuyIn
       /\ seats' = [seats EXCEPT ![pos].stack = Wrap(@ + amount)]
  /\ UNCHANGED <<exists, dealer, handCount, currentHand, status, hand, ended>>

Bug_CanEndHand(root) == exists /\ status = "in_hand"
CanEndHand(root) == exists /\ status = "in_hand" /\ root = currentHand

\* won sums the amounts of a player's results; StackChanges has no losses.
EndHand(root, won) ==
  /\ CanEndHand(root)
  /\ \A pos \in DOMAIN seats : seats[pos].stack + won[seats[pos].player] <= MaxStack
  /\ seats' = [pos \in DOMAIN seats |->
                 [seats[pos] EXCEPT !.stack = @ + won[seats[pos].player]]]
  /\ currentHand' = NoHand
  /\ status' = "waiting"
  /\ ended' = ended \cup {root}
  /\ UNCHANGED <<exists, dealer, handCount, hand>>

PlayerSatOut(p) ==
  /\ \E pos \in SeatsOf(p) : seats' = [seats EXCEPT ![pos].sittingOut = TRUE]
  /\ UNCHANGED <<exists, dealer, handCount, currentHand, status, hand, ended>>

PlayerSatIn(p) ==
  /\ \E pos \in SeatsOf(p) : seats' = [seats EXCEPT ![pos].sittingOut = FALSE]
  /\ UNCHANGED <<exists, dealer, handCount, currentHand, status, hand, ended>>

\* EndHand may carry the root of any hand started so far: results are
\* delivered by a saga, late or twice.
Next ==
  \/ CreateTable
  \/ \E p \in Players, buyIn \in Amounts, preferred \in 0..MaxPlayers :
       JoinTable(p, buyIn, preferred)
  \/ \E p \in Players : LeaveTable(p)
  \/ StartHand
  \/ \E p \in Players, amount \in Amounts : AddChips(p, amount)
  \/ \E root \in 1..handCount, won \in [Players -> Winnings] : EndHand(root, won)
  \/ \E p \in Players : PlayerSatOut(p) \/ PlayerSatIn(p)

Spec == Init /\ [][Next]_vars

--------------------------------------------------------------------------------
(***************************************************************************)
(* Properties                                                              *)
(***************************************************************************)
Seat == [player : Players, stack : Int, sittingOut : BOOLEAN]

\* Type invariant of TableState.
TypeOK ==
  /\ exists \in BOOLEAN
  /\ DOMAIN seats \subseteq Positions
  /\ seats \in [DOMAIN seats -> Seat]
  /\ dealer \in Positions \cup {0}
  /\ handCount \in 0..MaxHands
  /\ currentHand \in 0..handCount
  /\ status \in {"", "waiting", "in_hand"}
  /\ ended \subseteq 1..handCount

\* Joins, departures and preferred seats never put a player in two seats, so
\* that findSeatByPlayer has one answer whatever order the map is walked in.
OneSeatPerPlayer ==
  \A a, b \in DOMAIN seats : seats[a].player = seats[b].player => a = b

\* While a hand is played, everyone dealt into it keeps the seat and the
\* stack that the hand was told in HandStarted, whoever joins, sits out, or
\* tries to leave or to add chips meanwhile.
HandPlayersStayPut ==
  status = "in_hand" =>
    /\ currentHand = hand.root
    /\ \A pos \in DOMAIN hand.players :
         /\ pos \in DOMAIN seats
         /\ seats[pos].player = hand.players[pos].player
         /\ seats[pos].stack = hand.players[pos].stack

\* The hand that is being played has no result yet, and a result changes the
\* stacks once: a hand, however often its EndHand arrives, is applied once.
ResultsOncePerHand ==
  /\ currentHand \notin ended
  /\ status = "in_hand" <=> currentHand # NoHand
  /\ status # "in_hand" => ended = 1..handCount

\* The first position of S after pos, going round the table.
Clockwise(S, pos) ==
  LET after == {q \in S : q > pos}
      First(R) == CHOOSE q \in R : \A r \in R : q <= r
  IN First(IF after # {} THEN after ELSE S)

\* When the dealer plays the hand, the blinds are where the rules put them:
\* heads-up the dealer posts the small blind, otherwise the next player does,
\* and the big blind is the player after.
BlindsFollowDealer ==
  LET A == DOMAIN hand.players
  IN (hand.root # NoHand /\ hand.dealer \in A) =>
       /\ hand.sb = IF Cardinality(A) = 2 THEN hand.dealer ELSE Clockwise(A, hand.dealer)
       /\ hand.bb = Clockwise(A, hand.sb)

\* Two different players of the hand post the blinds, even when the button
\* is at a seat that is sitting out.
BlindsAreDistinctPlayers ==
  hand.root # NoHand =>
    /\ {hand.sb, hand.bb} \subseteq DOMAIN hand.players
    /\ hand.sb # hand.bb

\* The button goes to someone seated and never stays for a second hand where
\* it is, wherever it was left: its seat may since have been vacated, taken
\* by another player, or be sitting out.
ButtonMovesOn ==
  [][hand' # hand => dealer' # dealer /\ dealer' \in DOMAIN seats']_vars
================================================================================
