------------------------------ MODULE PokerProofs ------------------------------
(***************************************************************************)
(* Theorems about Poker, for any players, amounts and number of hands, any *)
(* order of delivery and any set of redelivered event types.               *)
(***************************************************************************)
EXTENDS Poker, ChipsProofs

\* The table's invariant holds for any results that EndHand may bring.
TP == INSTANCE TableProofs WITH Winnings <- Int

--------------------------------------------------------------------------------
(***************************************************************************)
(* The table in the system                                                 *)
(***************************************************************************)
TableStep ==
  \/ T!CreateTable
  \/ \E p \in Players, amount \in Amounts : T!JoinTable(p, amount, 0)
  \/ \E p \in Players : T!LeaveTable(p)
  \/ T!StartHand
  \/ \E root \in 1..handCount, won \in [Players -> Int] : T!EndHand(root, won)

LEMMA TableStart ==
  ASSUME T!Init
  PROVE  TP!IInv
<1>1. TP!Init
  BY DEF T!Init, TP!Init, T!NoHandYet, TP!NoHandYet, T!NoHand, TP!NoHand
<1> QED
  BY <1>1, TableAssumption, AmountsAssumption, BoundsAssumption, TP!InitIInv

LEMMA TableStays ==
  ASSUME TP!IInv, TableStep \/ UNCHANGED tableVars
  PROVE  TP!IInv'
<1>1. CASE T!CreateTable
  <2>1. TP!CreateTable
    BY <1>1 DEF T!CreateTable, TP!CreateTable
  <2> QED
    BY <2>1, TableAssumption, AmountsAssumption, BoundsAssumption,
      TP!NextIInv DEF TP!NextEither, TP!Next
<1>2. ASSUME NEW p \in Players, NEW amount \in Amounts, T!JoinTable(p, amount, 0)
      PROVE  TP!IInv'
  <2>1. TP!JoinTable(p, amount, 0)
    BY <1>2, Zenon DEF T!JoinTable, TP!JoinTable, T!CanJoin, TP!CanJoin, T!SeatsOf, TP!SeatsOf,
       T!Cardinality, TP!Cardinality, T!seatFor, TP!seatFor, T!nextAvailableSeat,
       TP!nextAvailableSeat, T!Positions, TP!Positions
  <2>2. 0 \in 0..MaxPlayers
    BY TableAssumption
  <2> QED
    BY <2>1, <2>2, TableAssumption, AmountsAssumption, BoundsAssumption,
      TP!NextIInv DEF TP!NextEither, TP!Next
<1>3. ASSUME NEW p \in Players, T!LeaveTable(p)
      PROVE  TP!IInv'
  <2>1. TP!LeaveTable(p)
    BY <1>3 DEF T!LeaveTable, TP!LeaveTable, T!SeatsOf, TP!SeatsOf
  <2> QED
    BY <2>1, TableAssumption, AmountsAssumption, BoundsAssumption,
      TP!NextIInv DEF TP!NextEither, TP!Next
<1>4. CASE T!StartHand
  <2>1. TP!StartHand
    BY <1>4, Zenon DEF T!StartHand, TP!StartHand, T!Cardinality, TP!Cardinality,
       T!ActivePositions, TP!ActivePositions, T!nextDealerPosition, TP!nextDealerPosition,
       T!smallBlind, TP!smallBlind, T!bigBlind, TP!bigBlind,
       T!Nth, TP!Nth, T!IndexOf, TP!IndexOf
  <2> QED
    BY <2>1, TableAssumption, AmountsAssumption, BoundsAssumption,
      TP!NextIInv DEF TP!NextEither, TP!Next
<1>5. ASSUME NEW root \in 1..handCount, NEW won \in [Players -> Int], T!EndHand(root, won)
      PROVE  TP!IInv'
  <2>1. TP!EndHand(root, won)
    BY <1>5, Zenon DEF T!EndHand, TP!EndHand, T!CanEndHand, TP!CanEndHand, T!NoHand, TP!NoHand
  <2> QED
    BY <2>1, TableAssumption, AmountsAssumption, BoundsAssumption,
      TP!NextIInv DEF TP!NextEither, TP!Next
<1>6. CASE UNCHANGED tableVars
  <2>1. UNCHANGED TP!vars
    BY <1>6 DEF tableVars, TP!vars, TP!tableVars
  <2> QED
    BY <2>1, TableAssumption, AmountsAssumption, BoundsAssumption, TP!NextIInv
<1> QED
  BY <1>1, <1>2, <1>3, <1>4, <1>5, <1>6 DEF TableStep

SeatRecord == [player : Players, stack : Int, sittingOut : BOOLEAN]

\* What the rest of the system needs to know of the table.
LEMMA TableFacts ==
  ASSUME TP!IInv
  PROVE  /\ handCount \in 0..MaxHands /\ handCount \in Nat
         /\ hand.root = handCount
         /\ DOMAIN seats \subseteq 0..(MaxPlayers - 1)
         /\ \A pos \in DOMAIN seats : seats[pos] \in SeatRecord
         /\ \A a, b \in DOMAIN seats : seats[a].player = seats[b].player => a = b
         /\ status = "in_hand" => currentHand = hand.root /\ handCount # 0
         /\ status # "in_hand" => currentHand = 0
         /\ ~exists => handCount = 0
         /\ status = "in_hand" =>
              \A pos \in DOMAIN hand.players :
                /\ pos \in DOMAIN seats
                /\ seats[pos].player = hand.players[pos].player
                /\ seats[pos].stack = hand.players[pos].stack
<1>1. /\ TP!TypeOK /\ TP!OneSeatPerPlayer /\ TP!HandPlayersStayPut /\ TP!ResultsOncePerHand
      /\ TP!HandsInOrder
  BY DEF TP!IInv
<1>2. /\ handCount \in 0..MaxHands /\ handCount \in Nat
      /\ DOMAIN seats \subseteq 0..(MaxPlayers - 1)
  <2>1. handCount \in 0..MaxHands /\ DOMAIN seats \subseteq TP!Positions
    BY <1>1, Zenon DEF TP!TypeOK
  <2> QED
    BY ONLY <2>1, BoundsAssumption DEF TP!Positions
<1>3. \A pos \in DOMAIN seats : seats[pos] \in SeatRecord
  BY <1>1 DEF TP!TypeOK, TP!Seat, SeatRecord
<1>4. hand.root = handCount /\ (status = "in_hand" => currentHand = handCount)
  BY <1>1, Zenon DEF TP!HandsInOrder
<1>5. status = "in_hand" <=> currentHand # 0
  BY <1>1, Zenon DEF TP!ResultsOncePerHand, TP!NoHand
<1>6. /\ status = "in_hand" => currentHand = hand.root /\ handCount # 0
      /\ status # "in_hand" => currentHand = 0
  BY <1>4, <1>5
<1>7. ~exists => handCount = 0
  BY Zenon DEF TP!IInv, TP!NothingBeforeCreation
<1> QED
  BY <1>1, <1>2, <1>3, <1>4, <1>6, <1>7 DEF TP!OneSeatPerPlayer, TP!HandPlayersStayPut

--------------------------------------------------------------------------------
(***************************************************************************)
(* The accounts                                                            *)
(***************************************************************************)
Accounts ==
  [exists : BOOLEAN, bankroll : Int, reserved : Int, reservations : [P!Tables -> Int]]

LEMMA NewAccount == /\ P!NewPlayerState \in Accounts
                    /\ ~P!NewPlayerState.exists /\ P!NewPlayerState.bankroll = 0
BY DEF P!NewPlayerState, Accounts

LEMMA Wrapped ==
  ASSUME NEW x \in Int
  PROVE  P!Wrap(x) \in Int
BY TableAssumption DEF P!Wrap

LEMMA Registering ==
  ASSUME NEW s \in Accounts
  PROVE  /\ P!Apply(s, P!PlayerRegistered) \in Accounts
         /\ P!Apply(s, P!PlayerRegistered).exists = TRUE
         /\ P!Apply(s, P!PlayerRegistered).bankroll = 0
<1> DEFINE r == P!applyRegistered(s)
<1>1. P!Apply(s, P!PlayerRegistered) = r
  BY DEF P!Apply, P!PlayerRegistered
<1>2. r.exists = TRUE /\ r.bankroll = 0
  BY DEF P!applyRegistered, Accounts
<1>3. r \in Accounts
  <2> DEFINE a == [s EXCEPT !.exists = TRUE]
             b == [a EXCEPT !.bankroll = 0]
             c == [b EXCEPT !.reserved = 0]
  <2>1. a \in Accounts
    BY DEF Accounts
  <2> HIDE DEF a
  <2>2. b \in Accounts
    BY <2>1 DEF Accounts
  <2> HIDE DEF b
  <2>3. c \in Accounts
    BY <2>2 DEF Accounts
  <2> HIDE DEF c
  <2>4. r = c
    BY DEF P!applyRegistered, a, b, c
  <2> QED
    BY <2>3, <2>4
<1> QED
  BY <1>1, <1>2, <1>3

LEMMA Depositing ==
  ASSUME NEW s \in Accounts, NEW amount \in Int
  PROVE  /\ P!Apply(s, P!FundsDeposited(s, amount)) \in Accounts
         /\ P!Apply(s, P!FundsDeposited(s, amount)).exists = s.exists
         /\ P!Apply(s, P!FundsDeposited(s, amount)).bankroll = P!Wrap(s.bankroll + amount)
<1> DEFINE e == P!FundsDeposited(s, amount)
           r == P!applyDeposited(s, e)
<1>1. e.type = "FundsDeposited" /\ e.newBalance = P!Wrap(s.bankroll + amount)
  BY DEF P!FundsDeposited
<1>2. P!Apply(s, e) = r
  BY <1>1 DEF P!Apply
<1>3. e.newBalance \in Int
  BY <1>1, Wrapped DEF Accounts
<1>4. r \in Accounts /\ r.exists = s.exists /\ r.bankroll = e.newBalance
  BY <1>3 DEF P!applyDeposited, Accounts
<1> QED
  BY <1>1, <1>2, <1>4

LEMMA Reserving ==
  ASSUME NEW s \in Accounts, NEW root, NEW amount \in Int
  PROVE  /\ P!Apply(s, P!FundsReserved(s, root, amount)) \in Accounts
         /\ P!Apply(s, P!FundsReserved(s, root, amount)).exists = s.exists
         /\ P!Apply(s, P!FundsReserved(s, root, amount)).bankroll = s.bankroll
<1> DEFINE e == P!FundsReserved(s, root, amount)
           r == P!applyReserved(s, e)
<1>1. e.type = "FundsReserved" /\ e.newReserved = P!Wrap(s.reserved + amount) /\ e.amount = amount
  BY DEF P!FundsReserved
<1>2. P!Apply(s, e) = r
  BY <1>1 DEF P!Apply
<1>3. e.newReserved \in Int /\ e.amount \in Int
  BY <1>1, Wrapped DEF Accounts
<1>4. r \in Accounts /\ r.exists = s.exists /\ r.bankroll = s.bankroll
  BY <1>3 DEF P!applyReserved, Accounts
<1> QED
  BY <1>2, <1>4

LEMMA Releasing ==
  ASSUME NEW s \in Accounts, NEW root
  PROVE  /\ P!Apply(s, P!FundsReleased(s, root)) \in Accounts
         /\ P!Apply(s, P!FundsReleased(s, root)).exists = s.exists
         /\ P!Apply(s, P!FundsReleased(s, root)).bankroll = s.bankroll
<1> DEFINE e == P!FundsReleased(s, root)
           r == P!applyReleased(s, e)
<1>1. e.type = "FundsReleased" /\ e.newReserved = P!Wrap(s.reserved - P!Reservation(s, root))
  BY DEF P!FundsReleased
<1>2. P!Apply(s, e) = r
  BY <1>1 DEF P!Apply
<1>3. s.reserved \in Int /\ P!Reservation(s, root) \in Int
  BY DEF P!Reservation, Accounts
<1>4. e.newReserved \in Int
  BY <1>1, <1>3, Wrapped
<1> DEFINE left == [t \in P!Tables |-> IF t = e.root THEN 0 ELSE s.reservations[t]]
<1>5. left \in [P!Tables -> Int]
  BY DEF Accounts
<1>6. r = [s EXCEPT !.reserved = e.newReserved, !.reservations = left]
  BY DEF P!applyReleased
<1> HIDE DEF left
<1>7. r \in Accounts /\ r.exists = s.exists /\ r.bankroll = s.bankroll
  BY ONLY <1>4, <1>5, <1>6, s \in Accounts DEF Accounts
<1> QED
  BY <1>2, <1>7

--------------------------------------------------------------------------------
(***************************************************************************)
(* The inductive invariant: what events and commands carry is what the     *)
(* table and the hands have, or had, to say.                               *)
(***************************************************************************)
Member(p) == p \in Players /\ account[p].exists = TRUE

\* The players that HandStarted and DealCards tell of.
IsDealing(f) ==
  /\ DOMAIN f \subseteq 0..(MaxPlayers - 1)
  /\ \A pos \in DOMAIN f : Member(f[pos].player)
  /\ \A a, b \in DOMAIN f : f[a].player = f[b].player => a = b

IsCurrent(root, players) == root = hand.root => players = hand.players

IsResult(w) == \A p \in DOMAIN w : Member(p) /\ w[p] \in Amounts

IsPaid(h) == h \in DOMAIN hands /\ hands[h].stage = "complete"
PotOf(h) == [type |-> "PotAwarded", root |-> h, winners |-> hands[h].paid]
DepositOf(h, p) ==
  [type |-> "DepositFunds", to |-> p, hand |-> h, amount |-> hands[h].paid[p]]

IsHand(x) ==
  x = [stage |-> x.stage, table |-> x.table, brought |-> x.brought, paid |-> x.paid]

HandOK(h) ==
  /\ IsHand(hands[h])
  /\ hands[h].stage \in {"playing", "complete"}
  /\ \A p \in DOMAIN hands[h].brought : Member(p)
  /\ IsResult(hands[h].paid)
  /\ hands[h].stage = "playing" => DOMAIN hands[h].paid = {}
  /\ h = hand.root => hands[h].brought = StacksOf(hand.players)

EventOK(e) ==
  \/ /\ e.type = "HandStarted" /\ e.root \in 1..handCount
     /\ IsDealing(e.players) /\ IsCurrent(e.root, e.players)
  \/ e.type \in {"HandComplete", "HandEnded"} /\ IsResult(e.winners)
  \/ e.type = "PotAwarded" /\ IsPaid(e.root) /\ e = PotOf(e.root)

CommandOK(c) ==
  \/ /\ c.type = "DealCards" /\ c.to \in 1..handCount
     /\ IsDealing(c.players) /\ IsCurrent(c.to, c.players)
  \/ c.type = "EndHand" /\ IsResult(c.winners)
  \/ c.type = "ReleaseFunds" /\ c.to \in Players
  \/ /\ c.type = "DepositFunds" /\ IsPaid(c.hand)
     /\ c.to \in DOMAIN hands[c.hand].paid /\ c = DepositOf(c.hand, c.to)
  \/ c.type = "JoinTable" /\ Member(c.player) /\ c.amount \in Amounts

AccountsOK == account \in [Players -> Accounts]
SeatsOK == \A pos \in DOMAIN seats : Member(seats[pos].player)
HandsOK == DOMAIN hands \subseteq 1..handCount /\ \A h \in DOMAIN hands : HandOK(h)
EventsOK == \A e \in events : EventOK(e)
CommandsOK == \A c \in commands : CommandOK(c)
RejectionsOK == \A c \in rejections : c.type = "JoinTable" /\ c.player \in Players

BusInv ==
  /\ TP!IInv /\ AccountsOK /\ SeatsOK
  /\ HandsOK /\ EventsOK /\ CommandsOK /\ RejectionsOK

--------------------------------------------------------------------------------
(***************************************************************************)
(* What no step takes back                                                 *)
(***************************************************************************)
AccountsKept ==
  /\ AccountsOK'
  /\ \A p \in Players : account[p].exists = TRUE => account'[p].exists = TRUE

HandsKept ==
  /\ DOMAIN hands \subseteq DOMAIN hands'
  /\ \A h \in DOMAIN hands : hands[h].stage = "complete" => hands'[h] = hands[h]

TableKept ==
  \/ UNCHANGED <<hand, handCount>>
  \/ handCount' = handCount + 1 /\ hand'.root = handCount'

LEMMA SetsAccount ==
  ASSUME AccountsOK, NEW p \in Players, NEW s \in Accounts, SetAccount(p, s),
         account[p].exists = TRUE => s.exists = TRUE
  PROVE  AccountsKept
BY DEF AccountsOK, AccountsKept, SetAccount

LEMMA AccountsStay ==
  ASSUME BusInv, [Next]_vars
  PROVE  AccountsKept
<1>1. AccountsOK
  BY DEF BusInv
<1>2. \A p \in Players : account[p] \in Accounts
  BY <1>1 DEF AccountsOK
<1>3. CASE UNCHANGED account
  BY <1>1, <1>3 DEF AccountsOK, AccountsKept
<1>4. ASSUME NEW p \in Players, RegisterPlayer(p)
      PROVE  AccountsKept
  BY <1>1, <1>2, <1>4, Registering, SetsAccount DEF RegisterPlayer
<1>5. ASSUME NEW p \in Players, NEW amount \in Amounts, Deposit(p, amount)
      PROVE  AccountsKept
  BY <1>1, <1>2, <1>5, AmountsAssumption, Depositing, SetsAccount DEF Deposit
<1>6. ASSUME NEW p \in Players, NEW amount \in Amounts, BuyIn(p, amount)
      PROVE  AccountsKept
  BY <1>1, <1>2, <1>6, AmountsAssumption, Reserving, SetsAccount DEF BuyIn
<1>7. ASSUME NEW p \in Players, Release(p)
      PROVE  AccountsKept
  BY <1>1, <1>2, <1>7, Releasing, SetsAccount DEF Release
<1>8. ASSUME NEW c \in commands, HandleReleaseFunds(c)
      PROVE  AccountsKept
  <2>1. c.to \in Players
    BY <1>8 DEF BusInv, CommandsOK, CommandOK, HandleReleaseFunds
  <2>2. CASE UNCHANGED account
    BY <1>3, <2>2
  <2>3. CASE SetAccount(c.to, P!Apply(account[c.to], P!FundsReleased(account[c.to], c.root)))
    BY <1>1, <1>2, <2>1, <2>3, Releasing, SetsAccount
  <2> QED
    BY <1>8, <2>2, <2>3 DEF HandleReleaseFunds
<1>9. ASSUME NEW c \in commands, HandleDepositFunds(c)
      PROVE  AccountsKept
  <2>1. c.type = "DepositFunds" /\ CommandOK(c)
    BY <1>9 DEF BusInv, CommandsOK, HandleDepositFunds
  <2>2. /\ IsPaid(c.hand) /\ c.to \in DOMAIN hands[c.hand].paid
        /\ c = DepositOf(c.hand, c.to)
    BY <2>1 DEF CommandOK
  <2>3. c.amount = hands[c.hand].paid[c.to]
    BY <2>2 DEF DepositOf
  <2>4. c.to \in Players /\ c.amount \in Int
    BY <2>2, <2>3, AmountsAssumption DEF BusInv, HandsOK, HandOK, IsPaid, IsResult, Member
  <2>5. CASE UNCHANGED account
    BY <1>3, <2>5
  <2>6. CASE SetAccount(c.to, P!Apply(account[c.to], P!FundsDeposited(account[c.to], c.amount)))
    BY <1>1, <1>2, <2>4, <2>6, Depositing, SetsAccount
  <2> QED
    BY <1>9, <2>5, <2>6 DEF HandleDepositFunds
<1>10. ASSUME NEW c \in rejections, TableJoinRejected(c)
       PROVE  AccountsKept
  <2>1. c.player \in Players
    BY DEF BusInv, RejectionsOK
  <2> QED
    BY <1>1, <1>2, <1>10, <2>1, Releasing, SetsAccount DEF TableJoinRejected
<1>11. ASSUME Next
       PROVE  AccountsKept
  <2>1. ASSUME NEW p \in Players, LeaveTable(p)
        PROVE  UNCHANGED account
    BY <2>1 DEF LeaveTable, playerVars
  <2>2. CASE CreateTable \/ StartHand
    BY <1>3, <2>2 DEF CreateTable, StartHand, playerVars
  <2>3. ASSUME NEW h \in DOMAIN hands, SendEndHand(h)
        PROVE  UNCHANGED account
    BY <2>3 DEF SendEndHand, playerVars
  <2>4. ASSUME NEW h \in DOMAIN hands, NEW awards, AwardPot(h, awards)
        PROVE  UNCHANGED account
    BY <2>4 DEF AwardPot, playerVars
  <2>5. ASSUME NEW e \in events, React(e)
        PROVE  UNCHANGED account
    BY <2>5 DEF React, playerVars
  <2>6. ASSUME NEW c \in commands, Handle(c)
        PROVE  AccountsKept
    <3>1. CASE HandleDealCards(c) \/ HandleEndHand(c) \/ HandleJoinTable(c)
      BY <1>3, <3>1 DEF HandleDealCards, HandleEndHand, HandleJoinTable, playerVars
    <3> QED
      BY <1>8, <1>9, <2>6, <3>1 DEF Handle
  <2> QED
    BY <1>3, <1>4, <1>5, <1>6, <1>7, <1>10, <1>11, <2>1, <2>2, <2>3, <2>4, <2>5, <2>6 DEF Next
<1> QED
  BY <1>3, <1>11 DEF vars, playerVars

AwardStep ==
  \E h \in DOMAIN hands : \E awards \in Awards(DOMAIN hands[h].brought) : AwardPot(h, awards)

LEMMA HandsMove ==
  ASSUME [Next]_vars
  PROVE  UNCHANGED hands \/ AwardStep \/ \E c \in commands : HandleDealCards(c)
BY DEF Next, Handle, RegisterPlayer, Deposit, BuyIn, Release, LeaveTable, CreateTable, StartHand,
   SendEndHand, React, HandleEndHand, HandleReleaseFunds, HandleDepositFunds, HandleJoinTable,
   TableJoinRejected, AwardStep, vars

LEMMA EventsMove ==
  ASSUME [Next]_vars
  PROVE  events' \subseteq events \/ StartHand \/ AwardStep \/ \E c \in commands : HandleEndHand(c)
BY DEF Next, Handle, RegisterPlayer, Deposit, BuyIn, Release, LeaveTable, CreateTable,
   SendEndHand, React, HandleDealCards, HandleReleaseFunds, HandleDepositFunds, HandleJoinTable,
   TableJoinRejected, AwardStep, vars, busVars

LEMMA CommandsMove ==
  ASSUME [Next]_vars
  PROVE  \/ commands' \subseteq commands
         \/ \E p \in Players, amount \in Amounts : BuyIn(p, amount)
         \/ \E h \in DOMAIN hands : SendEndHand(h)
         \/ \E e \in events : React(e)
BY DEF Next, Handle, RegisterPlayer, Deposit, Release, LeaveTable, CreateTable, StartHand, AwardPot,
   HandleDealCards, HandleEndHand, HandleReleaseFunds, HandleDepositFunds, HandleJoinTable,
   TableJoinRejected, Done, vars, busVars

LEMMA RejectionsMove ==
  ASSUME [Next]_vars
  PROVE  rejections' \subseteq rejections \/ \E c \in commands : HandleJoinTable(c)
BY DEF Next, Handle, RegisterPlayer, Deposit, BuyIn, Release, LeaveTable, CreateTable, StartHand,
   AwardPot, SendEndHand, React, HandleDealCards, HandleEndHand, HandleReleaseFunds,
   HandleDepositFunds, TableJoinRejected, vars, busVars

\* The table moves by its own steps, and those who join are registered.
SystemTableStep ==
  \/ T!CreateTable
  \/ \E p \in Players, amount \in Amounts : Member(p) /\ T!JoinTable(p, amount, 0)
  \/ \E p \in Players : T!LeaveTable(p)
  \/ T!StartHand
  \/ \E root \in 1..handCount, won \in [Players -> Int] : T!EndHand(root, won)

LEMMA TableMoves ==
  ASSUME BusInv, [Next]_vars
  PROVE  SystemTableStep \/ UNCHANGED tableVars
<1>1. ASSUME NEW c \in commands, HandleJoinTable(c)
      PROVE  SystemTableStep \/ UNCHANGED tableVars
  <2>1. Member(c.player) /\ c.amount \in Amounts
    BY <1>1 DEF BusInv, CommandsOK, CommandOK, HandleJoinTable
  <2>2. c.player \in Players
    BY <2>1 DEF Member
  <2> QED
    BY <1>1, <2>1, <2>2 DEF HandleJoinTable, SystemTableStep
<1>2. ASSUME NEW c \in commands, HandleEndHand(c)
      PROVE  SystemTableStep \/ UNCHANGED tableVars
  <2> DEFINE won == [p \in Players |-> IF p \in DOMAIN c.winners THEN c.winners[p] ELSE 0]
  <2>1. CASE CanEndHand(c)
    <3>1. T!EndHand(c.hand, won)
      BY <1>2, <2>1 DEF HandleEndHand
    <3>2. IsResult(c.winners)
      BY <1>2 DEF BusInv, CommandsOK, CommandOK, HandleEndHand
    <3>3. won \in [Players -> Int]
      <4>1. ASSUME NEW p \in Players
            PROVE  (IF p \in DOMAIN c.winners THEN c.winners[p] ELSE 0) \in Int
        <5>1. CASE p \in DOMAIN c.winners
          BY <3>2, <5>1, AmountsAssumption DEF IsResult
        <5> QED
          BY <5>1
      <4> QED
        BY <4>1
    <3>4. c.hand = handCount /\ handCount \in Nat /\ handCount # 0
      BY <2>1, TableFacts DEF CanEndHand, T!CanEndHand, BusInv
    <3>5. c.hand \in 1..handCount
      BY <3>4
    <3> HIDE DEF won
    <3> QED
      BY <3>1, <3>3, <3>5 DEF SystemTableStep
  <2>2. CASE ~CanEndHand(c)
    BY <1>2, <2>2 DEF HandleEndHand
  <2> QED
    BY <2>1, <2>2
<1> QED
  BY <1>1, <1>2 DEF Next, Handle, RegisterPlayer, Deposit, BuyIn, Release, LeaveTable, CreateTable,
     StartHand, SendEndHand, React, AwardPot, HandleDealCards, HandleReleaseFunds,
     HandleDepositFunds, TableJoinRejected, SystemTableStep, vars

LEMMA TableIsSound ==
  ASSUME BusInv, [Next]_vars
  PROVE  TP!IInv'
BY TableMoves, TableStays DEF BusInv, SystemTableStep, TableStep

LEMMA TableIsKept ==
  ASSUME BusInv, [Next]_vars
  PROVE  TableKept
<1>1. TP!IInv
  BY DEF BusInv
<1>2. CASE T!CreateTable
  <2>1. ~exists /\ handCount' = 0 /\ UNCHANGED hand
    BY <1>2 DEF T!CreateTable
  <2> QED
    BY <1>1, <2>1, TableFacts DEF TableKept
<1>3. CASE T!StartHand
  <2>1. hand'.root = handCount + 1 /\ handCount' = hand'.root
    BY <1>3 DEF T!StartHand
  <2> QED
    BY <2>1 DEF TableKept
<1>4. ASSUME NEW p, NEW amount, T!JoinTable(p, amount, 0)
      PROVE  TableKept
  BY <1>4 DEF T!JoinTable, TableKept
<1>5. ASSUME NEW p, T!LeaveTable(p)
      PROVE  TableKept
  BY <1>5 DEF T!LeaveTable, TableKept
<1>6. ASSUME NEW root, NEW won, T!EndHand(root, won)
      PROVE  TableKept
  BY <1>6 DEF T!EndHand, TableKept
<1> QED
  BY <1>2, <1>3, <1>4, <1>5, <1>6, TableMoves DEF SystemTableStep, TableKept, tableVars

LEMMA MembersStay ==
  ASSUME AccountsKept, NEW p, Member(p)
  PROVE  Member(p)'
BY DEF Member, AccountsKept

LEMMA SeatsStay ==
  ASSUME BusInv, [Next]_vars
  PROVE  SeatsOK'
<1>1. AccountsKept /\ SeatsOK
  BY AccountsStay DEF BusInv
<1>2. CASE UNCHANGED seats
  BY <1>1, <1>2, MembersStay DEF SeatsOK
<1>3. ASSUME NEW p, NEW amount, Member(p), T!JoinTable(p, amount, 0)
      PROVE  SeatsOK'
  <2> DEFINE pos == T!seatFor(0)
  <2>1. seats' = [q \in DOMAIN seats \cup {pos} |->
                    IF q = pos THEN [player |-> p, stack |-> amount, sittingOut |-> FALSE]
                    ELSE seats[q]]
    BY <1>3 DEF T!JoinTable
  <2> HIDE DEF pos
  <2>2. \A q \in DOMAIN seats' : seats'[q].player = p \/ (q \in DOMAIN seats /\ seats'[q] = seats[q])
    BY <2>1
  <2> QED
    BY <1>1, <1>3, <2>2, MembersStay DEF SeatsOK
<1>4. ASSUME NEW p, T!LeaveTable(p)
      PROVE  SeatsOK'
  <2>1. \A q \in DOMAIN seats' : q \in DOMAIN seats /\ seats'[q] = seats[q]
    BY <1>4 DEF T!LeaveTable
  <2> QED
    BY <1>1, <2>1, MembersStay DEF SeatsOK
<1>5. ASSUME NEW root, NEW won, T!EndHand(root, won)
      PROVE  SeatsOK'
  <2>1. \A q \in DOMAIN seats : seats[q] \in SeatRecord
    BY TableFacts DEF BusInv
  <2>2. seats' = [q \in DOMAIN seats |->
                    [seats[q] EXCEPT !.stack = seats[q].stack + won[seats[q].player]]]
    BY <1>5 DEF T!EndHand
  <2>3. \A q \in DOMAIN seats' : q \in DOMAIN seats /\ seats'[q].player = seats[q].player
    BY <2>1, <2>2 DEF SeatRecord
  <2> QED
    BY <1>1, <2>3, MembersStay DEF SeatsOK
<1> QED
  BY <1>2, <1>3, <1>4, <1>5, TableMoves
  DEF SystemTableStep, T!CreateTable, T!StartHand, tableVars


--------------------------------------------------------------------------------
(***************************************************************************)
(* Hands                                                                   *)
(***************************************************************************)
LEMMA AwardEffect ==
  ASSUME BusInv, NEW h \in DOMAIN hands, NEW awards \in Awards(DOMAIN hands[h].brought),
         AwardPot(h, awards)
  PROVE  /\ DOMAIN hands' = DOMAIN hands
         /\ \A g \in DOMAIN hands \ {h} : hands'[g] = hands[g]
         /\ hands'[h] = [stage |-> "complete", table |-> hands[h].table,
                         brought |-> hands[h].brought, paid |-> awards]
         /\ DOMAIN awards \subseteq DOMAIN hands[h].brought
         /\ IsResult(awards)
<1> DEFINE x == hands[h]
           b == x.brought
           t == x.table
<1>1. HandOK(h)
  BY DEF BusInv, HandsOK
<1>2. x = [stage |-> x.stage, table |-> t, brought |-> b, paid |-> x.paid]
  BY <1>1 DEF HandOK, IsHand
<1>3. hands' = [hands EXCEPT ![h] = [x EXCEPT !.stage = "complete", !.paid = awards]]
  BY DEF AwardPot
<1>4. [x EXCEPT !.stage = "complete", !.paid = awards]
        = [stage |-> "complete", table |-> t, brought |-> b, paid |-> awards]
  <2> DEFINE y == [stage |-> x.stage, table |-> t, brought |-> b, paid |-> x.paid]
             z == [y EXCEPT !.stage = "complete"]
             w == [z EXCEPT !.paid = awards]
  <2>1. z = [stage |-> "complete", table |-> t, brought |-> b, paid |-> x.paid]
    OBVIOUS
  <2> HIDE DEF z
  <2>2. w = [stage |-> "complete", table |-> t, brought |-> b, paid |-> awards]
    BY <2>1
  <2> HIDE DEF w
  <2>4. w = [y EXCEPT !.stage = "complete", !.paid = awards]
    BY DEF w, z
  <2>3. x = y
    BY <1>2
  <2> HIDE DEF x, y, b, t
  <2> QED
    BY <2>2, <2>3, <2>4, Zenon
<1>5. DOMAIN awards \subseteq DOMAIN b /\ \A p \in DOMAIN awards : awards[p] \in Amounts
  BY DEF Awards
<1>6. IsResult(awards)
  BY <1>1, <1>5 DEF HandOK, IsResult
<1> QED
  BY <1>3, <1>4, <1>5, <1>6

LEMMA DealEffect ==
  ASSUME NEW c, HandleDealCards(c), CanDeal(c)
  PROVE  /\ DOMAIN hands' = DOMAIN hands \cup {c.to} /\ c.to \notin DOMAIN hands
         /\ \A g \in DOMAIN hands : hands'[g] = hands[g]
         /\ hands'[c.to] = [stage |-> "playing", table |-> c.table,
                            brought |-> StacksOf(c.players), paid |-> <<>>]
BY DEF HandleDealCards, CanDeal

LEMMA HandsStand ==
  ASSUME BusInv, [Next]_vars
  PROVE  HandsKept
<1>1. CASE UNCHANGED hands
  BY <1>1 DEF HandsKept
<1>2. CASE AwardStep
  <2>1. PICK h \in DOMAIN hands : \E a \in Awards(DOMAIN hands[h].brought) : AwardPot(h, a)
    BY <1>2 DEF AwardStep
  <2>2. PICK awards \in Awards(DOMAIN hands[h].brought) : AwardPot(h, awards)
    BY <2>1
  <2>3. hands[h].stage = "playing"
    BY <2>2 DEF AwardPot
  <2>4. DOMAIN hands' = DOMAIN hands /\ \A g \in DOMAIN hands \ {h} : hands'[g] = hands[g]
    BY <2>2, AwardEffect
  <2> QED
    BY <2>3, <2>4 DEF HandsKept
<1>3. ASSUME NEW c \in commands, HandleDealCards(c)
      PROVE  HandsKept
  <2>1. CASE CanDeal(c)
    BY <1>3, <2>1, DealEffect DEF HandsKept
  <2>2. CASE ~CanDeal(c)
    BY <1>1, <1>3, <2>2 DEF HandleDealCards
  <2> QED
    BY <2>1, <2>2
<1> QED
  BY <1>1, <1>2, <1>3, HandsMove

LEMMA OldHand ==
  ASSUME BusInv, AccountsKept, TableKept, NEW h \in DOMAIN hands,
         hands'[h].stage \in {"playing", "complete"}, IsHand(hands'[h]),
         hands'[h].brought = hands[h].brought,
         \/ hands'[h] = hands[h]
         \/ hands'[h].stage = "complete" /\ IsResult(hands'[h].paid)
  PROVE  HandOK(h)'
<1>1. HandOK(h) /\ h \in 1..handCount
  BY DEF BusInv, HandsOK
<1>2. \A p \in DOMAIN hands'[h].brought : Member(p)'
  BY <1>1, MembersStay DEF HandOK
<1>3. IsResult(hands'[h].paid)
  BY <1>1 DEF HandOK
<1>4. IsResult(hands[h].paid)'
  BY <1>3, MembersStay DEF IsResult
<1>5. hands'[h].stage = "playing" => DOMAIN hands'[h].paid = {}
  BY <1>1 DEF HandOK
<1>6. h = hand'.root => hand' = hand
  <2>1. handCount \in Nat
    BY TableFacts DEF BusInv
  <2> QED
    BY <1>1, <2>1 DEF TableKept
<1>7. h = hand'.root => hands'[h].brought = StacksOf(hand'.players)
  BY <1>1, <1>6 DEF HandOK
<1> QED
  BY <1>2, <1>4, <1>5, <1>7 DEF HandOK

LEMMA HandsStay ==
  ASSUME BusInv, [Next]_vars
  PROVE  HandsOK'
<1>1. AccountsKept /\ TableKept
  BY AccountsStay, TableIsKept
<1>2. \A h \in DOMAIN hands : HandOK(h) /\ IsHand(hands[h])
  BY DEF BusInv, HandsOK, HandOK
<1>3. 1..handCount \subseteq 1..handCount'
  <2>1. handCount \in Nat
    BY TableFacts DEF BusInv
  <2> QED
    BY <1>1, <2>1 DEF TableKept
<1>4. DOMAIN hands \subseteq 1..handCount
  BY DEF BusInv, HandsOK
<1>5. ASSUME NEW h \in DOMAIN hands, hands'[h] = hands[h]
      PROVE  HandOK(h)'
  <2>1. hands'[h].stage \in {"playing", "complete"}
    BY <1>2, <1>5 DEF HandOK
  <2> QED
    BY <1>1, <1>2, <1>5, <2>1, OldHand
<1>6. CASE UNCHANGED hands
  BY <1>3, <1>4, <1>5, <1>6 DEF HandsOK
<1>7. CASE AwardStep
  <2>1. PICK h \in DOMAIN hands : \E a \in Awards(DOMAIN hands[h].brought) : AwardPot(h, a)
    BY <1>7 DEF AwardStep
  <2>2. PICK awards \in Awards(DOMAIN hands[h].brought) : AwardPot(h, awards)
    BY <2>1
  <2>3. /\ DOMAIN hands' = DOMAIN hands
        /\ \A g \in DOMAIN hands \ {h} : hands'[g] = hands[g]
        /\ hands'[h] = [stage |-> "complete", table |-> hands[h].table,
                        brought |-> hands[h].brought, paid |-> awards]
        /\ IsResult(awards)
    BY <2>2, AwardEffect
  <2>4. /\ hands'[h].stage = "complete" /\ hands'[h].brought = hands[h].brought
        /\ hands'[h].paid = awards /\ IsHand(hands'[h])
    BY <2>3 DEF IsHand
  <2>5. HandOK(h)'
    BY <1>1, <2>3, <2>4, OldHand
  <2> QED
    BY <1>3, <1>4, <1>5, <2>3, <2>5 DEF HandsOK
<1>8. ASSUME NEW c \in commands, HandleDealCards(c), CanDeal(c)
      PROVE  HandsOK'
  <2>1. /\ DOMAIN hands' = DOMAIN hands \cup {c.to}
        /\ \A g \in DOMAIN hands : hands'[g] = hands[g]
        /\ hands'[c.to] = [stage |-> "playing", table |-> c.table,
                           brought |-> StacksOf(c.players), paid |-> <<>>]
    BY <1>8, DealEffect
  <2>2. c.to \in 1..handCount /\ IsDealing(c.players) /\ IsCurrent(c.to, c.players)
    BY <1>8 DEF BusInv, CommandsOK, CommandOK, HandleDealCards
  <2>3. UNCHANGED <<hand, account>>
    BY <1>8 DEF HandleDealCards, tableVars, playerVars
  <2>4. \A p \in DOMAIN StacksOf(c.players) : Member(p)'
    BY <2>2, <2>3 DEF StacksOf, IsDealing, Member
  <2>5. c.to = hand'.root => StacksOf(c.players) = StacksOf(hand'.players)
    BY <2>2, <2>3 DEF IsCurrent
  <2>6. /\ hands'[c.to].stage = "playing" /\ hands'[c.to].brought = StacksOf(c.players)
        /\ hands'[c.to].paid = <<>> /\ IsHand(hands'[c.to])
    BY <2>1 DEF IsHand
  <2>7. DOMAIN hands'[c.to].paid = {}
    BY <2>6
  <2>8. HandOK(c.to)'
    BY <2>4, <2>5, <2>6, <2>7 DEF HandOK, IsResult
  <2> QED
    BY <1>3, <1>4, <1>5, <2>1, <2>2, <2>8 DEF HandsOK
<1>9. ASSUME NEW c \in commands, HandleDealCards(c), ~CanDeal(c)
      PROVE  UNCHANGED hands
  BY <1>9 DEF HandleDealCards
<1> QED
  BY <1>6, <1>7, <1>8, <1>9, HandsMove


--------------------------------------------------------------------------------
(***************************************************************************)
(* Events and commands                                                     *)
(***************************************************************************)
Kept == AccountsKept /\ HandsKept /\ TableKept

LEMMA NothingIsTakenBack ==
  ASSUME BusInv, [Next]_vars
  PROVE  Kept
BY AccountsStay, HandsStand, TableIsKept DEF Kept

LEMMA DealingStays ==
  ASSUME BusInv, Kept, NEW root \in 1..handCount, NEW f, IsDealing(f), IsCurrent(root, f)
  PROVE  root \in 1..handCount' /\ IsDealing(f)' /\ IsCurrent(root, f)'
<1>1. handCount \in Nat
  BY TableFacts DEF BusInv
<1>2. root \in 1..handCount' /\ (root = hand'.root => hand' = hand)
  BY <1>1 DEF Kept, TableKept
<1>3. IsDealing(f)'
  BY MembersStay DEF IsDealing, Kept
<1> QED
  BY <1>2, <1>3 DEF IsCurrent

LEMMA ResultStays ==
  ASSUME AccountsKept, NEW w, IsResult(w)
  PROVE  IsResult(w)'
BY MembersStay DEF IsResult

LEMMA PaidStays ==
  ASSUME Kept, NEW h, IsPaid(h)
  PROVE  IsPaid(h)' /\ hands'[h] = hands[h]
BY DEF Kept, HandsKept, IsPaid

LEMMA EventStays ==
  ASSUME BusInv, Kept, NEW e, EventOK(e)
  PROVE  EventOK(e)'
<1>1. CASE /\ e.type = "HandStarted" /\ e.root \in 1..handCount
           /\ IsDealing(e.players) /\ IsCurrent(e.root, e.players)
  BY <1>1, DealingStays DEF EventOK
<1>2. CASE e.type \in {"HandComplete", "HandEnded"} /\ IsResult(e.winners)
  BY <1>2, ResultStays DEF EventOK, Kept
<1>3. CASE e.type = "PotAwarded" /\ IsPaid(e.root) /\ e = PotOf(e.root)
  <2>1. IsPaid(e.root)' /\ hands'[e.root] = hands[e.root]
    BY <1>3, PaidStays
  <2>2. PotOf(e.root)' = PotOf(e.root)
    BY <2>1 DEF PotOf
  <2> QED
    BY <1>3, <2>1, <2>2 DEF EventOK
<1> QED
  BY <1>1, <1>2, <1>3 DEF EventOK

LEMMA CommandStays ==
  ASSUME BusInv, Kept, NEW c, CommandOK(c)
  PROVE  CommandOK(c)'
<1>1. CASE /\ c.type = "DealCards" /\ c.to \in 1..handCount
           /\ IsDealing(c.players) /\ IsCurrent(c.to, c.players)
  BY <1>1, DealingStays DEF CommandOK
<1>2. CASE c.type = "EndHand" /\ IsResult(c.winners)
  BY <1>2, ResultStays DEF CommandOK, Kept
<1>3. CASE c.type = "ReleaseFunds" /\ c.to \in Players
  BY <1>3 DEF CommandOK
<1>4. CASE /\ c.type = "DepositFunds" /\ IsPaid(c.hand)
           /\ c.to \in DOMAIN hands[c.hand].paid /\ c = DepositOf(c.hand, c.to)
  <2>1. IsPaid(c.hand)' /\ hands'[c.hand] = hands[c.hand]
    BY <1>4, PaidStays
  <2>2. DepositOf(c.hand, c.to)' = DepositOf(c.hand, c.to)
    BY <2>1 DEF DepositOf
  <2> QED
    BY <1>4, <2>1, <2>2 DEF CommandOK
<1>5. CASE c.type = "JoinTable" /\ Member(c.player) /\ c.amount \in Amounts
  BY <1>5, MembersStay DEF CommandOK, Kept
<1> QED
  BY <1>1, <1>2, <1>3, <1>4, <1>5 DEF CommandOK

LEMMA EventsStay ==
  ASSUME BusInv, [Next]_vars
  PROVE  EventsOK'
<1>1. Kept
  BY NothingIsTakenBack
<1>2. \A e \in events : EventOK(e)'
  BY <1>1, EventStays DEF BusInv, EventsOK
<1>3. CASE StartHand
  <2>0. PICK e : e = [type |-> "HandStarted", root |-> hand'.root, players |-> hand'.players]
    OBVIOUS
  <2>00. PICK f : f = hand'.players
    OBVIOUS
  <2>1. /\ hand'.root = handCount + 1 /\ handCount' = hand'.root /\ UNCHANGED account
        /\ hand'.players = [pos \in T!ActivePositions |->
                             [player |-> seats[pos].player, stack |-> seats[pos].stack]]
    BY <1>3 DEF StartHand, T!StartHand, playerVars
  <2>2. /\ handCount \in Nat /\ DOMAIN seats \subseteq 0..(MaxPlayers - 1)
        /\ \A a, b \in DOMAIN seats : seats[a].player = seats[b].player => a = b
        /\ \A pos \in DOMAIN seats : Member(seats[pos].player)
    BY TableFacts DEF BusInv, SeatsOK
  <2>3. T!ActivePositions \subseteq DOMAIN seats
    BY DEF T!ActivePositions
  <2>4. IsDealing(f)'
    <3>1. DOMAIN f = T!ActivePositions /\ \A pos \in DOMAIN f : f[pos].player = seats[pos].player
      BY <2>00, <2>1
    <3>2. \A pos \in DOMAIN f : Member(f[pos].player)
      BY <2>2, <2>3, <3>1
    <3>3. \A pos \in DOMAIN f : Member(f[pos].player)'
      BY <1>1, <3>2, MembersStay DEF Kept
    <3>4. \A a, b \in DOMAIN f : f[a].player = f[b].player => a = b
      BY <2>2, <2>3, <3>1
    <3> QED
      BY <2>2, <2>3, <3>1, <3>3, <3>4 DEF IsDealing
  <2>5. EventOK(e)'
    BY <2>0, <2>00, <2>1, <2>2, <2>4 DEF EventOK, IsCurrent
  <2>6. events' = events \cup {e}
    BY <1>3, <2>0 DEF StartHand
  <2> QED
    BY <1>2, <2>5, <2>6 DEF EventsOK
<1>4. CASE AwardStep
  <2>1. PICK h \in DOMAIN hands : \E a \in Awards(DOMAIN hands[h].brought) : AwardPot(h, a)
    BY <1>4 DEF AwardStep
  <2>2. PICK awards \in Awards(DOMAIN hands[h].brought) : AwardPot(h, awards)
    BY <2>1
  <2>0. PICK pot, complete :
          /\ pot = [type |-> "PotAwarded", root |-> h, winners |-> awards]
          /\ complete = [type |-> "HandComplete", root |-> h, table |-> hands[h].table,
                         winners |-> awards]
    OBVIOUS
  <2>3. /\ DOMAIN hands' = DOMAIN hands
        /\ hands'[h].stage = "complete" /\ hands'[h].paid = awards
    <3>1. /\ DOMAIN hands' = DOMAIN hands
          /\ hands'[h] = [stage |-> "complete", table |-> hands[h].table,
                          brought |-> hands[h].brought, paid |-> awards]
      BY <2>2, AwardEffect, Zenon
    <3> QED
      BY <3>1
  <2>4. IsResult(awards)'
    BY <1>1, <2>2, AwardEffect, ResultStays DEF Kept
  <2>5. EventOK(pot)'
    BY <2>0, <2>3 DEF EventOK, IsPaid, PotOf
  <2>6. EventOK(complete)'
    BY <2>0, <2>4 DEF EventOK
  <2>7. events' = events \cup {pot, complete}
    BY <2>0, <2>2 DEF AwardPot
  <2> QED
    BY <1>2, <2>5, <2>6, <2>7 DEF EventsOK
<1>5. ASSUME NEW c \in commands, HandleEndHand(c)
      PROVE  EventsOK'
  <2> DEFINE e == [type |-> "HandEnded", root |-> c.hand, winners |-> c.winners]
  <2>1. IsResult(c.winners)
    BY <1>5 DEF BusInv, CommandsOK, CommandOK, HandleEndHand
  <2>2. IsResult(c.winners)'
    BY <1>1, <2>1, ResultStays DEF Kept
  <2>3. EventOK(e)'
    BY <2>2 DEF EventOK
  <2>4. events' \subseteq events \cup {e}
    BY <1>5 DEF HandleEndHand
  <2> QED
    BY <1>2, <2>3, <2>4 DEF EventsOK
<1> QED
  BY <1>2, <1>3, <1>4, <1>5, EventsMove DEF EventsOK

\* What a saga makes of a sound event are sound commands.
LEMMA ReactionsSound ==
  ASSUME NEW e, EventOK(e), NEW c \in Reactions(e)
  PROVE  CommandOK(c)
<1>1. CASE /\ e.type = "HandStarted" /\ e.root \in 1..handCount
           /\ IsDealing(e.players) /\ IsCurrent(e.root, e.players)
  <2>1. c = [type |-> "DealCards", to |-> e.root, table |-> e.root, players |-> e.players]
    BY <1>1 DEF Reactions, TableHand, HandFlowPM
  <2> QED
    BY <1>1, <2>1 DEF CommandOK
<1>2. CASE e.type = "HandComplete" /\ IsResult(e.winners)
  <2>1. c = [type |-> "EndHand", to |-> e.table, hand |-> e.root, winners |-> e.winners]
    BY <1>2 DEF Reactions, HandTable
  <2> QED
    BY <1>2, <2>1 DEF CommandOK
<1>3. CASE e.type = "HandEnded" /\ IsResult(e.winners)
  <2>1. PICK p \in DOMAIN e.winners :
          c = [type |-> "ReleaseFunds", to |-> p, hand |-> e.root, root |-> e.root]
    BY <1>3 DEF Reactions, TablePlayer
  <2> QED
    BY <1>3, <2>1 DEF CommandOK, IsResult, Member
<1>4. CASE e.type = "PotAwarded" /\ IsPaid(e.root) /\ e = PotOf(e.root)
  <2>1. PICK p \in DOMAIN e.winners :
          c = [type |-> "DepositFunds", to |-> p, hand |-> e.root, amount |-> e.winners[p]]
    BY <1>4 DEF Reactions, HandPlayer, HandFlowPM
  <2>2. e.winners = hands[e.root].paid
    BY <1>4 DEF PotOf
  <2>3. c.type = "DepositFunds" /\ c.hand = e.root /\ c.to = p
    BY <2>1
  <2>4. c = DepositOf(c.hand, c.to)
    BY <2>1, <2>2, <2>3 DEF DepositOf
  <2> QED
    BY <1>4, <2>1, <2>2, <2>3, <2>4 DEF CommandOK
<1> QED
  BY <1>1, <1>2, <1>3, <1>4 DEF EventOK

LEMMA CommandsStay ==
  ASSUME BusInv, [Next]_vars
  PROVE  CommandsOK'
<1>1. Kept
  BY NothingIsTakenBack
<1>2. \A c \in commands : CommandOK(c)'
  BY <1>1, CommandStays DEF BusInv, CommandsOK
<1>3. ASSUME NEW p \in Players, NEW amount \in Amounts, BuyIn(p, amount)
      PROVE  CommandsOK'
  <2>0. PICK c :
          c = [type |-> "JoinTable", player |-> p, amount |-> amount, nth |-> buyIns[p] + 1]
    OBVIOUS
  <2>1. account[p] \in Accounts /\ account[p].exists
    BY <1>3 DEF BuyIn, P!CanReserve, BusInv, AccountsOK
  <2>2. Member(p)
    BY <2>1 DEF Member, Accounts
  <2>3. Member(p)'
    BY <1>1, <2>2, MembersStay DEF Kept
  <2>4. CommandOK(c)'
    BY <2>0, <2>3 DEF CommandOK
  <2>5. commands' = commands \cup {c}
    BY <1>3, <2>0 DEF BuyIn
  <2> QED
    BY <1>2, <2>4, <2>5 DEF CommandsOK
<1>4. ASSUME NEW h \in DOMAIN hands, SendEndHand(h)
      PROVE  CommandsOK'
  <2>0. PICK c :
          c = [type |-> "EndHand", to |-> TableRoot, hand |-> h, winners |-> hands[h].paid]
    OBVIOUS
  <2>1. IsResult(hands[h].paid)
    BY DEF BusInv, HandsOK, HandOK
  <2>2. CommandOK(c)
    BY <2>0, <2>1 DEF CommandOK
  <2>3. CommandOK(c)'
    BY <1>1, <2>2, CommandStays
  <2>4. commands' = commands \cup {c}
    BY <1>4, <2>0 DEF SendEndHand
  <2> QED
    BY <1>2, <2>3, <2>4 DEF CommandsOK
<1>5. ASSUME NEW e \in events, React(e)
      PROVE  CommandsOK'
  <2>1. EventOK(e)
    BY DEF BusInv, EventsOK
  <2>2. \A c \in Reactions(e) : CommandOK(c)'
    BY <1>1, <2>1, ReactionsSound, CommandStays
  <2>3. commands' = commands \cup Reactions(e)
    BY <1>5 DEF React
  <2> QED
    BY <1>2, <2>2, <2>3 DEF CommandsOK
<1> QED
  BY <1>2, <1>3, <1>4, <1>5, CommandsMove DEF CommandsOK

LEMMA RejectionsStay ==
  ASSUME BusInv, [Next]_vars
  PROVE  RejectionsOK'
<1>1. ASSUME NEW c \in commands, HandleJoinTable(c)
      PROVE  RejectionsOK'
  <2>1. c.type = "JoinTable" /\ c.player \in Players
    BY <1>1 DEF BusInv, CommandsOK, CommandOK, HandleJoinTable, Member
  <2> QED
    BY <1>1, <2>1 DEF HandleJoinTable, BusInv, RejectionsOK
<1> QED
  BY <1>1, RejectionsMove DEF BusInv, RejectionsOK

LEMMA BusInvariance == Spec => []BusInv
<1>1. Init => BusInv
  <2> SUFFICES ASSUME Init PROVE BusInv
    OBVIOUS
  <2>1. TP!IInv
    BY TableStart DEF Init
  <2>2. AccountsOK
    BY NewAccount DEF Init, AccountsOK
  <2>3. DOMAIN seats = {}
    <3>1. seats = <<>>
      BY Zenon DEF Init, T!Init
    <3> QED
      BY <3>1
  <2> QED
    BY <2>1, <2>2, <2>3
    DEF Init, BusInv, SeatsOK, HandsOK, EventsOK, CommandsOK, RejectionsOK
<1>2. BusInv /\ [Next]_vars => BusInv'
  <2> SUFFICES ASSUME BusInv, [Next]_vars PROVE BusInv'
    OBVIOUS
  <2>1. AccountsOK'
    BY AccountsStay DEF AccountsKept
  <2> QED
    BY <2>1, TableIsSound, SeatsStay, HandsStay, EventsStay, CommandsStay, RejectionsStay DEF BusInv
<1> QED
  BY <1>1, <1>2, PTL DEF Spec


\* Whatever is on its way, the bus carries the events and commands of the
\* system, and no hand is dealt that was not started.
THEOREM TypeCorrect == Spec => []TypeOK
<1>1. BusInv => TypeOK
  <2> SUFFICES ASSUME BusInv PROVE TypeOK
    OBVIOUS
  <2>1. DOMAIN hands \subseteq HandRoots
    <3>1. handCount \in 0..MaxHands /\ DOMAIN hands \subseteq 1..handCount
      BY TableFacts DEF BusInv, HandsOK
    <3> QED
      BY <3>1, BoundsAssumption DEF HandRoots
  <2>2. \A h \in DOMAIN hands : hands[h].stage \in {"playing", "complete"}
    BY DEF BusInv, HandsOK, HandOK
  <2>3. \A e \in events : e.type \in EventTypes
    BY DEF BusInv, EventsOK, EventOK, EventTypes
  <2>4. \A c \in commands : c.type \in SagaCommands \cup {"JoinTable"}
    BY DEF BusInv, CommandsOK, CommandOK, SagaCommands
  <2> QED
    BY <2>1, <2>2, <2>3, <2>4 DEF TypeOK, BusInv, RejectionsOK
<1> QED
  BY BusInvariance, <1>1, PTL

\* However late and however often DealCards comes, the hand that the table
\* waits for was dealt to those who sit there, with the stacks they have there.
THEOREM DealtToTheSeated == Spec => []DealtFromTheTable
<1>1. BusInv => DealtFromTheTable
  <2> SUFFICES ASSUME BusInv, currentHand \in DOMAIN hands,
                      NEW p \in DOMAIN hands[currentHand].brought
               PROVE  \E pos \in DOMAIN seats :
                        seats[pos].player = p /\ seats[pos].stack = hands[currentHand].brought[p]
    BY DEF DealtFromTheTable
  <2>1. currentHand \in 1..handCount /\ HandOK(currentHand)
    BY DEF BusInv, HandsOK
  <2>2. currentHand # 0
    BY <2>1, TableFacts DEF BusInv
  <2>3. /\ currentHand = hand.root
        /\ \A pos \in DOMAIN hand.players :
             /\ pos \in DOMAIN seats
             /\ seats[pos].player = hand.players[pos].player
             /\ seats[pos].stack = hand.players[pos].stack
    BY <2>2, TableFacts DEF BusInv
  <2>4. hands[currentHand].brought = StacksOf(hand.players)
    BY <2>1, <2>3 DEF HandOK
  <2> DEFINE f == hand.players
             s == CHOOSE x \in {f[pos] : pos \in DOMAIN f} : x.player = p
  <2>5. p \in {f[pos].player : pos \in DOMAIN f} /\ StacksOf(f)[p] = s.stack
    BY <2>4 DEF StacksOf
  <2>6. s \in {f[pos] : pos \in DOMAIN f} /\ s.player = p
    <3>1. \E x \in {f[pos] : pos \in DOMAIN f} : x.player = p
      BY <2>5
    <3> QED
      BY <3>1
  <2>7. PICK pos \in DOMAIN f : s = f[pos]
    BY <2>6
  <2> QED
    BY <2>3, <2>4, <2>5, <2>6, <2>7
<1> QED
  BY BusInvariance, <1>1, PTL

\* As many players come to a hand as seats are dealt in.
LEMMA PlayersDealt ==
  ASSUME NEW f, IsDealing(f)
  PROVE  /\ \A p \in DOMAIN StacksOf(f) : p \in Players
         /\ Cardinality(DOMAIN StacksOf(f)) = Cardinality(DOMAIN f)
<1> DEFINE D == DOMAIN f
           R == {f[pos].player : pos \in D}
           who == [pos \in D |-> f[pos].player]
<1>1. DOMAIN StacksOf(f) = R
  BY DEF StacksOf
<1>2. IsFiniteSet(D)
  <2>1. IsFiniteSet(0..(MaxPlayers - 1))
    BY TableAssumption, FS_Interval
  <2> QED
    BY <2>1, FS_Subset DEF IsDealing
<1>3. who \in Surjection(D, R) /\ who \in Injection(D, R)
  BY DEF IsDealing, Surjection, Injection, IsInjective
<1>4. Cardinality(R) = Cardinality(D)
  <2> HIDE DEF D, R, who
  <2> QED
    BY <1>2, <1>3, FS_Surjection
<1>5. \A p \in R : p \in Players
  BY DEF IsDealing, Member
<1> QED
  BY <1>1, <1>4, <1>5

\* Every hand of the system keeps Payout's promise, which Hand.tla implements:
\* dealt once, to two players or more, and paid once, to players who brought
\* chips, no more than was brought.
THEOREM HandsPayOut == Spec => HandsArePayouts
<1>1. ASSUME NEW h, NEW f
      PROVE  PayoutOf(h)!Total(f) = Total(f)
  BY DEF Total, PayoutOf!Total, FoldFunction, PayoutOf!FoldFunction, FoldFunctionOnSet,
     PayoutOf!FoldFunctionOnSet, MapThenFoldSet, PayoutOf!MapThenFoldSet
<1>2. ASSUME NEW h, NEW S
      PROVE  PayoutOf(h)!Cardinality(S) = Cardinality(S)
  BY DEF Cardinality, PayoutOf!Cardinality
<1>3. BusInv /\ [Next]_vars =>
        [hands' # hands => \A h \in HandRoots : [PayoutOf(h)!Next]_(PayoutOf(h)!vars)]_hands
  <2> SUFFICES ASSUME BusInv, [Next]_vars, hands' # hands, NEW h \in HandRoots
               PROVE  [PayoutOf(h)!Next]_(PayoutOf(h)!vars)
    OBVIOUS
  <2>1. ASSUME (h \in DOMAIN hands') = (h \in DOMAIN hands),
               h \in DOMAIN hands => hands'[h] = hands[h]
        PROVE  UNCHANGED PayoutOf(h)!vars
    <3>1. TheHand(h)' = TheHand(h)
      BY <2>1 DEF TheHand, Blank
    <3> QED
      BY <3>1 DEF PayoutOf!vars
  <2>2. CASE AwardStep
    <3>1. PICK g \in DOMAIN hands : \E a \in Awards(DOMAIN hands[g].brought) : AwardPot(g, a)
      BY <2>2 DEF AwardStep
    <3>2. PICK awards \in Awards(DOMAIN hands[g].brought) : AwardPot(g, awards)
      BY <3>1
    <3>3. /\ DOMAIN hands' = DOMAIN hands
          /\ \A k \in DOMAIN hands \ {g} : hands'[k] = hands[k]
          /\ hands'[g] = [stage |-> "complete", table |-> hands[g].table,
                          brought |-> hands[g].brought, paid |-> awards]
          /\ DOMAIN awards \subseteq DOMAIN hands[g].brought
          /\ IsResult(awards)
      BY <3>2, AwardEffect, Zenon
    <3>4. CASE h # g
      BY <2>1, <3>3, <3>4
    <3>5. CASE h = g
      <4>1. /\ TheHand(h).stage = "playing" /\ TheHand(h)'.stage = "complete"
            /\ TheHand(h)'.brought = TheHand(h).brought /\ TheHand(h)'.paid = awards
            /\ TheHand(h).brought = hands[g].brought
        <5>1. TheHand(h) = hands[g] /\ TheHand(h)' = hands'[g]
          BY <3>3, <3>5 DEF TheHand
        <5>2. hands[g].stage = "playing"
          BY <3>2 DEF AwardPot
        <5>3. hands'[g] = [stage |-> "complete", table |-> hands[g].table,
                          brought |-> hands[g].brought, paid |-> awards]
          BY <3>3
        <5> QED
          BY ONLY <5>1, <5>2, <5>3
      <4>2. DOMAIN awards # {} /\ Total(awards) <= Total(hands[g].brought)
        BY <3>2, Zenon DEF AwardPot
      <4>3. PayoutOf(h)!MayPay(hands[g].brought, awards)
        BY <1>1, <3>3, <4>2 DEF PayoutOf!MayPay
      <4>4. \A p \in DOMAIN awards : awards[p] \in Amounts
        BY <3>3 DEF IsResult
      <4>5. PayoutOf(h)!Pay
        BY <4>1, <4>3, <4>4 DEF PayoutOf!Pay
      <4> QED
        BY <4>5 DEF PayoutOf!Next
    <3> QED
      BY <3>4, <3>5
  <2>3. ASSUME NEW c \in commands, HandleDealCards(c)
        PROVE  [PayoutOf(h)!Next]_(PayoutOf(h)!vars)
    <3>1. CanDeal(c)
      BY <2>3 DEF HandleDealCards
    <3>2. /\ DOMAIN hands' = DOMAIN hands \cup {c.to} /\ c.to \notin DOMAIN hands
          /\ \A g \in DOMAIN hands : hands'[g] = hands[g]
          /\ hands'[c.to] = [stage |-> "playing", table |-> c.table,
                             brought |-> StacksOf(c.players), paid |-> <<>>]
      BY <2>3, <3>1, DealEffect, Zenon
    <3>3. CASE h # c.to
      BY <2>1, <3>2, <3>3
    <3>4. CASE h = c.to
      <4>1. IsDealing(c.players)
        BY <2>3 DEF BusInv, CommandsOK, CommandOK, HandleDealCards
      <4>2. /\ \A p \in DOMAIN StacksOf(c.players) : p \in Players
            /\ Cardinality(DOMAIN StacksOf(c.players)) >= 2
        BY <3>1, <4>1, PlayersDealt DEF CanDeal
      <4>3. TheHand(h) = Blank /\ TheHand(h)' = hands'[c.to]
        BY <3>2, <3>4 DEF TheHand
      <4>4. /\ TheHand(h).stage = "none" /\ TheHand(h)'.stage = "playing"
            /\ TheHand(h)'.brought = StacksOf(c.players)
            /\ TheHand(h)'.paid = TheHand(h).paid
        BY <3>2, <4>3 DEF Blank
      <4>5. PayoutOf(h)!Deal
        BY <1>2, <4>2, <4>4 DEF PayoutOf!Deal
      <4> QED
        BY <4>5 DEF PayoutOf!Next
    <3> QED
      BY <3>3, <3>4
  <2> QED
    BY <2>2, <2>3, HandsMove
<1> QED
  BY BusInvariance, <1>3, PTL DEF Spec, HandsArePayouts

--------------------------------------------------------------------------------
(***************************************************************************)
(* The players' bankrolls.  A prize is in the event, in a deposit on its   *)
(* way, or credited.                                                       *)
(***************************************************************************)
Credited(h, p) ==
  IF PotEvents(h) = {} /\ Deposits(h, p) = {} THEN Won(h, p) ELSE 0
CreditsOf(p) == [h \in HandRoots |-> Credited(h, p)]

Balanced == \A p \in Players : account[p].bankroll = deposited[p] + Total(CreditsOf(p))

PaidOneWay ==
  \A e \in events, c \in commands :
    e.type = "PotAwarded" /\ c.type = "DepositFunds" => e.root # c.hand

DepositsCounted ==
  deposited \in [Players -> Int] /\ \A p \in Players : deposited[p] \in 0..ChipSupply

EmptyBeforeRegistration ==
  \A p \in Players : account[p].exists # TRUE => account[p].bankroll = 0

BooksInv ==
  BusInv /\ PaidOneWay /\ DepositsCounted /\ EmptyBeforeRegistration /\ Balanced

\* Prizes are not negative, and no account can be paid more than int64 holds.
PrizesFit ==
  /\ Amounts \subseteq Nat
  /\ \A prizes \in [HandRoots -> Amounts \cup {0}] : ChipSupply + Total(prizes) <= MaxInt

LEMMA PotEventsKnown ==
  ASSUME BusInv, NEW h
  PROVE  PotEvents(h) = {} \/ (IsPaid(h) /\ PotEvents(h) = {PotOf(h)})
<1>1. \A e \in PotEvents(h) : IsPaid(h) /\ e = PotOf(h)
  BY DEF PotEvents, BusInv, EventsOK, EventOK
<1> QED
  BY <1>1

LEMMA DepositsKnown ==
  ASSUME BusInv, NEW h, NEW p
  PROVE  \/ Deposits(h, p) = {}
         \/ /\ IsPaid(h) /\ p \in DOMAIN hands[h].paid
            /\ Deposits(h, p) = {DepositOf(h, p)}
<1>1. \A c \in Deposits(h, p) :
        IsPaid(h) /\ p \in DOMAIN hands[h].paid /\ c = DepositOf(h, p)
  BY DEF Deposits, BusInv, CommandsOK, CommandOK
<1> QED
  BY <1>1

LEMMA WonIsAmount ==
  ASSUME BusInv, NEW h, NEW p
  PROVE  Won(h, p) \in Amounts \cup {0} /\ Won(h, p) \in Int
<1>1. Won(h, p) \in Amounts \cup {0}
  BY DEF Won, Prize, BusInv, HandsOK, HandOK, IsResult
<1>2. \A x \in Amounts \cup {0} : x \in Int
  BY AmountsAssumption
<1> QED
  BY ONLY <1>1, <1>2

LEMMA TotalOfOne ==
  ASSUME NEW d, NEW f \in [{d} -> Int]
  PROVE  Total(f) = f[d]
<1> DEFINE g == [x \in {d} |-> 0]
<1>1. IsFiniteSet({d})
  BY FS_Singleton
<1>2. g \in [{d} -> Int]
  OBVIOUS
<1>3. TotalOn(f, {d}) = f[d] + TotalOn(f, {d} \ {d})
  BY <1>1, AnyOrder
<1>4. TotalOn(f, {}) = 0
  BY TotalOnStep, FS_EmptySet
<1> QED
  BY <1>3, <1>4, TotalIsOnDomain

LEMMA AnnouncedKnown ==
  ASSUME BusInv, NEW h, NEW p
  PROVE  Announced(h, p) = IF PotEvents(h) = {} THEN 0 ELSE Won(h, p)
<1> DEFINE f == [e \in PotEvents(h) |-> Prize(e.winners, p)]
<1>1. CASE PotEvents(h) = {}
  BY <1>1, TotalEmpty DEF Announced
<1>2. CASE IsPaid(h) /\ PotEvents(h) = {PotOf(h)}
  <2> DEFINE d == PotOf(h)
  <2>1. f[d] = Won(h, p) /\ DOMAIN f = {d}
    BY <1>2 DEF PotOf, Won, IsPaid
  <2>2. f \in [{d} -> Int]
    BY <1>2, <2>1, WonIsAmount
  <2> HIDE DEF d
  <2>3. Total(f) = f[d]
    BY <2>2, TotalOfOne
  <2> QED
    BY <1>2, <2>1, <2>3 DEF Announced
<1> QED
  BY <1>1, <1>2, PotEventsKnown

LEMMA TravellingKnown ==
  ASSUME BusInv, NEW h, NEW p
  PROVE  Travelling(h, p) = IF Deposits(h, p) = {} THEN 0 ELSE Won(h, p)
<1> DEFINE f == [c \in Deposits(h, p) |-> c.amount]
<1>1. CASE Deposits(h, p) = {}
  BY <1>1, TotalEmpty DEF Travelling
<1>2. CASE /\ IsPaid(h) /\ p \in DOMAIN hands[h].paid
           /\ Deposits(h, p) = {DepositOf(h, p)}
  <2> DEFINE d == DepositOf(h, p)
  <2>1. f[d] = Won(h, p) /\ DOMAIN f = {d}
    BY <1>2 DEF DepositOf, Won, Prize, IsPaid
  <2>2. f \in [{d} -> Int]
    BY <1>2, <2>1, WonIsAmount
  <2> HIDE DEF d
  <2>3. Total(f) = f[d]
    BY <2>2, TotalOfOne
  <2> QED
    BY <1>2, <2>1, <2>3 DEF Travelling
<1> QED
  BY <1>1, <1>2, DepositsKnown

LEMMA TotalOfZeros == Total([h \in HandRoots |-> 0]) = 0
<1> DEFINE f == [h \in HandRoots |-> 0]
<1>1. IsFiniteSet(HandRoots)
  BY FS_Interval, BoundsAssumption DEF HandRoots
<1>2. f \in [HandRoots -> Int] /\ HandRoots \in SUBSET HandRoots
  OBVIOUS
<1>3. HandsOut(HandRoots, f, f, f)
  BY DEF HandsOut, Share
<1> HIDE DEF f
<1>4. Total(f) \in Int /\ Total(f) = Total(f) + Total(f)
  BY <1>1, <1>2, <1>3, TotalAdds, TotalInt
<1>5. \A x \in Int : x = x + x => x = 0
  OBVIOUS
<1>6. Total(f) = 0
  BY <1>4, <1>5, Zenon
<1> QED
  BY <1>6 DEF f

\* What is neither announced nor travelling of a prize has been credited.
LEMMA BalancedIsPaidOnce ==
  ASSUME BusInv, PaidOneWay, Balanced
  PROVE  WinningsPaidOnce
<1>1. ASSUME NEW h, NEW p
      PROVE  Won(h, p) - Announced(h, p) - Travelling(h, p) = Credited(h, p)
  <2>1. ~(PotEvents(h) # {} /\ Deposits(h, p) # {})
    BY DEF PaidOneWay, PotEvents, Deposits
  <2>2. Won(h, p) \in Int
    BY WonIsAmount
  <2> QED
    BY <2>1, <2>2, AnnouncedKnown, TravellingKnown DEF Credited
<1>2. ASSUME NEW p \in Players
      PROVE  [h \in HandRoots |-> Won(h, p) - Announced(h, p) - Travelling(h, p)] = CreditsOf(p)
  BY <1>1 DEF CreditsOf
<1> DEFINE due(p) == [h \in HandRoots |-> Won(h, p) - Announced(h, p) - Travelling(h, p)]
<1>3. ASSUME NEW p \in Players
      PROVE  account[p].bankroll = deposited[p] + Total(due(p))
  <2>1. account[p].bankroll = deposited[p] + Total(CreditsOf(p))
    BY DEF Balanced
  <2>2. due(p) = CreditsOf(p)
    BY <1>2
  <2> HIDE DEF due
  <2> QED
    BY <2>1, <2>2
<1> QED
  BY <1>3, Zenon DEF WinningsPaidOnce

(***************************************************************************)
(* What moves a prize                                                      *)
(***************************************************************************)
PotStep == \E e \in events : e.type = "PotAwarded" /\ React(e)
DepositStep == \E c \in commands : HandleDepositFunds(c)

LEMMA EventsChange ==
  ASSUME [Next]_vars
  PROVE  \/ UNCHANGED events \/ StartHand \/ AwardStep
         \/ \E c \in commands : HandleEndHand(c)
         \/ \E e \in events : React(e)
BY DEF Next, Handle, RegisterPlayer, Deposit, BuyIn, Release, LeaveTable, CreateTable,
   SendEndHand, HandleDealCards, HandleReleaseFunds, HandleDepositFunds, HandleJoinTable,
   TableJoinRejected, AwardStep, vars, busVars

LEMMA CommandsChange ==
  ASSUME [Next]_vars
  PROVE  \/ UNCHANGED commands
         \/ DepositStep
         \/ \E c \in commands : c.type # "DepositFunds" /\ commands' = commands \ {c}
         \/ \E p \in Players, amount \in Amounts : BuyIn(p, amount)
         \/ \E h \in DOMAIN hands : SendEndHand(h)
         \/ \E e \in events : React(e)
BY DEF Next, Handle, RegisterPlayer, Deposit, Release, LeaveTable, CreateTable, StartHand, AwardPot,
   HandleDealCards, HandleEndHand, HandleReleaseFunds, HandleJoinTable,
   TableJoinRejected, Done, DepositStep, vars, busVars

LEMMA PotsChange ==
  ASSUME [Next]_vars, ~PotStep, NEW h
  PROVE  \/ PotEvents(h)' = PotEvents(h)
         \/ h \in DOMAIN hands /\ \E awards \in Awards(DOMAIN hands[h].brought) : AwardPot(h, awards)
<1>1. CASE UNCHANGED events
  BY <1>1 DEF PotEvents
<1>2. CASE StartHand
  <2>1. \E e : e.type = "HandStarted" /\ events' = events \cup {e}
    BY <1>2 DEF StartHand
  <2> QED
    BY <2>1 DEF PotEvents
<1>3. ASSUME NEW c, HandleEndHand(c)
      PROVE  PotEvents(h)' = PotEvents(h)
  <2>1. events' = events \/ \E e : e.type = "HandEnded" /\ events' = events \cup {e}
    BY <1>3 DEF HandleEndHand
  <2> QED
    BY <2>1 DEF PotEvents
<1>4. ASSUME NEW e \in events, React(e)
      PROVE  PotEvents(h)' = PotEvents(h)
  <2>1. e.type # "PotAwarded"
    BY <1>4 DEF PotStep
  <2>2. events' = events \/ events' = events \ {e}
    BY <1>4 DEF React
  <2> QED
    BY <2>1, <2>2 DEF PotEvents
<1>5. ASSUME NEW g \in DOMAIN hands, g # h,
             NEW awards \in Awards(DOMAIN hands[g].brought), AwardPot(g, awards)
      PROVE  PotEvents(h)' = PotEvents(h)
  <2>1. \E a, b : /\ a.root = g /\ b.type = "HandComplete"
                  /\ events' = events \cup {a, b}
    BY <1>5 DEF AwardPot
  <2> QED
    BY <1>5, <2>1 DEF PotEvents
<1> QED
  BY <1>1, <1>2, <1>3, <1>4, <1>5, EventsChange DEF AwardStep

LEMMA DepositsChange ==
  ASSUME BusInv, [Next]_vars, ~PotStep, ~DepositStep, NEW h, NEW p
  PROVE  Deposits(h, p)' = Deposits(h, p)
<1>1. CASE UNCHANGED commands
  BY <1>1 DEF Deposits
<1>2. ASSUME NEW c \in commands, c.type # "DepositFunds", commands' = commands \ {c}
      PROVE  Deposits(h, p)' = Deposits(h, p)
  BY <1>2 DEF Deposits
<1>3. ASSUME NEW q, NEW amount, BuyIn(q, amount)
      PROVE  Deposits(h, p)' = Deposits(h, p)
  <2>1. \E c : c.type = "JoinTable" /\ commands' = commands \cup {c}
    BY <1>3 DEF BuyIn
  <2> QED
    BY <2>1 DEF Deposits
<1>4. ASSUME NEW g, SendEndHand(g)
      PROVE  Deposits(h, p)' = Deposits(h, p)
  <2>1. \E c : c.type = "EndHand" /\ commands' = commands \cup {c}
    BY <1>4 DEF SendEndHand
  <2> QED
    BY <2>1 DEF Deposits
<1>5. ASSUME NEW e \in events, React(e)
      PROVE  Deposits(h, p)' = Deposits(h, p)
  <2>1. e.type \in {"HandStarted", "HandComplete", "HandEnded"}
    BY <1>5 DEF PotStep, BusInv, EventsOK, EventOK
  <2>2. \A c \in Reactions(e) : c.type # "DepositFunds"
    BY <2>1 DEF Reactions, TableHand, HandTable, TablePlayer, HandFlowPM
  <2>3. commands' = commands \cup Reactions(e)
    BY <1>5 DEF React
  <2> QED
    BY <2>2, <2>3 DEF Deposits
<1> QED
  BY <1>1, <1>2, <1>3, <1>4, <1>5, CommandsChange

LEMMA WonChange ==
  ASSUME BusInv, [Next]_vars, NEW h, NEW p
  PROVE  \/ Won(h, p)' = Won(h, p)
         \/ h \in DOMAIN hands /\ \E awards \in Awards(DOMAIN hands[h].brought) : AwardPot(h, awards)
<1>1. CASE UNCHANGED hands
  BY <1>1 DEF Won
<1>2. ASSUME NEW g \in DOMAIN hands, g # h,
             NEW awards \in Awards(DOMAIN hands[g].brought), AwardPot(g, awards)
      PROVE  Won(h, p)' = Won(h, p)
  <2>1. DOMAIN hands' = DOMAIN hands /\ \A k \in DOMAIN hands \ {g} : hands'[k] = hands[k]
    BY <1>2, AwardEffect
  <2> QED
    BY <1>2, <2>1 DEF Won
<1>3. ASSUME NEW c, HandleDealCards(c), CanDeal(c)
      PROVE  Won(h, p)' = Won(h, p)
  <2>1. /\ DOMAIN hands' = DOMAIN hands \cup {c.to} /\ c.to \notin DOMAIN hands
        /\ \A g \in DOMAIN hands : hands'[g] = hands[g]
        /\ hands'[c.to] = [stage |-> "playing", table |-> c.table,
                           brought |-> StacksOf(c.players), paid |-> <<>>]
    BY <1>3, DealEffect, Zenon
  <2>2. hands'[c.to].paid = <<>>
    BY <2>1
  <2>3. Prize(hands'[c.to].paid, p) = 0
    BY <2>2 DEF Prize
  <2> QED
    BY <2>1, <2>3 DEF Won
<1>4. ASSUME NEW c, HandleDealCards(c), ~CanDeal(c)
      PROVE  UNCHANGED hands
  BY <1>4 DEF HandleDealCards
<1> QED
  BY <1>1, <1>2, <1>3, <1>4, HandsMove DEF AwardStep

LEMMA AwardCreditsNothing ==
  ASSUME BusInv, NEW h \in DOMAIN hands, NEW p,
         NEW awards \in Awards(DOMAIN hands[h].brought), AwardPot(h, awards)
  PROVE  Credited(h, p) = 0 /\ Credited(h, p)' = 0 /\ ~IsPaid(h)
<1>1. hands[h].stage = "playing"
  BY DEF AwardPot
<1>2. ~IsPaid(h) /\ Won(h, p) = 0
  BY <1>1 DEF IsPaid, Won, Prize, BusInv, HandsOK, HandOK
<1>3. PICK e : e.type = "PotAwarded" /\ e.root = h /\ e \in events'
  <2> DEFINE a == [type |-> "PotAwarded", root |-> h, winners |-> awards]
  <2>1. a.type = "PotAwarded" /\ a.root = h
    OBVIOUS
  <2>2. a \in events'
    BY DEF AwardPot
  <2> HIDE DEF a
  <2> QED
    BY <2>1, <2>2
<1>4. PotEvents(h)' # {}
  BY <1>3 DEF PotEvents
<1> QED
  BY <1>2, <1>4 DEF Credited

LEMMA PotStepEffect ==
  ASSUME BusInv, "PotAwarded" \notin Redelivered, NEW e \in events, e.type = "PotAwarded", React(e)
  PROVE  /\ IsPaid(e.root) /\ e = PotOf(e.root) /\ UNCHANGED hands
         /\ events' = events \ {e}
         /\ commands' = commands \cup {DepositOf(e.root, p) : p \in DOMAIN hands[e.root].paid}
<1>1. IsPaid(e.root) /\ e = PotOf(e.root)
  BY DEF BusInv, EventsOK, EventOK
<1>2. UNCHANGED hands /\ events' = events \ {e} /\ commands' = commands \cup Reactions(e)
  BY DEF React
<1>3. e.winners = hands[e.root].paid
  BY <1>1 DEF PotOf
<1>4. Reactions(e) = {DepositOf(e.root, p) : p \in DOMAIN hands[e.root].paid}
  BY <1>3 DEF Reactions, HandPlayer, HandFlowPM, DepositOf
<1> QED
  BY <1>1, <1>2, <1>4

LEMMA PotStepElsewhere ==
  ASSUME BusInv, "PotAwarded" \notin Redelivered, NEW e \in events, e.type = "PotAwarded", React(e),
         NEW h, NEW p, h # e.root
  PROVE  PotEvents(h)' = PotEvents(h) /\ Deposits(h, p)' = Deposits(h, p)
<1>1. /\ IsPaid(e.root) /\ e = PotOf(e.root) /\ UNCHANGED hands
      /\ events' = events \ {e}
      /\ commands' = commands \cup {DepositOf(e.root, q) : q \in DOMAIN hands[e.root].paid}
  BY PotStepEffect
<1>2. \A q : DepositOf(e.root, q).hand = e.root
  BY DEF DepositOf
<1>3. PotEvents(h)' = PotEvents(h)
  BY <1>1 DEF PotEvents
<1>4. Deposits(h, p)' = Deposits(h, p)
  BY <1>1, <1>2 DEF Deposits
<1> QED
  BY <1>3, <1>4

\* A prize that the saga passes on is on its way before and after.
LEMMA PotStepCreditsNothing ==
  ASSUME BusInv, "PotAwarded" \notin Redelivered, NEW e \in events, e.type = "PotAwarded", React(e),
         NEW h, NEW p
  PROVE  Credited(h, p)' = Credited(h, p)
<1>1. /\ IsPaid(e.root) /\ e = PotOf(e.root) /\ UNCHANGED hands
      /\ events' = events \ {e}
      /\ commands' = commands \cup {DepositOf(e.root, q) : q \in DOMAIN hands[e.root].paid}
  BY PotStepEffect
<1>2. Won(h, p)' = Won(h, p)
  BY <1>1 DEF Won
<1>3. \A q : /\ DepositOf(e.root, q).type = "DepositFunds"
             /\ DepositOf(e.root, q).hand = e.root /\ DepositOf(e.root, q).to = q
  BY DEF DepositOf
<1>4. CASE h # e.root
  BY <1>2, <1>4, PotStepElsewhere DEF Credited
<1>5. CASE h = e.root
  <2>1. PotEvents(h) # {}
    BY <1>5 DEF PotEvents
  <2>2. CASE p \in DOMAIN hands[h].paid
    <3>1. DepositOf(e.root, p) \in commands'
      BY <1>1, <1>5, <2>2
    <3>2. Deposits(h, p)' # {}
      BY <1>3, <1>5, <3>1 DEF Deposits
    <3> QED
      BY <2>1, <3>2 DEF Credited
  <2>3. CASE p \notin DOMAIN hands[h].paid
    <3>1. Won(h, p) = 0
      BY <2>3 DEF Won, Prize
    <3> QED
      BY <1>2, <2>1, <3>1 DEF Credited
  <2> QED
    BY <2>2, <2>3
<1> QED
  BY <1>4, <1>5

\* Nothing but a deposit credits a prize.
LEMMA CreditsStay ==
  ASSUME BusInv, [Next]_vars, "PotAwarded" \notin Redelivered, ~DepositStep, NEW h, NEW p
  PROVE  Credited(h, p)' = Credited(h, p)
<1>1. CASE PotStep
  BY <1>1, PotStepCreditsNothing DEF PotStep
<1>2. ASSUME h \in DOMAIN hands,
             NEW awards \in Awards(DOMAIN hands[h].brought), AwardPot(h, awards)
      PROVE  Credited(h, p)' = Credited(h, p)
  BY <1>2, AwardCreditsNothing
<1>3. CASE /\ PotEvents(h)' = PotEvents(h) /\ Deposits(h, p)' = Deposits(h, p)
           /\ Won(h, p)' = Won(h, p)
  BY <1>3 DEF Credited
<1> QED
  BY <1>1, <1>2, <1>3, PotsChange, DepositsChange, WonChange

LEMMA DepositCredits ==
  ASSUME BusInv, PaidOneWay, NEW c \in commands, HandleDepositFunds(c)
  PROVE  /\ c.hand \in HandRoots /\ Member(c.to) /\ c.amount \in Amounts
         /\ Credited(c.hand, c.to) = 0 /\ Credited(c.hand, c.to)' = c.amount
         /\ \A h, p : h # c.hand \/ p # c.to => Credited(h, p)' = Credited(h, p)
<1>1. c.type = "DepositFunds" /\ UNCHANGED <<hands, events>> /\ commands' = commands \ {c}
  BY DEF HandleDepositFunds, Done
<1>2. /\ IsPaid(c.hand) /\ c.to \in DOMAIN hands[c.hand].paid
      /\ c = DepositOf(c.hand, c.to)
  BY <1>1 DEF BusInv, CommandsOK, CommandOK
<1>3. c.amount = Won(c.hand, c.to)
  BY <1>2 DEF DepositOf, Won, Prize, IsPaid
<1>4. c.hand \in HandRoots
  <2>1. handCount \in 0..MaxHands /\ c.hand \in 1..handCount
    BY <1>2, TableFacts DEF BusInv, HandsOK, IsPaid
  <2> QED
    BY <2>1, BoundsAssumption DEF HandRoots
<1>5. Member(c.to) /\ c.amount \in Amounts
  <2>1. c.amount = hands[c.hand].paid[c.to]
    BY <1>2 DEF DepositOf
  <2> QED
    BY <1>2, <2>1 DEF BusInv, HandsOK, HandOK, IsResult, IsPaid
<1>6. Credited(c.hand, c.to) = 0
  BY <1>1 DEF Credited, Deposits
<1>7. PotEvents(c.hand) = {}
  BY <1>1 DEF PaidOneWay, PotEvents
<1>8. Deposits(c.hand, c.to)' = {}
  <2>1. Deposits(c.hand, c.to) = {c}
    <3>1. c \in Deposits(c.hand, c.to)
      BY <1>1 DEF Deposits
    <3> QED
      BY <1>2, <3>1, DepositsKnown
  <2> QED
    BY <1>1, <2>1 DEF Deposits
<1>9. \A h, p : PotEvents(h)' = PotEvents(h) /\ Won(h, p)' = Won(h, p)
  BY <1>1 DEF PotEvents, Won
<1>10. Credited(c.hand, c.to)' = c.amount
  BY <1>3, <1>7, <1>8, <1>9 DEF Credited
<1>11. ASSUME NEW h, NEW p, h # c.hand \/ p # c.to
       PROVE  Credited(h, p)' = Credited(h, p)
  <2>1. Deposits(h, p)' = Deposits(h, p)
    BY <1>1, <1>11 DEF Deposits
  <2> QED
    BY <1>9, <2>1 DEF Credited
<1> QED
  BY <1>4, <1>5, <1>6, <1>10, <1>11

LEMMA OneWayByPair ==
  /\ PaidOneWay <=> \A h, p : PotEvents(h) = {} \/ Deposits(h, p) = {}
  /\ PaidOneWay' <=> \A h, p : PotEvents(h)' = {} \/ Deposits(h, p)' = {}
BY DEF PaidOneWay, PotEvents, Deposits

\* No deposit of a prize waits before its event is gone.
LEMMA OneWayStays ==
  ASSUME BusInv, PaidOneWay, [Next]_vars, "PotAwarded" \notin Redelivered
  PROVE  PaidOneWay'
<1> SUFFICES ASSUME NEW h, NEW p
             PROVE  PotEvents(h)' = {} \/ Deposits(h, p)' = {}
  BY OneWayByPair
<1>1. PotEvents(h) = {} \/ Deposits(h, p) = {}
  BY OneWayByPair
<1>2. ASSUME NEW e \in events, e.type = "PotAwarded", React(e)
      PROVE  PotEvents(h)' = {} \/ Deposits(h, p)' = {}
  <2>1. CASE h = e.root
    <3>1. e = PotOf(h) /\ events' = events \ {e}
      BY <1>2, <2>1, PotStepEffect
    <3>2. PotEvents(h) \subseteq {e}
      BY <3>1, PotEventsKnown
    <3> QED
      BY <3>1, <3>2 DEF PotEvents
  <2> QED
    BY <1>1, <1>2, <2>1, PotStepElsewhere
<1>3. ASSUME NEW c \in commands, HandleDepositFunds(c)
      PROVE  PotEvents(h)' = {} \/ Deposits(h, p)' = {}
  <2>1. UNCHANGED events /\ commands' \subseteq commands
    BY <1>3 DEF HandleDepositFunds, Done
  <2> QED
    BY <1>1, <2>1 DEF PotEvents, Deposits
<1>4. ASSUME ~PotStep, ~DepositStep
      PROVE  PotEvents(h)' = {} \/ Deposits(h, p)' = {}
  <2>1. Deposits(h, p)' = Deposits(h, p)
    BY <1>4, DepositsChange
  <2>2. ASSUME h \in DOMAIN hands,
               NEW awards \in Awards(DOMAIN hands[h].brought), AwardPot(h, awards)
        PROVE  Deposits(h, p) = {}
    BY <2>2, AwardCreditsNothing, DepositsKnown
  <2> QED
    BY <1>1, <1>4, <2>1, <2>2, PotsChange
<1> QED
  BY <1>2, <1>3, <1>4 DEF PotStep, DepositStep

--------------------------------------------------------------------------------
(***************************************************************************)
(* What moves a bankroll                                                   *)
(***************************************************************************)
LEMMA SetsOne ==
  ASSUME AccountsOK, NEW p \in Players, NEW s, SetAccount(p, s)
  PROVE  account'[p] = s /\ \A q \in Players \ {p} : account'[q] = account[q]
BY DEF AccountsOK, SetAccount

\* q's account changes at p by a step that leaves its bankroll alone.
LEMMA SameBankroll ==
  ASSUME AccountsOK, NEW q \in Players, NEW s, SetAccount(q, s),
         s.bankroll = account[q].bankroll, NEW p \in Players
  PROVE  account'[p].bankroll = account[p].bankroll
BY SetsOne

BankrollStands(p) == account'[p].bankroll = account[p].bankroll /\ deposited'[p] = deposited[p]

LEMMA BankrollMoves ==
  ASSUME BusInv, DepositsCounted, EmptyBeforeRegistration, [Next]_vars, ~DepositStep,
         NEW p \in Players
  PROVE  BankrollStands(p) \/ \E amount \in Amounts : Deposit(p, amount)
<1>1. AccountsOK /\ \A q \in Players : account[q] \in Accounts
  BY DEF BusInv, AccountsOK
<1>2. CASE UNCHANGED <<account, deposited>>
  BY <1>2 DEF BankrollStands
<1>3. ASSUME NEW q \in Players, RegisterPlayer(q)
      PROVE  BankrollStands(p)
  <2>1. account[q].bankroll = 0
    BY <1>1, <1>3 DEF RegisterPlayer, P!CanRegister, EmptyBeforeRegistration, Accounts
  <2>2. P!Apply(account[q], P!PlayerRegistered).bankroll = account[q].bankroll
    BY <1>1, <2>1, Registering
  <2> QED
    BY <1>1, <1>3, <2>2, SameBankroll DEF RegisterPlayer, BankrollStands
<1>4. ASSUME NEW q \in Players, NEW amount \in Amounts, Deposit(q, amount), q # p
      PROVE  BankrollStands(p)
  <2>1. account'[p] = account[p]
    BY <1>1, <1>4, SetsOne DEF Deposit
  <2>2. deposited'[p] = deposited[p]
    BY <1>4 DEF Deposit, DepositsCounted
  <2> QED
    BY <2>1, <2>2 DEF BankrollStands
<1>5. ASSUME NEW q \in Players, NEW amount \in Amounts, BuyIn(q, amount)
      PROVE  BankrollStands(p)
  BY <1>1, <1>5, AmountsAssumption, Reserving, SameBankroll DEF BuyIn, BankrollStands
<1>6. ASSUME NEW q \in Players, Release(q)
      PROVE  BankrollStands(p)
  BY <1>1, <1>6, Releasing, SameBankroll DEF Release, BankrollStands
<1>7. ASSUME NEW c \in commands, HandleReleaseFunds(c)
      PROVE  BankrollStands(p)
  <2>1. c.to \in Players
    BY <1>7 DEF BusInv, CommandsOK, CommandOK, HandleReleaseFunds
  <2>2. UNCHANGED deposited
    BY <1>7 DEF HandleReleaseFunds
  <2>3. CASE UNCHANGED account
    BY <2>2, <2>3 DEF BankrollStands
  <2>4. CASE SetAccount(c.to, P!Apply(account[c.to], P!FundsReleased(account[c.to], c.root)))
    BY <1>1, <2>1, <2>2, <2>4, Releasing, SameBankroll DEF BankrollStands
  <2> QED
    BY <1>7, <2>3, <2>4 DEF HandleReleaseFunds
<1>8. ASSUME NEW c \in rejections, TableJoinRejected(c)
      PROVE  BankrollStands(p)
  <2>1. c.player \in Players
    BY DEF BusInv, RejectionsOK
  <2> QED
    BY <1>1, <1>8, <2>1, Releasing, SameBankroll DEF TableJoinRejected, BankrollStands
<1>9. \/ UNCHANGED <<account, deposited>>
      \/ \E q \in Players : RegisterPlayer(q) \/ Release(q)
      \/ \E q \in Players, amount \in Amounts : Deposit(q, amount) \/ BuyIn(q, amount)
      \/ \E c \in commands : HandleReleaseFunds(c)
      \/ \E c \in rejections : TableJoinRejected(c)
  BY DEF Next, Handle, LeaveTable, CreateTable, StartHand, SendEndHand, React, AwardPot,
     HandleDealCards, HandleEndHand, HandleJoinTable, DepositStep, vars, playerVars
<1> QED
  BY <1>2, <1>3, <1>4, <1>5, <1>6, <1>7, <1>8, <1>9

\* A command that deposits is handled as it should, or refused.
LEMMA HandlingDeposit ==
  ASSUME BusInv, NEW c \in commands, HandleDepositFunds(c)
  PROVE  /\ account[c.to].exists = TRUE /\ c.to \in Players /\ c.amount \in Int
         /\ UNCHANGED deposited
         /\ \A p \in Players \ {c.to} : account'[p] = account[p]
         /\ account'[c.to].bankroll =
              IF c.amount > 0 THEN P!Wrap(account[c.to].bankroll + c.amount)
              ELSE account[c.to].bankroll
<1>1. CommandOK(c) /\ c.type = "DepositFunds"
  BY DEF HandleDepositFunds, BusInv, CommandsOK
<1>2. /\ IsPaid(c.hand) /\ c.to \in DOMAIN hands[c.hand].paid
      /\ c = DepositOf(c.hand, c.to)
  BY <1>1 DEF CommandOK
<1>3. c.amount = hands[c.hand].paid[c.to]
  BY <1>2 DEF DepositOf
<1>4. account[c.to].exists = TRUE /\ c.to \in Players /\ c.amount \in Int
  BY <1>2, <1>3, AmountsAssumption DEF BusInv, HandsOK, HandOK, IsPaid, IsResult, Member
<1>5. AccountsOK /\ account[c.to] \in Accounts
  BY <1>4 DEF BusInv, AccountsOK
<1> DEFINE s == P!Apply(account[c.to], P!FundsDeposited(account[c.to], c.amount))
<1>6. P!CanDeposit(account[c.to], c.amount) <=> c.amount > 0
  BY <1>4 DEF P!CanDeposit
<1>7. UNCHANGED deposited
  BY DEF HandleDepositFunds
<1>8. CASE c.amount > 0
  <2>1. SetAccount(c.to, s)
    BY <1>6, <1>8 DEF HandleDepositFunds
  <2>2. s.bankroll = P!Wrap(account[c.to].bankroll + c.amount)
    BY <1>4, <1>5, Depositing
  <2> HIDE DEF s
  <2>3. account'[c.to] = s /\ \A p \in Players \ {c.to} : account'[p] = account[p]
    BY <1>4, <1>5, <2>1, SetsOne
  <2> QED
    BY <1>4, <1>7, <1>8, <2>2, <2>3
<1>9. CASE ~(c.amount > 0)
  <2>1. UNCHANGED account
    BY <1>6, <1>9 DEF HandleDepositFunds
  <2> QED
    BY <1>4, <1>7, <1>9, <2>1
<1> QED
  BY <1>8, <1>9

LEMMA DepositsStayCounted ==
  ASSUME DepositsCounted, [Next]_vars, PrizesFit
  PROVE  DepositsCounted'
<1>1. CASE UNCHANGED deposited
  BY <1>1 DEF DepositsCounted
<1>2. ASSUME NEW p \in Players, NEW amount \in Amounts, Deposit(p, amount)
      PROVE  DepositsCounted'
  <2>1. amount \in Nat /\ deposited[p] \in Nat
    BY BoundsAssumption DEF PrizesFit, DepositsCounted
  <2>2. /\ deposited[p] + amount <= ChipSupply
        /\ deposited' = [deposited EXCEPT ![p] = @ + amount]
    BY <1>2 DEF Deposit
  <2>3. deposited[p] + amount \in 0..ChipSupply /\ deposited[p] + amount \in Int
    BY <2>1, <2>2, BoundsAssumption
  <2> QED
    BY <2>2, <2>3 DEF DepositsCounted
<1>3. UNCHANGED deposited \/ \E p \in Players, amount \in Amounts : Deposit(p, amount)
  BY DEF Next, Handle, RegisterPlayer, BuyIn, Release, LeaveTable, CreateTable, StartHand,
     SendEndHand, React, AwardPot, HandleDealCards, HandleEndHand, HandleReleaseFunds,
     HandleDepositFunds, HandleJoinTable, TableJoinRejected, vars, playerVars
<1> QED
  BY <1>1, <1>2, <1>3

LEMMA RegistrationStaysFirst ==
  ASSUME BusInv, DepositsCounted, EmptyBeforeRegistration, [Next]_vars
  PROVE  EmptyBeforeRegistration'
<1> SUFFICES ASSUME NEW p \in Players, account'[p].exists # TRUE
             PROVE  account'[p].bankroll = 0
  BY DEF EmptyBeforeRegistration
<1>1. account[p].exists # TRUE
  BY AccountsStay DEF AccountsKept
<1>2. account[p].bankroll = 0
  BY <1>1 DEF EmptyBeforeRegistration
<1>3. account[p] \in Accounts
  BY DEF BusInv, AccountsOK
<1>4. ~ \E amount \in Amounts : Deposit(p, amount)
  BY <1>1, <1>3 DEF Deposit, P!CanDeposit, Accounts
<1>5. ASSUME NEW c \in commands, HandleDepositFunds(c)
      PROVE  account'[p] = account[p]
  BY <1>1, <1>5, HandlingDeposit
<1> QED
  BY <1>2, <1>4, <1>5, BankrollMoves DEF BankrollStands, DepositStep

--------------------------------------------------------------------------------
(***************************************************************************)
(* The books                                                               *)
(***************************************************************************)
\* What deposits and prizes come to is exact in int64.
LEMMA BooksFit ==
  ASSUME PrizesFit, NEW d \in 0..ChipSupply, NEW won \in [HandRoots -> Amounts \cup {0}]
  PROVE  /\ won \in [HandRoots -> Int] /\ Total(won) \in Nat
         /\ d + Total(won) \in 0..MaxInt
         /\ P!Wrap(d + Total(won)) = d + Total(won)
<1>1. won \in [HandRoots -> Nat] /\ won \in [HandRoots -> Int]
  <2>1. Amounts \subseteq Nat
    BY Zenon DEF PrizesFit
  <2>2. \A x \in Amounts \cup {0} : x \in Nat /\ x \in Int
    BY <2>1
  <2> QED
    BY <2>2
<1>2. IsFiniteSet(HandRoots)
  BY FS_Interval, BoundsAssumption DEF HandRoots
<1>3. Total(won) \in Nat
  BY <1>1, <1>2, TotalNat
<1>4. ChipSupply + Total(won) <= MaxInt
  BY DEF PrizesFit
<1>5. d + Total(won) \in 0..MaxInt
  BY <1>3, <1>4, BoundsAssumption, TableAssumption
<1>6. P!Wrap(d + Total(won)) = d + Total(won)
  BY <1>5, TableAssumption DEF P!Wrap
<1> QED
  BY <1>1, <1>3, <1>5, <1>6

CreditsKnown == \A p : CreditsOf(p) \in [HandRoots -> Amounts \cup {0}]

LEMMA CreditsAreAmounts ==
  ASSUME BusInv
  PROVE  CreditsKnown
<1>1. \A h, p : Credited(h, p) \in Amounts \cup {0}
  BY WonIsAmount DEF Credited
<1> QED
  BY <1>1 DEF CreditsOf, CreditsKnown

LEMMA SameCredits ==
  ASSUME NEW p, \A h : Credited(h, p)' = Credited(h, p)
  PROVE  CreditsOf(p)' = CreditsOf(p)
BY DEF CreditsOf

LEMMA BalancedAfterPrize ==
  ASSUME BooksInv, PrizesFit, CreditsKnown', NEW c \in commands, HandleDepositFunds(c)
  PROVE  account'[c.to].bankroll = deposited'[c.to] + Total(CreditsOf(c.to)')
<1> DEFINE p == c.to
           h == c.hand
<1>0. BusInv /\ PaidOneWay /\ DepositsCounted /\ Balanced
  BY DEF BooksInv
<1>1. /\ h \in HandRoots /\ p \in Players /\ c.amount \in Nat /\ UNCHANGED deposited
      /\ Credited(h, p) = 0 /\ Credited(h, p)' = c.amount
      /\ \A g : g # h => Credited(g, p)' = Credited(g, p)
  <2>1. /\ h \in HandRoots /\ c.amount \in Amounts
        /\ Credited(h, p) = 0 /\ Credited(h, p)' = c.amount
        /\ \A g : g # h => Credited(g, p)' = Credited(g, p)
    BY <1>0, DepositCredits
  <2>2. p \in Players /\ UNCHANGED deposited
    BY <1>0, HandlingDeposit
  <2>3. Amounts \subseteq Nat
    BY Zenon DEF PrizesFit
  <2> QED
    BY <2>1, <2>2, <2>3
<1>2. PICK old : old = CreditsOf(p)
  OBVIOUS
<1>3. PICK new : new = CreditsOf(p)'
  OBVIOUS
<1>4. /\ old \in [HandRoots -> Amounts \cup {0}] /\ new \in [HandRoots -> Amounts \cup {0}]
  <2>1. CreditsOf(p) \in [HandRoots -> Amounts \cup {0}]
    BY <1>0, CreditsAreAmounts DEF CreditsKnown
  <2>2. CreditsOf(p)' \in [HandRoots -> Amounts \cup {0}]
    BY DEF CreditsKnown
  <2> QED
    BY <1>2, <1>3, <2>1, <2>2
<1>5. /\ old[h] = 0 /\ new[h] = c.amount
      /\ \A g \in HandRoots \ {h} : new[g] = old[g]
  BY <1>1, <1>2, <1>3 DEF CreditsOf
<1>6. deposited[p] \in 0..ChipSupply /\ account[p].bankroll = deposited[p] + Total(old)
  BY <1>0, <1>1, <1>2 DEF DepositsCounted, Balanced
<1> HIDE DEF p, h
<1>7. Total(new) = Total(old) + c.amount
  <2>1. IsFiniteSet(HandRoots)
    BY FS_Interval, BoundsAssumption DEF HandRoots
  <2>2. old \in [HandRoots -> Int] /\ new \in [HandRoots -> Int] /\ Total(old) \in Nat
    BY <1>4, <1>6, BooksFit
  <2>3. Total(new) = Total(old) + (new[h] - old[h])
    BY <1>1, <1>5, <2>1, <2>2, TotalChanges
  <2> QED
    BY <1>1, <1>5, <2>2, <2>3
<1>8. /\ Total(old) \in Nat /\ Total(new) \in Nat
      /\ P!Wrap(deposited[p] + Total(new)) = deposited[p] + Total(new)
  BY <1>4, <1>6, BooksFit
<1>9. deposited[p] \in Int
  BY <1>6, BoundsAssumption
<1>10. account[p].bankroll + c.amount = deposited[p] + Total(new)
  BY <1>1, <1>6, <1>7, <1>8, <1>9
<1>11. account'[p].bankroll = deposited[p] + Total(new)
  <2>1. account'[p].bankroll = IF c.amount > 0 THEN P!Wrap(account[p].bankroll + c.amount)
                               ELSE account[p].bankroll
    BY <1>0, HandlingDeposit DEF p
  <2>2. CASE c.amount > 0
    BY <1>8, <1>10, <2>1, <2>2
  <2>3. CASE ~(c.amount > 0)
    <3>1. c.amount = 0
      BY <1>1, <2>3
    <3> QED
      BY <1>6, <1>7, <1>8, <1>9, <2>1, <2>3, <3>1
  <2> QED
    BY <2>2, <2>3
<1>12. deposited'[p] = deposited[p]
  BY <1>1
<1> QED
  BY <1>3, <1>11, <1>12 DEF p

LEMMA BalancedAfterDeposit ==
  ASSUME BooksInv, PrizesFit, NEW p \in Players, NEW amount \in Amounts, Deposit(p, amount)
  PROVE  account'[p].bankroll = deposited'[p] + Total(CreditsOf(p))
<1>0. BusInv /\ DepositsCounted /\ Balanced /\ AccountsOK /\ account[p] \in Accounts
  BY DEF BooksInv, BusInv, AccountsOK
<1>1. amount \in Nat /\ amount \in Int
  BY DEF PrizesFit
<1>2. PICK old : old = CreditsOf(p)
  OBVIOUS
<1>3. old \in [HandRoots -> Amounts \cup {0}]
  BY <1>0, <1>2, CreditsAreAmounts DEF CreditsKnown
<1>4. deposited[p] \in Nat /\ account[p].bankroll = deposited[p] + Total(old)
  BY <1>0, <1>2, BoundsAssumption DEF DepositsCounted, Balanced
<1>5. deposited'[p] = deposited[p] + amount /\ deposited[p] + amount \in 0..ChipSupply
  <2>1. /\ deposited' = [deposited EXCEPT ![p] = @ + amount]
        /\ deposited[p] + amount <= ChipSupply
    BY DEF Deposit
  <2> QED
    BY <1>0, <1>1, <1>4, <2>1, BoundsAssumption DEF DepositsCounted
<1>6. /\ Total(old) \in Nat
      /\ P!Wrap(deposited[p] + amount + Total(old)) = deposited[p] + amount + Total(old)
  BY <1>3, <1>5, PrizesFit, BooksFit
<1>7. account'[p].bankroll = P!Wrap(account[p].bankroll + amount)
  <2> DEFINE s == P!Apply(account[p], P!FundsDeposited(account[p], amount))
  <2>1. SetAccount(p, s)
    BY DEF Deposit
  <2>2. s.bankroll = P!Wrap(account[p].bankroll + amount)
    BY <1>0, <1>1, Depositing
  <2> HIDE DEF s
  <2>3. account'[p] = s
    BY <1>0, <2>1, SetsOne
  <2> QED
    BY <2>2, <2>3
<1>8. account[p].bankroll + amount = deposited[p] + amount + Total(old)
  BY <1>1, <1>4, <1>6
<1> QED
  BY <1>2, <1>5, <1>6, <1>7, <1>8

LEMMA BalancedStays ==
  ASSUME BooksInv, PrizesFit, "PotAwarded" \notin Redelivered, [Next]_vars, CreditsKnown'
  PROVE  Balanced'
<1>0. /\ BusInv /\ PaidOneWay /\ DepositsCounted /\ EmptyBeforeRegistration /\ Balanced
  BY DEF BooksInv
<1> SUFFICES ASSUME NEW p \in Players
             PROVE  account'[p].bankroll = deposited'[p] + Total(CreditsOf(p)')
  BY DEF Balanced
<1>1. account[p].bankroll = deposited[p] + Total(CreditsOf(p))
  BY <1>0 DEF Balanced
<1>2. ASSUME NEW c \in commands, HandleDepositFunds(c), p # c.to
      PROVE  account'[p].bankroll = deposited'[p] + Total(CreditsOf(p)')
  <2>1. account'[p] = account[p] /\ deposited' = deposited
    BY <1>0, <1>2, HandlingDeposit
  <2>2. \A h : Credited(h, p)' = Credited(h, p)
    BY <1>0, <1>2, DepositCredits
  <2> QED
    BY <1>1, <2>1, <2>2, SameCredits
<1>3. ASSUME ~DepositStep
      PROVE  account'[p].bankroll = deposited'[p] + Total(CreditsOf(p)')
  <2>1. CreditsOf(p)' = CreditsOf(p)
    BY <1>0, <1>3, CreditsStay, SameCredits
  <2>2. ASSUME NEW amount \in Amounts, Deposit(p, amount)
        PROVE  account'[p].bankroll = deposited'[p] + Total(CreditsOf(p))
    BY <2>2, BalancedAfterDeposit
  <2> QED
    BY <1>0, <1>1, <1>3, <2>1, <2>2, BankrollMoves DEF BankrollStands
<1> QED
  BY <1>2, <1>3, BalancedAfterPrize DEF DepositStep

LEMMA BooksStart ==
  ASSUME Init, BusInv
  PROVE  BooksInv
<1>1. hands = <<>> /\ events = {} /\ commands = {} /\ deposited = [p \in Players |-> 0]
  BY DEF Init
<1>2. \A p \in Players : account[p].bankroll = 0
  BY NewAccount DEF Init
<1>3. \A h, p : Credited(h, p) = 0
  <2>1. DOMAIN hands = {}
    BY <1>1
  <2> QED
    BY <2>1 DEF Credited, Won
<1>4. PaidOneWay /\ EmptyBeforeRegistration
  BY <1>1, <1>2 DEF PaidOneWay, EmptyBeforeRegistration
<1>5. DepositsCounted
  BY <1>1, BoundsAssumption DEF DepositsCounted
<1>6. ASSUME NEW p \in Players
      PROVE  Total(CreditsOf(p)) = 0
  <2>1. CreditsOf(p) = [h \in HandRoots |-> 0]
    BY <1>3 DEF CreditsOf
  <2> QED
    BY <2>1, TotalOfZeros
<1>7. Balanced
  <2>1. \A p \in Players : deposited[p] = 0
    BY <1>1
  <2> QED
    BY <1>2, <1>6, <2>1 DEF Balanced
<1> QED
  BY <1>4, <1>5, <1>7 DEF BooksInv

\* No order of deliveries loses, doubles or redirects a prize, nor counts a
\* deposit of a client twice: what a player owns is what it deposited and what
\* it won, less what still travels, as long as PotAwarded is delivered once.
\* Prizes must not be negative (the code refuses them as deposits, though a
\* hand may award them) and must not overflow int64.
THEOREM WinningsArePaidOnce ==
  ASSUME PrizesFit, "PotAwarded" \notin Redelivered
  PROVE  Spec => []WinningsPaidOnce
<1>1. Init /\ BusInv => BooksInv
  BY BooksStart
<1>2. BusInv => CreditsKnown
  BY CreditsAreAmounts
<1>3. BooksInv /\ [Next]_vars /\ BusInv' /\ CreditsKnown' => BooksInv'
  BY OneWayStays, DepositsStayCounted, RegistrationStaysFirst, BalancedStays DEF BooksInv
<1>4. BooksInv => WinningsPaidOnce
  BY BalancedIsPaidOnce DEF BooksInv
<1> QED
  BY BusInvariance, <1>1, <1>2, <1>3, <1>4, PTL DEF Spec

================================================================================
