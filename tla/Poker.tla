---------------------------------- MODULE Poker ----------------------------------
(***************************************************************************)
(* The whole system: the players' accounts, one table and its hands, and   *)
(* the four sagas and the process manager that turn an event of one        *)
(* aggregate into commands for another.  Table.tla and PlayerState.tla     *)
(* give the aggregates; a hand is what Payout.tla says of it, which        *)
(* Hand.tla implements.                                                    *)
(*                                                                         *)
(* The bus is external: a published event waits until its saga reacts, and *)
(* may come again when its type is in Redelivered; commands wait in a set  *)
(* and are handled in any order; a command that is refused changes         *)
(* nothing.  The buy-in flow (a JoinTable for each reservation), notice of *)
(* its rejection, and clients that send EndHand themselves are external    *)
(* too: no code in the repository sends those, all of it handles them.     *)
(* Withdrawals, top-ups and sitting out reach no other aggregate and are   *)
(* left to Player.tla and Table.tla.                                       *)
(***************************************************************************)
EXTENDS Chips

CONSTANTS
  Players, MaxPlayers, MinBuyIn, MaxBuyIn, MaxInt,
  Amounts,      \* amounts deposited, reserved and won
  MaxHands,     \* bound on the hands played
  ChipSupply,   \* bound on what clients deposit into one account
  MaxStack,     \* no stack can reach it within MaxHands hands
  MaxInFlight,  \* bound: nothing is sent while this many commands wait
  MaxBuyIns,    \* bound on the buy-ins of one player
  Redelivered   \* event types that the bus may deliver again

ASSUME TableAssumption ==
  MaxPlayers \in Nat /\ MinBuyIn \in Int /\ MaxBuyIn \in Int /\ MaxInt \in Nat \ {0}
ASSUME AmountsAssumption == Amounts \subseteq Int
ASSUME BoundsAssumption ==
  MaxHands \in Nat /\ ChipSupply \in Nat /\ MaxStack \in Nat

VARIABLES
  exists, seats, dealer, handCount, currentHand, status, hand, ended,  \* Table
  account,      \* account[p]: the state of player p's aggregate
  deposited,    \* history: what clients deposited
  buyIns,       \* history: buyIns[p] numbers p's reservations for the table
  hands,        \* hand root -> [stage, table, brought, paid], once dealt
  events,       \* published events that a saga has yet to see
  commands,     \* commands that an aggregate has yet to handle
  rejections    \* JoinTable commands whose refusal the player has yet to hear

tableVars == <<exists, seats, dealer, handCount, currentHand, status, hand, ended>>
playerVars == <<account, deposited, buyIns>>
busVars == <<events, commands, rejections>>
vars == <<tableVars, playerVars, hands, busVars>>

\* Hand roots are the hand numbers; the table's root is a number of its own.
HandRoots == 1..MaxHands
TableRoot == MaxHands + 1

T == INSTANCE Table WITH Winnings <- 0..MaxStack
P == INSTANCE PlayerState WITH NTables <- MaxHands + 1

--------------------------------------------------------------------------------
(***************************************************************************)
(* Sagas: the commands each of them makes of an event.  "to" is the root   *)
(* of the aggregate addressed, hand and winners come from the event.       *)
(***************************************************************************)
Bug_TableHand(e) ==
  {[type |-> "DealCards", to |-> TableRoot, table |-> e.root, players |-> e.players]}

\* table/saga-hand: TableRoot of the command is the hand's root.
TableHand(e) ==
  {[type |-> "DealCards", to |-> e.root, table |-> e.root, players |-> e.players]}

\* hand/saga-table: addressed to the table root the hand was dealt with.
HandTable(e) ==
  {[type |-> "EndHand", to |-> e.table, hand |-> e.root, winners |-> e.winners]}

\* table/saga-player: for the players in StackChanges, of the hand's root.
TablePlayer(e) ==
  {[type |-> "ReleaseFunds", to |-> p, hand |-> e.root, root |-> e.root] :
     p \in DOMAIN e.winners}

Bug_HandPlayer(e) ==
  {[type |-> "DepositFunds", to |-> p, hand |-> e.root, amount |-> e.winners[p]] :
     p \in {CHOOSE q \in DOMAIN e.winners : TRUE}}

\* hand/saga-player: one deposit for each winner.
HandPlayer(e) ==
  {[type |-> "DepositFunds", to |-> p, hand |-> e.root, amount |-> e.winners[p]] :
     p \in DOMAIN e.winners}

\* pmg-hand-flow: the process manager takes the events of table and hand, and
\* answers each of them with no command and no event.
HandFlowPM(e) == {}

Reactions(e) ==
  CASE e.type = "HandStarted"  -> TableHand(e) \cup HandFlowPM(e)
    [] e.type = "HandComplete" -> HandTable(e)
    [] e.type = "HandEnded"    -> TablePlayer(e)
    [] e.type = "PotAwarded"   -> HandPlayer(e) \cup HandFlowPM(e)

HasRoom == Cardinality(commands) < MaxInFlight

React(e) ==
  /\ HasRoom
  /\ commands' = commands \cup Reactions(e)
  /\ events' = IF e.type \in Redelivered THEN events ELSE events \ {e}
  /\ UNCHANGED <<tableVars, playerVars, hands, rejections>>

--------------------------------------------------------------------------------
(***************************************************************************)
(* Clients                                                                 *)
(***************************************************************************)
Init ==
  /\ T!Init
  /\ account = [p \in Players |-> P!NewPlayerState]
  /\ deposited = [p \in Players |-> 0] /\ buyIns = [p \in Players |-> 0]
  /\ hands = <<>>
  /\ events = {} /\ commands = {} /\ rejections = {}

SetAccount(p, state) == account' = [account EXCEPT ![p] = state]

RegisterPlayer(p) ==
  /\ P!CanRegister(account[p])
  /\ SetAccount(p, P!Apply(account[p], P!PlayerRegistered))
  /\ UNCHANGED <<tableVars, deposited, buyIns, hands, busVars>>

Deposit(p, amount) ==
  /\ P!CanDeposit(account[p], amount)
  /\ deposited[p] + amount <= ChipSupply
  /\ SetAccount(p, P!Apply(account[p], P!FundsDeposited(account[p], amount)))
  /\ deposited' = [deposited EXCEPT ![p] = @ + amount]
  /\ UNCHANGED <<tableVars, buyIns, hands, busVars>>

\* A buy-in reserves chips for the table; the buy-in flow then sends one
\* JoinTable command for them.
BuyIn(p, amount) ==
  /\ P!CanReserve(account[p], TableRoot, amount)
  /\ buyIns[p] < MaxBuyIns /\ HasRoom
  /\ SetAccount(p, P!Apply(account[p], P!FundsReserved(account[p], TableRoot, amount)))
  /\ buyIns' = [buyIns EXCEPT ![p] = @ + 1]
  /\ commands' = commands \cup
       {[type |-> "JoinTable", player |-> p, amount |-> amount, nth |-> buyIns[p] + 1]}
  /\ UNCHANGED <<tableVars, deposited, hands, events, rejections>>

Release(p) ==
  /\ P!CanRelease(account[p], TableRoot)
  /\ SetAccount(p, P!Apply(account[p], P!FundsReleased(account[p], TableRoot)))
  /\ UNCHANGED <<tableVars, deposited, buyIns, hands, busVars>>

CreateTable == T!CreateTable /\ UNCHANGED <<playerVars, hands, busVars>>

LeaveTable(p) == T!LeaveTable(p) /\ UNCHANGED <<playerVars, hands, busVars>>

StartHand ==
  /\ T!StartHand
  /\ events' = events \cup
       {[type |-> "HandStarted", root |-> hand'.root, players |-> hand'.players]}
  /\ UNCHANGED <<playerVars, hands, commands, rejections>>

\* A client ends the hand at the table, with the result it has read.
SendEndHand(h) ==
  /\ hands[h].stage = "complete" /\ HasRoom
  /\ commands' = commands \cup
       {[type |-> "EndHand", to |-> TableRoot, hand |-> h, winners |-> hands[h].paid]}
  /\ UNCHANGED <<tableVars, playerVars, hands, events, rejections>>

\* The play of a hand ends in AwardPot, and its two events.
AwardPot(h, awards) ==
  /\ hands[h].stage = "playing"
  /\ DOMAIN awards # {} /\ Total(awards) <= Total(hands[h].brought)
  /\ hands' = [hands EXCEPT ![h].stage = "complete", ![h].paid = awards]
  /\ events' = events \cup
       {[type |-> "PotAwarded", root |-> h, winners |-> awards],
        [type |-> "HandComplete", root |-> h, table |-> hands[h].table,
         winners |-> awards]}
  /\ UNCHANGED <<tableVars, playerVars, commands, rejections>>

--------------------------------------------------------------------------------
(***************************************************************************)
(* Aggregates handling the commands of the bus                             *)
(***************************************************************************)
Done(c) == commands' = commands \ {c}

Bug_CanDeal(c) == Cardinality(DOMAIN c.players) >= 2
CanDeal(c) == c.to \notin DOMAIN hands /\ Cardinality(DOMAIN c.players) >= 2

\* The stacks of a HandStarted event, by player.
StacksOf(started) ==
  [p \in {started[pos].player : pos \in DOMAIN started} |->
     (CHOOSE s \in {started[pos] : pos \in DOMAIN started} : s.player = p).stack]

HandleDealCards(c) ==
  LET dealt == [stage |-> "playing", table |-> c.table,
                brought |-> StacksOf(c.players), paid |-> <<>>]
  IN
  /\ c.type = "DealCards"
  /\ hands' = IF CanDeal(c)
              THEN [h \in DOMAIN hands \cup {c.to} |-> IF h = c.to THEN dealt ELSE hands[h]]
              ELSE hands
  /\ Done(c)
  /\ UNCHANGED <<tableVars, playerVars, events, rejections>>

\* A command to a table root other than the table's finds no table there.
CanEndHand(c) == c.to = TableRoot /\ T!CanEndHand(c.hand)

HandleEndHand(c) ==
  /\ c.type = "EndHand"
  /\ IF CanEndHand(c)
     THEN /\ T!EndHand(c.hand, [p \in Players |->
                                  IF p \in DOMAIN c.winners THEN c.winners[p] ELSE 0])
          /\ events' = events \cup
               {[type |-> "HandEnded", root |-> c.hand, winners |-> c.winners]}
     ELSE UNCHANGED <<tableVars, events>>
  /\ Done(c)
  /\ UNCHANGED <<playerVars, hands, rejections>>

HandleReleaseFunds(c) ==
  /\ c.type = "ReleaseFunds"
  /\ IF P!CanRelease(account[c.to], c.root)
     THEN SetAccount(c.to, P!Apply(account[c.to], P!FundsReleased(account[c.to], c.root)))
     ELSE UNCHANGED account
  /\ Done(c)
  /\ UNCHANGED <<tableVars, deposited, buyIns, hands, events, rejections>>

HandleDepositFunds(c) ==
  /\ c.type = "DepositFunds"
  /\ IF P!CanDeposit(account[c.to], c.amount)
     THEN SetAccount(c.to, P!Apply(account[c.to], P!FundsDeposited(account[c.to], c.amount)))
     ELSE UNCHANGED account
  /\ Done(c)
  /\ UNCHANGED <<tableVars, deposited, buyIns, hands, events, rejections>>

HandleJoinTable(c) ==
  /\ c.type = "JoinTable"
  /\ IF T!CanJoin(c.player, c.amount)
     THEN T!JoinTable(c.player, c.amount, 0) /\ UNCHANGED rejections
     ELSE rejections' = rejections \cup {c} /\ UNCHANGED tableVars
  /\ Done(c)
  /\ UNCHANGED <<playerVars, hands, events>>

Handle(c) ==
  \/ HandleDealCards(c)
  \/ HandleEndHand(c)
  \/ HandleReleaseFunds(c)
  \/ HandleDepositFunds(c)
  \/ HandleJoinTable(c)

Bug_TableJoinRejected(c) ==
  /\ rejections' = rejections \ {c}
  /\ UNCHANGED <<tableVars, playerVars, hands, events, commands>>

\* The notice of a refused JoinTable reaches the player, sooner or later.
TableJoinRejected(c) ==
  /\ SetAccount(c.player,
       P!Apply(account[c.player], P!FundsReleased(account[c.player], TableRoot)))
  /\ rejections' = rejections \ {c}
  /\ UNCHANGED <<tableVars, deposited, buyIns, hands, events, commands>>

Awards(S) == UNION {[D -> Amounts] : D \in SUBSET S}

Next ==
  \/ \E p \in Players :
       \/ RegisterPlayer(p)
       \/ \E amount \in Amounts : Deposit(p, amount) \/ BuyIn(p, amount)
       \/ Release(p)
       \/ LeaveTable(p)
  \/ CreateTable
  \/ StartHand
  \/ \E h \in DOMAIN hands : SendEndHand(h)
  \/ \E h \in DOMAIN hands :
       \E awards \in Awards(DOMAIN hands[h].brought) : AwardPot(h, awards)
  \/ \E e \in events : React(e)
  \/ \E c \in commands : Handle(c)
  \/ \E c \in rejections : TableJoinRejected(c)

Spec == Init /\ [][Next]_vars

EventTypes == {"HandStarted", "HandComplete", "HandEnded", "PotAwarded"}
SagaCommands == {"DealCards", "EndHand", "ReleaseFunds", "DepositFunds"}

\* The hand a command is about.
HandOf(c) == IF c.type = "DealCards" THEN c.table ELSE c.hand

\* The bus keeps delivering: every saga sees every event of its own, and
\* every command is handled, one kind and one hand at a time, the joins and
\* the notices of their refusal one player at a time.  Clients and the play
\* of a hand are under no obligation.
Delivery ==
  /\ \A h \in HandRoots :
       /\ \A type \in EventTypes :
            WF_vars(\E e \in events : e.type = type /\ e.root = h /\ React(e))
       /\ \A type \in SagaCommands :
            WF_vars(\E c \in commands : c.type = type /\ HandOf(c) = h /\ Handle(c))
  /\ \A p \in Players :
       /\ WF_vars(\E c \in commands : c.type = "JoinTable" /\ c.player = p /\ Handle(c))
       /\ WF_vars(\E c \in rejections : c.player = p /\ TableJoinRejected(c))

FairSpec == Spec /\ Delivery

--------------------------------------------------------------------------------
(***************************************************************************)
(* Properties                                                              *)
(***************************************************************************)

\* Type invariant of the hands and of what travels on the bus.
TypeOK ==
  /\ DOMAIN hands \subseteq HandRoots
  /\ \A h \in DOMAIN hands : hands[h].stage \in {"playing", "complete"}
  /\ {e.type : e \in events} \subseteq EventTypes
  /\ {c.type : c \in commands} \subseteq SagaCommands \cup {"JoinTable"}
  /\ \A c \in rejections : c.type = "JoinTable"

\* However late the DealCards command comes, and however often, the players
\* of the hand that the table is waiting for brought exactly the chips that
\* stand in front of them at the table.
DealtFromTheTable ==
  currentHand \in DOMAIN hands =>
    \A p \in DOMAIN hands[currentHand].brought :
      \E pos \in DOMAIN seats :
        seats[pos].player = p /\ seats[pos].stack = hands[currentHand].brought[p]

\* The chips hand h won player p, and those of them that its event and the
\* saga's commands still carry.
Prize(winners, p) == IF p \in DOMAIN winners THEN winners[p] ELSE 0
Won(h, p) == IF h \in DOMAIN hands THEN Prize(hands[h].paid, p) ELSE 0

PotEvents(h) == {e \in events : e.type = "PotAwarded" /\ e.root = h}
Deposits(h, p) == {c \in commands : c.type = "DepositFunds" /\ c.hand = h /\ c.to = p}

Announced(h, p) == Total([e \in PotEvents(h) |-> Prize(e.winners, p)])
Travelling(h, p) == Total([c \in Deposits(h, p) |-> c.amount])

\* When PotAwarded is delivered once, every chip won is in one place: in the
\* event, in the saga's deposit, or in the winner's bankroll, whatever the
\* table does with the hand's result meanwhile.
WinningsPaidOnce ==
  \A p \in Players :
    account[p].bankroll =
      deposited[p] + Total([h \in HandRoots |-> Won(h, p) - Announced(h, p) - Travelling(h, p)])

\* A hand is dealt once and paid once, even though DealCards may be repeated
\* at any time, after the hand is over too.
Blank == [stage |-> "none", brought |-> <<>>, paid |-> <<>>]
TheHand(h) == IF h \in DOMAIN hands THEN hands[h] ELSE Blank
PayoutOf(h) ==
  INSTANCE Payout WITH stage <- TheHand(h).stage, brought <- TheHand(h).brought,
                       paid <- TheHand(h).paid

HandsArePayouts ==
  [][hands' # hands =>
       \A h \in HandRoots : [PayoutOf(h)!Next]_(PayoutOf(h)!vars)]_hands

\* The table is not left waiting for a hand nobody was dealt: a started hand
\* is dealt.
StartedHandsAreDealt ==
  \A h \in HandRoots : currentHand = h ~> h \in DOMAIN hands

\* What a player wins in a hand does reach the player's account.
WinningsArrive ==
  \A h \in HandRoots, p \in Players :
    Won(h, p) > 0 ~> account[p].bankroll >= deposited[p] + Won(h, p)

\* A buy-in does not lock chips for a seat that the player never gets: once a
\* join has been sent, the player has a seat or the reservation is gone, even
\* if no table is there yet or it refuses the amount.
BuyInsSettle ==
  \A p \in Players :
    (\E c \in commands : c.type = "JoinTable" /\ c.player = p)
      ~> (T!SeatsOf(p) # {} \/ account[p].reservations[TableRoot] = 0)

\* hand/saga-table/main.go:3-4, "Reacts to HandComplete events from Hand
\* domain.  Sends EndHand commands to Table domain.": a completed hand ends
\* at the table.
CompletedHandsEnd ==
  \A h \in HandRoots :
    (h \in DOMAIN hands /\ hands[h].stage = "complete") ~> h \in ended

\* table/saga-player/main.go:33, "Create ReleaseFunds commands for all
\* players": when a hand has ended, its players' reservations are released.
EndedHandsRelease ==
  \A h \in HandRoots, p \in Players :
    (h \in ended /\ p \in DOMAIN TheHand(h).brought)
      ~> account[p].reservations[TableRoot] = 0

\* revocation.go:18-20, "This releases the funds that were reserved for the
\* failed table join": what a notice releases is the reservation of the join
\* that failed, not a later one.
OnlyFailedJoinsAreReleased ==
  [][\A c \in rejections :
       (TableJoinRejected(c) /\ account'[c.player] # account[c.player])
         => c.nth = buyIns[c.player]]_vars
================================================================================
