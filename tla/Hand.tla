---------------------------------- MODULE Hand ----------------------------------
(***************************************************************************)
(* The hand aggregate as deployed (hand/agg/hand.go): dealing, blinds,     *)
(* betting, community cards, draws and the award of the pot.  A rejected   *)
(* command changes nothing, so an action is the accepted command; every    *)
(* command may come at any time, from any player: the code keeps no turn.  *)
(*                                                                         *)
(* Players are numbered in table order and cards by their place in the     *)
(* shuffled deck.  HasActed and TotalInvested, which no decision reads,    *)
(* and RevealCards, whose event no applier folds, are left out, and so are *)
(* the events no handler emits (BettingRoundComplete, ShowdownStarted,     *)
(* CardsMucked).                                                           *)
(***************************************************************************)
EXTENDS Chips, Sequences

CONSTANTS
  Players,        \* player numbers
  Stacks,         \* stacks a player can bring to the hand
  Variants,       \* game variants that DealCards asks for
  DeckSize,       \* 52 in the code
  DefaultMinBet,  \* 10 in the code
  BetAmounts,     \* amounts that commands carry
  AwardAmounts,   \* amounts a caller awards to one player
  MaxBet          \* bound on BetThisRound

ASSUME HandAssumption ==
  /\ Players \subseteq Nat /\ IsFiniteSet(Players)
  /\ Stacks \subseteq Nat /\ AwardAmounts \subseteq Int /\ BetAmounts \subseteq Int
  /\ Variants \subseteq {"TEXAS_HOLDEM", "OMAHA", "FIVE_CARD_DRAW", "SEVEN_CARD_STUD"}
  /\ DefaultMinBet \in Nat /\ MaxBet \in Nat /\ DeckSize \in Nat

VARIABLES
  status,      \* "" before DealCards, then "betting", then "complete"
  variant,     \* GameVariant
  players,     \* player -> [stack, bet (BetThisRound), folded, allIn, cards]
  pot, currentBet, minRaise,
  phase, community, deck,
  brought,     \* history: the stacks of DealCards
  result       \* winners of HandComplete: player -> amount

betting == <<pot, currentBet, minRaise>>
setup == <<variant, brought>>   \* set once, by DealCards
vars == <<status, players, betting, phase, community, deck, setup, result>>

--------------------------------------------------------------------------------
Lower(x, y) == IF x < y THEN x ELSE y
Higher(x, y) == IF x < y THEN y ELSE x

getCardsPerPlayer(v) ==
  CASE v = "OMAHA" -> 4
    [] v = "FIVE_CARD_DRAW" -> 5
    [] OTHER -> 2

Deck == [i \in 1..DeckSize |-> i]

exists == status # ""
Bug_isComplete == status = "showdown"
isComplete == status = "complete"

Init ==
  /\ status = "" /\ variant = ""
  /\ players = <<>>
  /\ pot = 0 /\ currentBet = 0 /\ minRaise = 0
  /\ phase = "" /\ community = <<>> /\ deck = <<>>
  /\ brought = <<>>
  /\ result = <<>>

(***************************************************************************)
(* DealCards: each player in turn takes cards from the top of the deck.    *)
(* A deck that is too short makes the code panic, which deals nothing.     *)
(***************************************************************************)
DealCards(stacks, v) ==
  LET k == getCardsPerPlayer(v)
      Turn(p) == Cardinality({q \in DOMAIN stacks : q < p})
  IN
  /\ ~exists
  /\ Cardinality(DOMAIN stacks) >= 2
  /\ Cardinality(DOMAIN stacks) * k <= DeckSize
  /\ status' = "betting"
  /\ players' = [p \in DOMAIN stacks |->
                   [stack |-> stacks[p], bet |-> 0, folded |-> FALSE, allIn |-> FALSE,
                    cards |-> SubSeq(Deck, Turn(p) * k + 1, Turn(p) * k + k)]]
  /\ deck' = SubSeq(Deck, Cardinality(DOMAIN stacks) * k + 1, DeckSize)
  /\ phase' = "PREFLOP"
  /\ brought' = stacks /\ variant' = v
  /\ UNCHANGED <<betting, community, result>>

(***************************************************************************)
(* Betting                                                                 *)
(***************************************************************************)
\* A blind that the stack cannot pay in full is posted as far as it goes.
BlindPosted(p, amount) ==
  LET actual == Lower(amount, players[p].stack)
  IN [player |-> p, amount |-> actual,
      stack |-> players[p].stack - actual, pot |-> pot + actual]

applyBlindPosted(e) ==
  /\ players' = [players EXCEPT ![e.player].stack = e.stack,
                                ![e.player].bet = @ + e.amount]
  /\ pot' = e.pot
  /\ currentBet' = Higher(currentBet, e.amount)
  /\ minRaise' = IF e.amount > currentBet THEN e.amount ELSE minRaise

Bug_CanPostBlind(p, amount) == exists /\ p \in DOMAIN players /\ amount > 0
CanPostBlind(p, amount) ==
  exists /\ ~isComplete /\ p \in DOMAIN players /\ amount > 0

PostBlind(p, amount) ==
  /\ CanPostBlind(p, amount)
  /\ players[p].bet + BlindPosted(p, amount).amount <= MaxBet
  /\ applyBlindPosted(BlindPosted(p, amount))
  /\ UNCHANGED <<status, phase, community, deck, setup, result>>

Actions == {"FOLD", "CHECK", "CALL", "BET", "RAISE", "ALL_IN"}

\* What the handler reads of a player's bets and of the round.
View(p) ==
  [stack |-> players[p].stack, bet |-> players[p].bet,
   currentBet |-> currentBet, minRaise |-> minRaise]

AmountToCall(v) == v.currentBet - v.bet

\* The rejections that depend on the action.
Valid(v, action, amount) ==
  CASE action = "BET" ->
         /\ v.currentBet <= 0
         /\ amount >= IF v.minRaise = 0 THEN DefaultMinBet ELSE v.minRaise
    [] action = "RAISE" -> v.currentBet > 0 /\ amount - v.currentBet >= v.minRaise
    [] OTHER -> TRUE

Bug_ActualAmount(v, action, amount) ==
  CASE action = "FOLD" -> 0
    [] action \in {"CHECK", "CALL"} -> Higher(AmountToCall(v), 0)
    [] action = "BET" -> Lower(amount, v.stack)
    [] action = "RAISE" -> Lower(amount - v.bet, v.stack)
    [] action = "ALL_IN" -> v.stack

\* Chips that leave the player's stack; a raise names the total bet.
ActualAmount(v, action, amount) ==
  CASE action = "FOLD" -> 0
    [] action \in {"CHECK", "CALL"} -> Lower(Higher(AmountToCall(v), 0), v.stack)
    [] action = "BET" -> Lower(amount, v.stack)
    [] action = "RAISE" -> Lower(amount - v.bet, v.stack)
    [] action = "ALL_IN" -> v.stack

Bug_EmittedAction(v, action, actual) ==
  IF actual = v.stack - actual /\ actual > 0 THEN "ALL_IN" ELSE action

\* The action of the event: one that takes the whole stack is an all-in.
EmittedAction(v, action, actual) ==
  IF actual = v.stack /\ actual > 0 THEN "ALL_IN" ELSE action

\* The amount of the event: for a bet or a raise, what the command asked.
EmittedAmount(action, amount, actual) ==
  IF action \in {"BET", "RAISE"} THEN amount ELSE actual

Bug_ActionTaken(p, v, action, amount) ==
  LET actual == ActualAmount(v, action, amount)
      emitted == EmittedAmount(action, amount, actual)
  IN [player |-> p, action |-> EmittedAction(v, action, actual), amount |-> emitted,
      stack |-> v.stack - actual, pot |-> pot + emitted,
      toCall |-> Higher(v.currentBet, v.bet + actual)]

\* Stack and pot move by the actual amount, BetThisRound by the emitted one.
ActionTaken(p, v, action, amount) ==
  LET actual == ActualAmount(v, action, amount)
  IN [player |-> p, action |-> EmittedAction(v, action, actual),
      amount |-> EmittedAmount(action, amount, actual),
      stack |-> v.stack - actual, pot |-> pot + actual,
      toCall |-> Higher(v.currentBet, v.bet + actual)]

\* What the applier adds to BetThisRound.
Invested(e) ==
  IF e.action \in {"BET", "RAISE", "CALL", "ALL_IN"} THEN e.amount ELSE 0

applyActionTaken(e) ==
  /\ players' = [players EXCEPT ![e.player].stack = e.stack,
                                ![e.player].folded = @ \/ e.action = "FOLD",
                                ![e.player].allIn = @ \/ e.action = "ALL_IN",
                                ![e.player].bet = @ + Invested(e)]
  /\ pot' = e.pot
  /\ currentBet' = e.toCall
  /\ minRaise' = Higher(minRaise, e.toCall - currentBet)

MayAct(p) ==
  /\ status = "betting"
  /\ p \in DOMAIN players
  /\ ~players[p].folded
  /\ ~players[p].allIn

PlayerAction(p, action, amount) ==
  /\ MayAct(p)
  /\ Valid(View(p), action, amount)
  /\ LET e == ActionTaken(p, View(p), action, amount)
     IN players[p].bet + e.amount <= MaxBet /\ applyActionTaken(e)
  /\ UNCHANGED <<status, phase, community, deck, setup, result>>

(***************************************************************************)
(* Cards                                                                   *)
(***************************************************************************)
\* The next phase and the cards it brings, for the phases that have one.
Streets ==
  [PREFLOP |-> [phase |-> "FLOP", cards |-> 3],
   FLOP    |-> [phase |-> "TURN", cards |-> 1],
   TURN    |-> [phase |-> "RIVER", cards |-> 1]]

\* The cards shown stay in the remaining deck: no applier takes them out.
DealCommunityCards ==
  /\ exists /\ ~isComplete
  /\ variant # "FIVE_CARD_DRAW"
  /\ phase \in DOMAIN Streets
  /\ Len(deck) >= Streets[phase].cards
  /\ community' = community \o SubSeq(deck, 1, Streets[phase].cards)
  /\ phase' = Streets[phase].phase
  /\ currentBet' = 0
  /\ minRaise' = 0
  /\ players' = [p \in DOMAIN players |-> [players[p] EXCEPT !.bet = 0]]
  /\ UNCHANGED <<status, pot, deck, setup, result>>

Bug_RequestDraw(p, indices) ==
  LET n == Cardinality(indices) IN
  /\ exists /\ ~isComplete
  /\ variant = "FIVE_CARD_DRAW"
  /\ p \in DOMAIN players
  /\ ~players[p].folded
  /\ Len(deck) >= n
  /\ players' = [players EXCEPT
                   ![p].cards = SubSeq(@, 1, Len(@) - n) \o SubSeq(deck, 1, n)]
  /\ UNCHANGED <<status, betting, phase, community, deck, setup, result>>

\* The event tells how many cards were discarded, not which: the applier
\* drops the last ones.
RequestDraw(p, indices) ==
  LET n == Cardinality(indices) IN
  /\ exists /\ ~isComplete
  /\ variant = "FIVE_CARD_DRAW"
  /\ p \in DOMAIN players
  /\ ~players[p].folded
  /\ indices \subseteq DOMAIN players[p].cards
  /\ Len(deck) >= n
  /\ players' = [players EXCEPT
                   ![p].cards = SubSeq(@, 1, Len(@) - n) \o SubSeq(deck, 1, n)]
  /\ deck' = SubSeq(deck, n + 1, Len(deck))
  /\ UNCHANGED <<status, betting, phase, community, setup, result>>

(***************************************************************************)
(* AwardPot emits PotAwarded and HandComplete together; the final stacks   *)
(* of the second repeat what the first paid.                               *)
(***************************************************************************)
Bug_AwardPot(awards) ==
  /\ exists /\ ~isComplete
  /\ DOMAIN awards # {}
  /\ DOMAIN awards \subseteq DOMAIN players
  /\ Total(awards) <= pot
  /\ players' = [p \in DOMAIN players |->
                   [players[p] EXCEPT
                      !.stack = @ + IF p \in DOMAIN awards THEN awards[p] ELSE 0]]
  /\ status' = "complete"
  /\ result' = awards
  /\ UNCHANGED <<betting, phase, community, deck, setup>>

AwardPot(awards) ==
  /\ exists /\ ~isComplete
  /\ DOMAIN awards # {}
  /\ DOMAIN awards \subseteq DOMAIN players
  /\ \A p \in DOMAIN awards : ~players[p].folded
  /\ Total(awards) <= pot
  /\ players' = [p \in DOMAIN players |->
                   [players[p] EXCEPT
                      !.stack = @ + IF p \in DOMAIN awards THEN awards[p] ELSE 0]]
  /\ status' = "complete"
  /\ result' = awards
  /\ UNCHANGED <<betting, phase, community, deck, setup>>

Partial(S, T) == UNION {[D -> T] : D \in SUBSET S}

Next ==
  \/ \E stacks \in Partial(Players, Stacks), v \in Variants : DealCards(stacks, v)
  \/ \E p \in Players, amount \in BetAmounts : PostBlind(p, amount)
  \/ \E p \in Players, action \in Actions, amount \in BetAmounts :
       PlayerAction(p, action, amount)
  \/ DealCommunityCards
  \/ \E p \in Players, indices \in SUBSET (1..getCardsPerPlayer(variant)) : RequestDraw(p, indices)
  \/ \E awards \in Partial(Players, AwardAmounts) : AwardPot(awards)

Spec == Init /\ [][Next]_vars

--------------------------------------------------------------------------------
(***************************************************************************)
(* Properties                                                              *)
(***************************************************************************)
Stack == [p \in DOMAIN players |-> players[p].stack]

\* Type invariant of HandState.
TypeOK ==
  /\ status \in {"", "betting", "complete"}
  /\ \A p \in DOMAIN players :
       /\ p \in Players
       /\ players[p].stack \in Nat
       /\ players[p].bet \in 0..MaxBet
       /\ Len(players[p].cards) = getCardsPerPlayer(variant)
  /\ currentBet \in Nat /\ minRaise \in Nat
  /\ phase \in {"", "PREFLOP", "FLOP", "TURN", "RIVER"}

\* No sequence of blinds, bets, raises, streets and awards makes or loses a
\* chip: the stacks and what the awards left of the pot are what the players
\* brought.  (Awards never exceed the pot: ImplementsPayout.)
ChipsConserved == Total(Stack) + pot - Total(result) = Total(brought)

\* A player who is all-in has nothing left, so that the rejection of further
\* actions ("Player is all-in") takes no chips out of play.
AllInHasNothingLeft ==
  status = "betting" =>
    \A p \in DOMAIN players : players[p].allIn => players[p].stack = 0

\* A fold is for the whole hand: the stack of a player who folded never
\* grows again.
FoldedWinNothing ==
  [][\A p \in DOMAIN players :
       players[p].folded =>
         players'[p].folded /\ players'[p].stack <= players[p].stack]_vars

\* HandComplete is the last word: the table and the players' bankrolls are
\* updated from it, and nothing that comes later changes the hand.
ResultIsFinal == [][~isComplete]_vars

\* Whatever happens between, players bring chips to the hand once and are
\* paid once, the members of the hand only, and no more than was brought.
Promise == INSTANCE Payout WITH
  stage <- IF ~exists THEN "none" ELSE IF isComplete THEN "complete" ELSE "playing",
  paid <- result,
  Amounts <- AwardAmounts

ImplementsPayout == Promise!Spec

\* No card is held twice, or held and still in the deck, however many draws
\* the players make.
HeldCardsUnique ==
  LET held == [s \in (DOMAIN players) \X (1..getCardsPerPlayer(variant)) |->
                 players[s[1]].cards[s[2]]]
  IN /\ Cardinality(Range(held)) = Cardinality(DOMAIN held)
     /\ Range(held) \cap Range(deck) = {}

\* tests/acceptance_steps.go:324, "raises to (\d+)": a raise brings a player's
\* bet up to an amount with chips of the player's own; no raise takes chips
\* back from the pot.
RaisesAddToThePot ==
  [][\A p \in DOMAIN players, amount \in BetAmounts :
       PlayerAction(p, "RAISE", amount) => pot' >= pot]_vars
================================================================================
