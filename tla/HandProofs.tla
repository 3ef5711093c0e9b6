------------------------------ MODULE HandProofs ------------------------------
(***************************************************************************)
(* Theorems about Hand, for any players, stacks, variants, deck and        *)
(* amounts, and about the functional handlers that mirror it.              *)
(***************************************************************************)
EXTENDS HandMirror, ChipsProofs, SequenceTheorems

Cards == 1..DeckSize

PlayerInHand ==
  [stack : Int, bet : Int, folded : BOOLEAN, allIn : BOOLEAN, cards : Seq(Cards)]

(***************************************************************************)
(* The inductive invariant.  It holds for award amounts below zero too,    *)
(* which the code does not refuse; a stack then may be below zero, but     *)
(* only after the award.                                                   *)
(***************************************************************************)
Typed ==
  /\ status \in {"", "betting", "complete"}
  /\ phase \in {"", "PREFLOP", "FLOP", "TURN", "RIVER"}
  /\ players \in [DOMAIN players -> PlayerInHand]
  /\ DOMAIN players \subseteq Players
  /\ \A p \in DOMAIN players : players[p].bet \in 0..MaxBet
  /\ \A p \in DOMAIN players : Len(players[p].cards) = getCardsPerPlayer(variant)
  /\ deck \in Seq(Cards)
  /\ pot \in Int /\ currentBet \in Nat /\ minRaise \in Nat

NothingDealt ==
  status = "" => /\ DOMAIN players = {} /\ DOMAIN brought = {} /\ DOMAIN result = {}
                 /\ pot = 0 /\ currentBet = 0 /\ minRaise = 0 /\ phase = ""

NothingAwarded ==
  status = "betting" => DOMAIN result = {}

NoDebts ==
  status = "betting" \/ AwardAmounts \subseteq Nat =>
    \A p \in DOMAIN players : players[p].stack >= 0

\* No card is in two places.
CardsApart ==
  LET Places == 1..getCardsPerPlayer(variant) IN
  /\ \A p, q \in DOMAIN players, i, j \in Places :
       players[p].cards[i] = players[q].cards[j] => p = q /\ i = j
  /\ \A i, j \in 1..Len(deck) : deck[i] = deck[j] => i = j
  /\ \A p \in DOMAIN players, i \in Places, j \in 1..Len(deck) :
       players[p].cards[i] # deck[j]

BroughtByPlayers == brought \in [DOMAIN players -> Nat]

IInv ==
  /\ Typed
  /\ NothingDealt
  /\ NothingAwarded
  /\ NoDebts
  /\ BroughtByPlayers
  /\ CardsApart
  /\ AllInHasNothingLeft
  /\ ChipsConserved

--------------------------------------------------------------------------------
(***************************************************************************)
(* What an accepted command does                                           *)
(***************************************************************************)
Deals ==
  \E stacks \in Partial(Players, Stacks), v \in Variants : DealCards(stacks, v)

\* The players with s for p.
With(p, s) == [players EXCEPT ![p] = s]

\* Chips move between one player's stack and the pot.
Bets ==
  /\ status = "betting"
  /\ \E p \in DOMAIN players, s \in PlayerInHand :
       /\ players' = With(p, s)
       /\ s.stack >= 0 /\ s.bet \in 0..MaxBet
       /\ s.cards = players[p].cards
       /\ s.allIn => s.stack = 0
       /\ players[p].folded => s.folded /\ s.stack <= players[p].stack
       /\ pot' = pot + players[p].stack - s.stack
  /\ currentBet' \in Nat /\ minRaise' \in Nat
  /\ UNCHANGED <<status, phase, community, deck, setup, result>>

\* Cards are shown or exchanged; all but the bets stays as it is.
Keeps(p, s) ==
  /\ s \in PlayerInHand /\ s.bet \in 0..MaxBet
  /\ s.stack = players[p].stack
  /\ s.folded = players[p].folded /\ s.allIn = players[p].allIn
  /\ Len(s.cards) = Len(players[p].cards)

ShowsCards ==
  /\ status = "betting"
  /\ DOMAIN players' = DOMAIN players
  /\ players' = [p \in DOMAIN players |-> players'[p]]
  /\ \A p \in DOMAIN players : Keeps(p, players'[p])
  /\ phase' \in {"", "PREFLOP", "FLOP", "TURN", "RIVER"}
  /\ deck' \in Seq(Cards)
  /\ CardsApart'
  /\ currentBet' \in Nat /\ minRaise' \in Nat
  /\ UNCHANGED <<status, pot, setup, result>>

Awards == \E awards \in Partial(Players, AwardAmounts) : AwardPot(awards)

--------------------------------------------------------------------------------
(***************************************************************************)
(* The updates of the appliers, field by field, are updates of one entry.  *)
(***************************************************************************)
FieldsAfterBlind(p, stack, n) ==
  [players EXCEPT ![p].stack = stack, ![p].bet = @ + n]
AfterBlind(p, stack, n) ==
  [players[p] EXCEPT !.stack = stack, !.bet = @ + n]

FieldsAfterAction(p, stack, n, fold, all) ==
  [players EXCEPT ![p].stack = stack, ![p].folded = @ \/ fold,
                  ![p].allIn = @ \/ all, ![p].bet = @ + n]
AfterAction(p, stack, n, fold, all) ==
  [players[p] EXCEPT !.stack = stack, !.folded = @ \/ fold, !.allIn = @ \/ all,
                     !.bet = @ + n]

LEMMA BlindUpdate ==
  ASSUME players \in [DOMAIN players -> PlayerInHand],
         NEW p \in DOMAIN players, NEW stack \in Int, NEW n \in Int,
         NEW s, s = AfterBlind(p, stack, n)
  PROVE  /\ FieldsAfterBlind(p, stack, n) = With(p, s)
         /\ s \in PlayerInHand
         /\ s.stack = stack /\ s.bet = players[p].bet + n
         /\ s.folded = players[p].folded /\ s.allIn = players[p].allIn
         /\ s.cards = players[p].cards
<1>1. players[p] \in PlayerInHand
  OBVIOUS
<1>2. players[p].bet + n \in Int
  BY <1>1 DEF PlayerInHand
<1>3. s \in PlayerInHand
  BY <1>1, <1>2 DEF PlayerInHand, AfterBlind
<1>4. FieldsAfterBlind(p, stack, n) = With(p, s)
  BY DEF FieldsAfterBlind, With, AfterBlind
<1> QED
  BY <1>1, <1>3, <1>4 DEF PlayerInHand, AfterBlind

LEMMA ActionUpdate ==
  ASSUME players \in [DOMAIN players -> PlayerInHand],
         NEW p \in DOMAIN players, NEW stack \in Int, NEW n \in Int,
         NEW fold \in BOOLEAN, NEW all \in BOOLEAN,
         NEW s, s = AfterAction(p, stack, n, fold, all)
  PROVE  /\ FieldsAfterAction(p, stack, n, fold, all) = With(p, s)
         /\ s \in PlayerInHand
         /\ s.stack = stack /\ s.bet = players[p].bet + n
         /\ s.folded = (players[p].folded \/ fold) /\ s.allIn = (players[p].allIn \/ all)
         /\ s.cards = players[p].cards
<1>1. players[p] \in PlayerInHand
  OBVIOUS
<1>2. /\ players[p].bet + n \in Int
      /\ (players[p].folded \/ fold) \in BOOLEAN /\ (players[p].allIn \/ all) \in BOOLEAN
  BY <1>1 DEF PlayerInHand
<1>3. s \in PlayerInHand
  BY <1>1, <1>2 DEF PlayerInHand, AfterAction
<1>4. FieldsAfterAction(p, stack, n, fold, all) = With(p, s)
  BY DEF FieldsAfterAction, With, AfterAction
<1> QED
  BY <1>1, <1>3, <1>4 DEF PlayerInHand, AfterAction

BetOf == [p \in DOMAIN players |-> players[p].bet]
Raised(p, n) == [BetOf EXCEPT ![p] = @ + n]

LEMMA BetUpdate ==
  ASSUME players \in [DOMAIN players -> PlayerInHand], NEW p \in DOMAIN players,
         NEW s, NEW n, players' = With(p, s), s.bet = players[p].bet + n
  PROVE  BetOf' = Raised(p, n)
BY DEF BetOf, Raised, With

LEMMA PostBlindEffect ==
  ASSUME IInv, NEW p \in Players, NEW amount \in BetAmounts, PostBlind(p, amount)
  PROVE  /\ Bets
         /\ BlindPosted(p, amount).amount \in Nat
         /\ BetOf' = Raised(p, BlindPosted(p, amount).amount)
<1> DEFINE e == BlindPosted(p, amount)
           actual == Lower(amount, players[p].stack)
           left == players[p].stack - actual
           s == AfterBlind(p, left, actual)
<1>1. p \in DOMAIN players /\ amount > 0 /\ status = "betting"
  BY DEF PostBlind, CanPostBlind, exists, isComplete, IInv, Typed
<1>2. /\ players[p] \in PlayerInHand /\ players[p].stack \in Int /\ players[p].stack >= 0
      /\ players[p].bet \in 0..MaxBet /\ MaxBet \in Int
  <2>1. MaxBet \in Int
    BY HandAssumption
  <2>2. players[p] \in PlayerInHand /\ players[p].bet \in 0..MaxBet
    BY <1>1 DEF IInv, Typed
  <2>3. players[p].stack >= 0
    BY <1>1 DEF IInv, NoDebts
  <2> QED
    BY <2>1, <2>2, <2>3 DEF PlayerInHand
<1>3. amount \in Int
  BY HandAssumption
<1>4. /\ actual \in Int /\ actual >= 0 /\ actual <= players[p].stack
      /\ players[p].stack = 0 => actual = 0
  BY <1>1, <1>2, <1>3 DEF Lower
<1>5. e.player = p /\ e.amount = actual /\ e.stack = players[p].stack - actual /\ e.pot = pot + actual
  BY DEF BlindPosted
<1>6. players[p].bet + actual <= MaxBet
  BY <1>5 DEF PostBlind
<1> HIDE DEF e, actual
<1>7. /\ players' = [players EXCEPT ![p].stack = players[p].stack - actual, ![p].bet = @ + actual]
      /\ pot' = pot + actual
      /\ currentBet' = Higher(currentBet, actual)
      /\ minRaise' = IF actual > currentBet THEN actual ELSE minRaise
  BY <1>5 DEF PostBlind, applyBlindPosted, e
<1>8. players \in [DOMAIN players -> PlayerInHand] /\ left \in Int
  <2>1. players \in [DOMAIN players -> PlayerInHand]
    BY DEF IInv, Typed
  <2>2. left \in Int
    BY <1>2, <1>4
  <2> QED
    BY <2>1, <2>2
<1>9. /\ players' = With(p, s) /\ s \in PlayerInHand
      /\ s.stack = left /\ s.bet = players[p].bet + actual
      /\ s.folded = players[p].folded /\ s.allIn = players[p].allIn
      /\ s.cards = players[p].cards
  <2>1. players' = FieldsAfterBlind(p, left, actual)
    BY <1>7 DEF FieldsAfterBlind
  <2> HIDE DEF left
  <2> QED
    BY <1>1, <1>4, <1>8, <2>1, BlindUpdate
<1>10. players[p].allIn => players[p].stack = 0
  BY <1>1 DEF IInv, AllInHasNothingLeft
<1>11. pot \in Int /\ currentBet \in Nat /\ minRaise \in Nat
  BY DEF IInv, Typed
<1> HIDE DEF s
<1>12. currentBet' \in Nat /\ minRaise' \in Nat
  BY <1>4, <1>7, <1>11 DEF Higher
<1>13. UNCHANGED <<status, phase, community, deck, setup, result>>
  BY DEF PostBlind
<1>14. /\ s.stack >= 0 /\ s.bet \in 0..MaxBet
       /\ s.allIn => s.stack = 0
       /\ players[p].folded => s.folded /\ s.stack <= players[p].stack
       /\ pot' = pot + players[p].stack - s.stack
  BY <1>2, <1>4, <1>6, <1>7, <1>9, <1>10, <1>11
<1>15. Bets
  BY <1>1, <1>9, <1>12, <1>13, <1>14 DEF Bets
<1>16. BetOf' = Raised(p, actual)
  BY <1>1, <1>8, <1>9, BetUpdate
<1> QED
  BY <1>4, <1>5, <1>15, <1>16 DEF e

\* What an action takes from a stack, and what it adds to the player's bet:
\* never more than the stack, all of it when the event is an all-in.  A raise
\* to less than the player's bet takes a negative amount.
LEMMA ActionBounds ==
  ASSUME NEW v \in [stack : Nat, bet : Nat, currentBet : Nat, minRaise : Nat],
         NEW action \in Actions, NEW amount \in Int, Valid(v, action, amount),
         DefaultMinBet \in Nat,
         NEW actual, actual = ActualAmount(v, action, amount)
  PROVE  /\ actual \in Int /\ actual <= v.stack
         /\ EmittedAmount(action, amount, actual) \in Nat
         /\ EmittedAction(v, action, actual) = "ALL_IN" => actual = v.stack
<1>1. /\ v.stack \in Nat /\ v.bet \in Nat /\ v.currentBet \in Nat /\ v.minRaise \in Nat
  OBVIOUS
<1>2. CASE action = "FOLD"
  BY <1>1, <1>2 DEF ActualAmount, EmittedAmount, EmittedAction
<1>3. CASE action \in {"CHECK", "CALL"}
  BY <1>1, <1>3 DEF ActualAmount, EmittedAmount, EmittedAction, Higher, Lower, AmountToCall
<1>4. CASE action = "BET"
  BY <1>1, <1>4 DEF Valid, ActualAmount, EmittedAmount, EmittedAction, Lower
<1>5. CASE action = "RAISE"
  BY <1>1, <1>5 DEF Valid, ActualAmount, EmittedAmount, EmittedAction, Lower
<1>6. CASE action = "ALL_IN"
  BY <1>1, <1>6 DEF ActualAmount, EmittedAmount, EmittedAction
<1> QED
  BY <1>2, <1>3, <1>4, <1>5, <1>6 DEF Actions

LEMMA PlayerActionEffect ==
  ASSUME IInv, NEW p \in Players, NEW action \in Actions, NEW amount \in BetAmounts,
         PlayerAction(p, action, amount)
  PROVE  /\ Bets
         /\ BetOf' = Raised(p, Invested(ActionTaken(p, View(p), action, amount)))
<1> DEFINE v == View(p)
           actual == ActualAmount(v, action, amount)
           e == ActionTaken(p, v, action, amount)
           fold == e.action = "FOLD"
           all == e.action = "ALL_IN"
           left == players[p].stack - actual
           s == AfterAction(p, left, Invested(e), fold, all)
<1>1. /\ p \in DOMAIN players /\ status = "betting"
      /\ ~players[p].folded /\ ~players[p].allIn
      /\ Valid(v, action, amount)
  BY DEF PlayerAction, MayAct
<1>2. /\ players \in [DOMAIN players -> PlayerInHand]
      /\ players[p] \in PlayerInHand
      /\ players[p].bet \in 0..MaxBet
      /\ pot \in Int /\ currentBet \in Nat /\ minRaise \in Nat
  BY <1>1 DEF IInv, Typed
<1>3. players[p].stack \in Int /\ players[p].stack >= 0
  BY <1>1, <1>2 DEF IInv, NoDebts, PlayerInHand
<1>4. MaxBet \in Nat /\ DefaultMinBet \in Nat /\ amount \in Int
  BY HandAssumption
<1>5. /\ v \in [stack : Nat, bet : Nat, currentBet : Nat, minRaise : Nat]
      /\ v.stack = players[p].stack /\ v.bet = players[p].bet /\ v.currentBet = currentBet
  BY <1>2, <1>3, <1>4 DEF View
<1>6. /\ e.player = p
      /\ e.action = EmittedAction(v, action, actual)
      /\ e.amount = EmittedAmount(action, amount, actual)
      /\ e.stack = left /\ e.pot = pot + actual
      /\ e.toCall = Higher(v.currentBet, v.bet + actual)
  BY <1>5 DEF ActionTaken
<1>7. /\ players' = FieldsAfterAction(p, left, Invested(e), fold, all)
      /\ pot' = pot + actual
      /\ currentBet' = e.toCall
      /\ minRaise' = Higher(minRaise, e.toCall - currentBet)
      /\ players[p].bet + e.amount <= MaxBet
      /\ UNCHANGED <<status, phase, community, deck, setup, result>>
  <2>1. applyActionTaken(e) /\ players[p].bet + e.amount <= MaxBet
    BY DEF PlayerAction
  <2> HIDE DEF e
  <2>2. e.player = p /\ e.stack = left /\ e.pot = pot + actual
    BY <1>6
  <2>3. UNCHANGED <<status, phase, community, deck, setup, result>>
    BY DEF PlayerAction
  <2> QED
    BY <2>1, <2>2, <2>3 DEF applyActionTaken, FieldsAfterAction
<1> HIDE DEF e, actual, v
<1>8. /\ actual \in Int /\ actual <= v.stack
      /\ e.amount \in Nat
      /\ e.action = "ALL_IN" => actual = v.stack
  BY <1>1, <1>4, <1>5, <1>6, ActionBounds DEF actual
<1>9. Invested(e) \in Nat /\ Invested(e) <= e.amount
  BY <1>8 DEF Invested
<1>10. fold \in BOOLEAN /\ all \in BOOLEAN /\ left \in Int
  BY <1>3, <1>8
<1>11. all => left = 0
  BY <1>3, <1>5, <1>8
<1>12. left >= 0
  BY <1>3, <1>5, <1>8
<1>13. pot' = pot + players[p].stack - left
  BY <1>2, <1>3, <1>7, <1>8
<1> HIDE DEF fold, all, left
<1>14. /\ players' = With(p, s) /\ s \in PlayerInHand
       /\ s.stack = left /\ s.bet = players[p].bet + Invested(e)
       /\ s.allIn = (players[p].allIn \/ all)
       /\ s.cards = players[p].cards
  <2>1. Invested(e) \in Int
    BY <1>9
  <2> QED
    BY <1>1, <1>2, <1>7, <1>10, <2>1, ActionUpdate
<1> HIDE DEF s
<1>15. s.bet \in 0..MaxBet
  BY <1>2, <1>4, <1>7, <1>8, <1>9, <1>14
<1>16. s.allIn => s.stack = 0
  BY <1>1, <1>11, <1>14
<1>17. currentBet' \in Nat /\ minRaise' \in Nat
  <2>1. e.toCall \in Nat
    BY <1>2, <1>5, <1>6, <1>8 DEF Higher
  <2> QED
    BY <1>2, <1>7, <2>1 DEF Higher
<1>18. Bets
  BY <1>1, <1>7, <1>12, <1>13, <1>14, <1>15, <1>16, <1>17 DEF Bets
<1>19. BetOf' = Raised(p, Invested(e))
  BY <1>1, <1>2, <1>14, BetUpdate
<1> QED
  BY <1>18, <1>19 DEF e, v

LEMMA StreetEffect ==
  ASSUME IInv, DealCommunityCards
  PROVE  ShowsCards
<1>1. /\ status = "betting"
      /\ phase \in DOMAIN Streets
      /\ phase' = Streets[phase].phase
      /\ currentBet' = 0 /\ minRaise' = 0
      /\ players' = [p \in DOMAIN players |-> [players[p] EXCEPT !.bet = 0]]
      /\ UNCHANGED <<status, pot, deck, setup, result>>
  BY DEF DealCommunityCards, exists, isComplete, IInv, Typed
<1>2. phase' \in {"", "PREFLOP", "FLOP", "TURN", "RIVER"}
  <2>1. phase \in {"PREFLOP", "FLOP", "TURN"}
    BY <1>1 DEF Streets
  <2>2. Streets[phase].phase \in {"FLOP", "TURN", "RIVER"}
    BY <2>1 DEF Streets
  <2> QED
    BY <1>1, <2>2
<1>3. MaxBet \in Nat
  BY HandAssumption
<1>4. ASSUME NEW p \in DOMAIN players
      PROVE  Keeps(p, players'[p]) /\ players'[p].cards = players[p].cards
  <2>1. players[p] \in PlayerInHand
    BY DEF IInv, Typed
  <2>2. players'[p] = [players[p] EXCEPT !.bet = 0]
    BY <1>1
  <2> QED
    BY <1>3, <2>1, <2>2 DEF Keeps, PlayerInHand
<1>5. DOMAIN players' = DOMAIN players /\ players' = [p \in DOMAIN players |-> players'[p]]
  BY <1>1
<1>6. deck \in Seq(Cards) /\ deck' = deck /\ variant' = variant
  BY <1>1 DEF IInv, Typed, setup
<1>7. CardsApart'
  BY <1>4, <1>5, <1>6 DEF IInv, CardsApart
<1>8. deck' \in Seq(Cards) /\ currentBet' \in Nat /\ minRaise' \in Nat
  BY <1>1, <1>6
<1> QED
  BY <1>1, <1>2, <1>4, <1>5, <1>7, <1>8 DEF ShowsCards

\* The cards of a player who drew n, and what stays in the deck: places
\* beyond the cards kept are filled from the top of the deck.
NewCards(c, d, n) == SubSeq(c, 1, Len(c) - n) \o SubSeq(d, 1, n)
RestOfDeck(d, n) == SubSeq(d, n + 1, Len(d))

DrawnFrom(c, d, n, new, rest) ==
  /\ new \in Seq(Cards) /\ Len(new) = Len(c)
  /\ \A i \in 1..Len(c) :
       new[i] = IF i <= Len(c) - n THEN c[i] ELSE d[i - (Len(c) - n)]
  /\ rest \in Seq(Cards) /\ Len(rest) = Len(d) - n
  /\ \A j \in 1..Len(rest) : rest[j] = d[n + j]

LEMMA Drawn ==
  ASSUME NEW c \in Seq(Cards), NEW d \in Seq(Cards), NEW n \in Nat,
         n <= Len(c), n <= Len(d)
  PROVE  DrawnFrom(c, d, n, NewCards(c, d, n), RestOfDeck(d, n))
<1> DEFINE new == NewCards(c, d, n)
           rest == RestOfDeck(d, n)
<1>1. /\ Len(c) \in Nat /\ Len(d) \in Nat
      /\ \A i \in 1..Len(c) : c[i] \in Cards
      /\ \A i \in 1..Len(d) : d[i] \in Cards
  BY LenProperties, ElementOfSeq
<1> DEFINE kept == SubSeq(c, 1, Len(c) - n)
           top == SubSeq(d, 1, n)
<1>2. /\ kept \in Seq(Cards) /\ Len(kept) = Len(c) - n
      /\ \A i \in 1..(Len(c) - n) : kept[i] = c[i]
  <2>1. 1 \in Int /\ Len(c) - n \in Int /\ \A i \in 1..(Len(c) - n) : c[i] \in Cards
    BY <1>1
  <2>2. /\ kept \in Seq(Cards)
        /\ Len(kept) = IF 1 <= Len(c) - n THEN Len(c) - n - 1 + 1 ELSE 0
        /\ \A i \in 1..(Len(c) - n - 1 + 1) : kept[i] = c[1 + i - 1]
    BY <2>1, SubSeqProperties
  <2> HIDE DEF kept
  <2> QED
    BY <1>1, <2>2
<1>3. /\ top \in Seq(Cards) /\ Len(top) = n
      /\ \A i \in 1..n : top[i] = d[i]
  <2>1. 1 \in Int /\ n \in Int /\ \A i \in 1..n : d[i] \in Cards
    BY <1>1
  <2>2. /\ top \in Seq(Cards)
        /\ Len(top) = IF 1 <= n THEN n - 1 + 1 ELSE 0
        /\ \A i \in 1..(n - 1 + 1) : top[i] = d[1 + i - 1]
    BY <2>1, SubSeqProperties
  <2> HIDE DEF top
  <2> QED
    BY <1>1, <2>2
<1>4. /\ rest \in Seq(Cards) /\ Len(rest) = Len(d) - n
      /\ \A j \in 1..Len(rest) : rest[j] = d[n + j]
  <2>1. n + 1 \in Int /\ Len(d) \in Int /\ \A i \in (n + 1)..Len(d) : d[i] \in Cards
    BY <1>1
  <2>2. /\ rest \in Seq(Cards)
        /\ Len(rest) = IF n + 1 <= Len(d) THEN Len(d) - (n + 1) + 1 ELSE 0
        /\ \A i \in 1..(Len(d) - (n + 1) + 1) : rest[i] = d[n + 1 + i - 1]
    BY <2>1, SubSeqProperties DEF RestOfDeck
  <2> HIDE DEF rest
  <2> QED
    BY <1>1, <2>2
<1> HIDE DEF kept, top, rest
<1>5. new = kept \o top
  BY DEF kept, top, NewCards
<1> HIDE DEF new
<1>6. /\ new \in Seq(Cards) /\ Len(new) = Len(kept) + Len(top)
      /\ \A i \in 1..(Len(kept) + Len(top)) :
           new[i] = IF i <= Len(kept) THEN kept[i] ELSE top[i - Len(kept)]
  <2>1. kept \in Seq(Cards) /\ top \in Seq(Cards)
    BY <1>2, <1>3
  <2>2. /\ kept \o top \in Seq(Cards)
        /\ Len(kept \o top) = Len(kept) + Len(top)
        /\ \A i \in 1..(Len(kept) + Len(top)) :
             (kept \o top)[i] = IF i <= Len(kept) THEN kept[i] ELSE top[i - Len(kept)]
    BY <2>1, ConcatProperties, Zenon
  <2> QED
    BY <1>5, <2>2, Zenon
<1>7. Len(new) = Len(c)
  BY <1>1, <1>2, <1>3, <1>6
<1>8. ASSUME NEW i \in 1..Len(c)
      PROVE  new[i] = IF i <= Len(c) - n THEN c[i] ELSE d[i - (Len(c) - n)]
  <2>1. i \in 1..(Len(kept) + Len(top)) /\ Len(kept) = Len(c) - n
    BY <1>1, <1>2, <1>3
  <2>2. new[i] = IF i <= Len(kept) THEN kept[i] ELSE top[i - Len(kept)]
    BY <1>6, <2>1
  <2>3. CASE i <= Len(kept)
    <3>1. i \in 1..(Len(c) - n)
      BY <1>1, <2>1, <2>3
    <3> QED
      BY <1>2, <2>1, <2>2, <2>3, <3>1
  <2>4. CASE ~(i <= Len(kept))
    <3>1. i - Len(kept) \in 1..n
      BY <1>1, <1>2, <2>1, <2>4
    <3> QED
      BY <1>3, <2>1, <2>2, <2>4, <3>1
  <2> QED
    BY <2>3, <2>4
<1> QED
  BY <1>4, <1>6, <1>7, <1>8 DEF DrawnFrom, new, rest

LEMMA DrawEffect ==
  ASSUME IInv, NEW p \in Players,
         NEW indices \in SUBSET (1..getCardsPerPlayer(variant)), RequestDraw(p, indices)
  PROVE  ShowsCards
<1> DEFINE n == Cardinality(indices)
           c == players[p].cards
           new == SubSeq(c, 1, Len(c) - n) \o SubSeq(deck, 1, n)
           s == [players[p] EXCEPT !.cards = new]
           k == getCardsPerPlayer(variant)
<1>1. /\ status = "betting" /\ p \in DOMAIN players
      /\ indices \subseteq DOMAIN c /\ Len(deck) >= n
      /\ players' = [players EXCEPT ![p].cards = SubSeq(@, 1, Len(@) - n) \o SubSeq(deck, 1, n)]
      /\ deck' = SubSeq(deck, n + 1, Len(deck))
      /\ UNCHANGED <<status, betting, phase, community, setup, result>>
  BY DEF RequestDraw, exists, isComplete, IInv, Typed
<1>2. /\ players \in [DOMAIN players -> PlayerInHand] /\ players[p] \in PlayerInHand
      /\ deck \in Seq(Cards) /\ c \in Seq(Cards) /\ Len(c) = k
  BY <1>1 DEF IInv, Typed, PlayerInHand
<1>3. n \in Nat /\ n <= Len(c)
  <2>1. Len(c) \in Nat /\ DOMAIN c = 1..Len(c)
    BY <1>2, LenProperties
  <2>2. IsFiniteSet(1..Len(c)) /\ Cardinality(1..Len(c)) = Len(c)
    <3>1. 1 \in Int /\ Len(c) \in Int
      BY <2>1
    <3>2. /\ IsFiniteSet(1..Len(c))
          /\ Cardinality(1..Len(c)) = IF 1 > Len(c) THEN 0 ELSE Len(c) - 1 + 1
      BY <3>1, FS_Interval
    <3> QED
      BY <2>1, <3>2
  <2>3. IsFiniteSet(indices) /\ n <= Cardinality(1..Len(c))
    BY <1>1, <2>1, <2>2, FS_Subset
  <2> QED
    BY <2>2, <2>3, FS_CardinalityType
<1> HIDE DEF n, c, k
<1>4. /\ new \in Seq(Cards) /\ Len(new) = Len(c)
      /\ \A i \in 1..Len(c) :
           new[i] = IF i <= Len(c) - n THEN c[i] ELSE deck[i - (Len(c) - n)]
      /\ deck' \in Seq(Cards) /\ Len(deck') = Len(deck) - n
      /\ \A j \in 1..Len(deck') : deck'[j] = deck[n + j]
  <2>1. n <= Len(deck)
    <3>1. Len(deck) \in Nat
      BY <1>2, LenProperties
    <3> QED
      BY <1>1, <1>3, <3>1
  <2> HIDE DEF new
  <2>2. new = NewCards(c, deck, n)
    BY DEF new, NewCards
  <2>3. deck' = RestOfDeck(deck, n)
    BY <1>1 DEF RestOfDeck
  <2>4. DrawnFrom(c, deck, n, NewCards(c, deck, n), RestOfDeck(deck, n))
    BY <1>2, <1>3, <2>1, Drawn
  <2> QED
    BY <2>2, <2>3, <2>4 DEF DrawnFrom
<1>5. players' = With(p, s)
  BY <1>1, <1>2 DEF With, c
<1> HIDE DEF new
<1>6. s \in PlayerInHand /\ s.cards = new /\ Keeps(p, s)
  <2>1. players[p].bet \in 0..MaxBet
    BY <1>1 DEF IInv, Typed
  <2>2. s \in PlayerInHand /\ s.cards = new
    BY <1>2, <1>4 DEF PlayerInHand
  <2>3. /\ s.stack = players[p].stack /\ s.bet = players[p].bet
        /\ s.folded = players[p].folded /\ s.allIn = players[p].allIn
    BY <1>2 DEF PlayerInHand
  <2> QED
    BY <1>4, <2>1, <2>2, <2>3 DEF Keeps, c
<1> HIDE DEF s
<1>7. /\ DOMAIN players' = DOMAIN players
      /\ players' = [q \in DOMAIN players |-> players'[q]]
      /\ players'[p] = s
      /\ \A q \in DOMAIN players : q # p => players'[q] = players[q]
  BY <1>1, <1>2, <1>5 DEF With
<1>8. ASSUME NEW q \in DOMAIN players
      PROVE  Keeps(q, players'[q])
  <2>1. players[q] \in PlayerInHand /\ players[q].bet \in 0..MaxBet
    BY DEF IInv, Typed
  <2>2. Keeps(q, players[q])
    BY <2>1 DEF Keeps
  <2> QED
    BY <1>6, <1>7, <2>2
<1>9. CardsApart'
  <2>1. variant' = variant
    BY <1>1 DEF setup
  <2>2. Len(c) = k /\ k \in Nat /\ Len(deck) \in Nat
    BY <1>2, LenProperties
  <2>3. /\ \A q, r \in DOMAIN players, i, j \in 1..k :
             players[q].cards[i] = players[r].cards[j] => q = r /\ i = j
        /\ \A i, j \in 1..Len(deck) : deck[i] = deck[j] => i = j
        /\ \A q \in DOMAIN players, i \in 1..k, j \in 1..Len(deck) :
             players[q].cards[i] # deck[j]
    BY DEF IInv, CardsApart, k
  <2> DEFINE old == k - n
  \* Where the card at place i of player q was before.
  <2>4. ASSUME NEW q \in DOMAIN players, NEW i \in 1..k
        PROVE  IF q = p /\ i > old
               THEN i - old \in 1..n /\ players'[q].cards[i] = deck[i - old]
               ELSE players'[q].cards[i] = players[q].cards[i]
    <3>1. CASE q = p
      <4>1. players'[q].cards[i] = IF i <= Len(c) - n THEN c[i] ELSE deck[i - (Len(c) - n)]
        BY <1>4, <1>6, <1>7, <2>2, <3>1
      <4>2. c[i] = players[q].cards[i]
        BY <3>1 DEF c
      <4>3. i > old => i - old \in 1..n
        BY <1>3, <2>2
      <4> QED
        BY <1>3, <2>2, <3>1, <4>1, <4>2, <4>3
    <3>2. CASE q # p
      BY <1>7, <3>2
    <3> QED
      BY <3>1, <3>2
  <2>5. ASSUME NEW j \in 1..Len(deck')
        PROVE  deck'[j] = deck[n + j] /\ n + j \in 1..Len(deck) /\ n + j > n
    BY <1>3, <1>4, <2>2
  <2>6. \A i \in 1..n : i \in 1..Len(deck)
    BY <1>1, <1>3, <2>2
  <2>7. ASSUME NEW q \in DOMAIN players, NEW r \in DOMAIN players,
               NEW i \in 1..k, NEW j \in 1..k,
               players'[q].cards[i] = players'[r].cards[j]
        PROVE  q = r /\ i = j
    <3>1. CASE (q = p /\ i > old) /\ (r = p /\ j > old)
      <4>1. deck[i - old] = deck[j - old] /\ i - old \in 1..Len(deck) /\ j - old \in 1..Len(deck)
        BY <2>4, <2>6, <2>7, <3>1
      <4>2. i - old = j - old
        BY <2>3, <4>1
      <4> QED
        BY <1>3, <2>2, <3>1, <4>2
    <3>2. CASE (q = p /\ i > old) /\ ~(r = p /\ j > old)
      <4>1. deck[i - old] = players[r].cards[j] /\ i - old \in 1..Len(deck)
        BY <2>4, <2>6, <2>7, <3>2
      <4> QED
        BY <2>3, <4>1
    <3>3. CASE ~(q = p /\ i > old) /\ (r = p /\ j > old)
      <4>1. players[q].cards[i] = deck[j - old] /\ j - old \in 1..Len(deck)
        BY <2>4, <2>6, <2>7, <3>3
      <4> QED
        BY <2>3, <4>1
    <3>4. CASE ~(q = p /\ i > old) /\ ~(r = p /\ j > old)
      <4>1. players[q].cards[i] = players[r].cards[j]
        BY <2>4, <2>7, <3>4
      <4> QED
        BY <2>3, <4>1
    <3> QED
      BY <3>1, <3>2, <3>3, <3>4
  <2>8. ASSUME NEW i \in 1..Len(deck'), NEW j \in 1..Len(deck'), deck'[i] = deck'[j]
        PROVE  i = j
    <3>1. n + i = n + j
      BY <2>3, <2>5, <2>8
    <3> QED
      BY <1>3, <3>1
  <2>9. ASSUME NEW q \in DOMAIN players, NEW i \in 1..k, NEW j \in 1..Len(deck'),
               players'[q].cards[i] = deck'[j]
        PROVE  FALSE
    <3>1. CASE q = p /\ i > old
      <4>1. deck[i - old] = deck[n + j] /\ i - old \in 1..Len(deck) /\ i - old \in 1..n
        BY <2>4, <2>5, <2>6, <2>9, <3>1
      <4>2. i - old = n + j
        BY <2>3, <2>5, <4>1
      <4> QED
        BY <1>3, <2>5, <4>1, <4>2
    <3>2. CASE ~(q = p /\ i > old)
      <4>1. players[q].cards[i] = deck[n + j]
        BY <2>4, <2>5, <2>9, <3>2
      <4> QED
        BY <2>3, <2>5, <4>1
    <3> QED
      BY <3>1, <3>2
  <2>10. getCardsPerPlayer(variant)' = k
    BY <2>1 DEF k, getCardsPerPlayer
  <2> QED
    BY <1>7, <2>7, <2>8, <2>9, <2>10 DEF CardsApart
<1>10. /\ phase' \in {"", "PREFLOP", "FLOP", "TURN", "RIVER"}
       /\ currentBet' \in Nat /\ minRaise' \in Nat
       /\ UNCHANGED <<status, pot, setup, result>>
  BY <1>1 DEF IInv, Typed, betting
<1> QED
  BY <1>1, <1>4, <1>7, <1>8, <1>9, <1>10 DEF ShowsCards

LEMMA StepEffect ==
  ASSUME IInv, [Next]_vars
  PROVE  UNCHANGED vars \/ Deals \/ Bets \/ ShowsCards \/ Awards
<1>1. ASSUME NEW p \in Players, NEW amount \in BetAmounts, PostBlind(p, amount)
      PROVE  Bets
  BY <1>1, PostBlindEffect
<1>2. ASSUME NEW p \in Players, NEW action \in Actions, NEW amount \in BetAmounts,
             PlayerAction(p, action, amount)
      PROVE  Bets
  BY <1>2, PlayerActionEffect
<1>3. ASSUME NEW p \in Players, NEW indices \in SUBSET (1..getCardsPerPlayer(variant)),
             RequestDraw(p, indices)
      PROVE  ShowsCards
  BY <1>3, DrawEffect
<1>4. DealCommunityCards => ShowsCards
  BY StreetEffect
<1> QED
  BY <1>1, <1>2, <1>3, <1>4 DEF Next, Deals, Awards

--------------------------------------------------------------------------------
LEMMA InitIInv == Init => IInv
<1> SUFFICES ASSUME Init PROVE IInv
  OBVIOUS
<1>1. players = <<>> /\ deck = <<>> /\ brought = <<>> /\ result = <<>>
  BY DEF Init
<1>2. DOMAIN players = {} /\ DOMAIN brought = {} /\ DOMAIN result = {} /\ DOMAIN Stack = {}
  <2>1. DOMAIN players = {}
    BY <1>1
  <2>2. DOMAIN brought = {} /\ DOMAIN result = {}
    BY <1>1
  <2>3. DOMAIN Stack = {}
    BY <2>1 DEF Stack
  <2> QED
    BY <2>1, <2>2, <2>3
<1>3. /\ status = "" /\ phase = "" /\ pot = 0 /\ currentBet = 0 /\ minRaise = 0
  BY DEF Init
<1>4. players \in [{} -> PlayerInHand] /\ brought \in [{} -> Nat]
  <2>1. players \in [{} -> PlayerInHand]
    BY <1>1
  <2>2. brought \in [{} -> Nat]
    BY <1>1
  <2> QED
    BY <2>1, <2>2
<1>5. deck \in Seq(Cards) /\ Len(deck) = 0
  BY <1>1, EmptySeq
<1>6. Typed
  <2>1. /\ players \in [DOMAIN players -> PlayerInHand] /\ DOMAIN players \subseteq Players
        /\ \A p \in DOMAIN players : players[p].bet \in 0..MaxBet
        /\ \A p \in DOMAIN players : Len(players[p].cards) = getCardsPerPlayer(variant)
    BY <1>2, <1>4
  <2>2. pot \in Int /\ currentBet \in Nat /\ minRaise \in Nat
    <3>1. 0 \in Int /\ 0 \in Nat
      OBVIOUS
    <3> QED
      BY <1>3, <3>1, Zenon
  <2> QED
    BY <1>3, <1>5, <2>1, <2>2 DEF Typed
<1>7. Total(Stack) = 0 /\ Total(result) = 0 /\ Total(brought) = 0
  BY <1>2, TotalEmpty
<1>8. ChipsConserved
  <2>1. 0 + 0 - 0 = 0
    OBVIOUS
  <2> QED
    BY <1>3, <1>7, <2>1 DEF ChipsConserved
<1>9. CardsApart
  BY <1>2, <1>5 DEF CardsApart
<1>10. /\ NothingDealt /\ NothingAwarded /\ NoDebts /\ BroughtByPlayers
       /\ AllInHasNothingLeft
  BY <1>2, <1>3, <1>4 DEF NothingDealt, NothingAwarded, NoDebts, BroughtByPlayers,
     AllInHasNothingLeft
<1> QED
  BY <1>6, <1>8, <1>9, <1>10 DEF IInv

\* The players' turns to be dealt, from 0 in the order of their numbers.
Turn(D, p) == Cardinality({q \in D : q < p})

LEMMA Turns ==
  ASSUME NEW D \in SUBSET Nat, IsFiniteSet(D), NEW p \in D
  PROVE  /\ Cardinality(D) \in Nat
         /\ Turn(D, p) \in 0..(Cardinality(D) - 1)
         /\ \A q \in D : p < q => Turn(D, p) < Turn(D, q)
<1>1. ASSUME NEW S \in SUBSET D, NEW R \in SUBSET S, R # S
      PROVE  /\ Cardinality(S) \in Nat /\ Cardinality(R) \in Nat
             /\ Cardinality(R) < Cardinality(S)
  <2>1. IsFiniteSet(S)
    BY FS_Subset
  <2>2. IsFiniteSet(R) /\ Cardinality(R) <= Cardinality(S) /\ Cardinality(R) # Cardinality(S)
    BY <1>1, <2>1, FS_Subset
  <2>3. Cardinality(S) \in Nat /\ Cardinality(R) \in Nat
    BY <2>1, <2>2, FS_CardinalityType
  <2> QED
    BY <2>2, <2>3
<1> DEFINE Before(q) == {r \in D : r < q}
<1>2. p \in Nat /\ Before(p) \in SUBSET D /\ p \notin Before(p)
  OBVIOUS
<1>3. Cardinality(D) \in Nat /\ Turn(D, p) \in 0..(Cardinality(D) - 1)
  <2>1. D \in SUBSET D /\ Before(p) # D
    BY <1>2
  <2> HIDE DEF Before
  <2>2. Cardinality(D) \in Nat /\ Cardinality(Before(p)) \in Nat /\ Cardinality(Before(p)) < Cardinality(D)
    BY <1>1, <1>2, <2>1
  <2>3. Turn(D, p) = Cardinality(Before(p))
    BY DEF Turn, Before
  <2> QED
    BY <2>2, <2>3
<1>4. ASSUME NEW q \in D, p < q
      PROVE  Turn(D, p) < Turn(D, q)
  <2>1. q \in Nat
    OBVIOUS
  <2>2. ASSUME NEW r \in D, r < p
        PROVE  r < q
    <3>1. r \in Nat
      OBVIOUS
    <3> QED
      BY <1>2, <1>4, <2>1, <2>2, <3>1
  <2>3. Before(p) \in SUBSET Before(q) /\ p \in Before(q) /\ Before(q) \in SUBSET D
    BY <1>4, <2>2
  <2>4. Before(p) # Before(q)
    BY <1>2, <2>3
  <2> HIDE DEF Before
  <2>5. Cardinality(Before(p)) < Cardinality(Before(q))
    BY <1>1, <2>3, <2>4
  <2> QED
    BY <2>5 DEF Turn, Before
<1> QED
  BY <1>3, <1>4

\* Where in the deck the cards of a turn begin.
Offset(t, k) == t * k

LEMMA PlacesApart ==
  ASSUME NEW k \in {2, 4, 5}, NEW t \in Nat, NEW u \in Nat, t < u
  PROVE  /\ Offset(t, k) \in Nat /\ Offset(u, k) \in Nat
         /\ Offset(t, k) + k <= Offset(u, k)
<1>1. CASE k = 2
  BY <1>1 DEF Offset
<1>2. CASE k = 4
  BY <1>2 DEF Offset
<1>3. CASE k = 5
  BY <1>3 DEF Offset
<1> QED
  BY <1>1, <1>2, <1>3

LEMMA DealsIInv ==
  ASSUME IInv, Deals
  PROVE  IInv'
<1>1. PICK stacks \in Partial(Players, Stacks), v \in Variants : DealCards(stacks, v)
  BY DEF Deals
<1> DEFINE D == DOMAIN stacks
           k == getCardsPerPlayer(v)
           n == Cardinality(D)
           dealt == [p \in D |->
                       [stack |-> stacks[p], bet |-> 0, folded |-> FALSE, allIn |-> FALSE,
                        cards |-> SubSeq(Deck, Offset(Turn(D, p), k) + 1, Offset(Turn(D, p), k) + k)]]
           rest == SubSeq(Deck, Offset(n, k) + 1, DeckSize)
<1>2. D \in SUBSET Players /\ stacks \in [D -> Stacks]
  BY DEF Partial
<1>3. /\ Players \subseteq Nat /\ IsFiniteSet(Players) /\ Stacks \subseteq Nat
      /\ MaxBet \in Nat /\ DeckSize \in Nat
  BY HandAssumption
<1>4. /\ D \in SUBSET Nat /\ IsFiniteSet(D) /\ stacks \in [D -> Nat]
      /\ n \in Nat /\ n = Cardinality(D)
  BY <1>2, <1>3, FS_Subset, FS_CardinalityType
<1>5. /\ status = "" /\ Offset(n, k) <= DeckSize
      /\ status' = "betting" /\ players' = dealt /\ deck' = rest /\ phase' = "PREFLOP"
      /\ brought' = stacks /\ variant' = v
      /\ UNCHANGED <<betting, community, result>>
  BY <1>1 DEF DealCards, exists, Turn, Offset
<1>6. k \in {2, 4, 5}
  BY DEF getCardsPerPlayer
<1>7. Deck \in Seq(Cards) /\ Len(Deck) = DeckSize /\ \A i \in 1..DeckSize : Deck[i] = i
  <2>1. Deck \in [1..DeckSize -> Cards]
    BY DEF Deck, Cards
  <2>2. Deck \in Seq(Cards)
    <3>1. [1..DeckSize -> Cards] \in {[1..m -> Cards] : m \in Nat}
      BY <1>3
    <3> QED
      BY <2>1, <3>1, SeqDef, Zenon
  <2>3. 1..Len(Deck) = 1..DeckSize /\ Len(Deck) \in Nat
    BY <2>1, <2>2, LenProperties
  <2> QED
    BY <1>3, <2>2, <2>3 DEF Deck
<1>8. DOMAIN result = {} /\ pot = 0 /\ pot' = 0 /\ currentBet' = 0 /\ minRaise' = 0
  BY <1>5 DEF IInv, NothingDealt, betting
<1> HIDE DEF k, n
<1>9. ASSUME NEW p \in D
      PROVE  /\ Turn(D, p) \in 0..(n - 1)
             /\ dealt[p].cards \in Seq(Cards) /\ Len(dealt[p].cards) = k
             /\ \A i \in 1..k : dealt[p].cards[i] = Offset(Turn(D, p), k) + i
  <2> DEFINE t == Turn(D, p)
             a == Offset(t, k) + 1
             b == Offset(t, k) + k
  <2>1. t \in 0..(n - 1)
    BY <1>4, Turns DEF n
  <2> HIDE DEF t
  <2>2. Offset(t, k) \in Nat /\ \A i \in 1..k : Offset(t, k) + i \in 1..DeckSize
    <3>1. n \in Nat /\ t \in Nat /\ t < n
      BY <1>4, <2>1
    <3>2. /\ Offset(t, k) \in Nat /\ Offset(n, k) \in Nat
          /\ Offset(t, k) + k <= Offset(n, k)
      BY <1>6, <3>1, PlacesApart
    <3>3. Offset(n, k) <= DeckSize /\ k \in Nat /\ DeckSize \in Nat
      <4>1. Offset(n, k) <= DeckSize
        BY <1>5, Zenon
      <4> QED
        BY <1>3, <1>6, <4>1
    <3> QED
      BY <3>2, <3>3
  <2>3. a \in Int /\ b \in Int /\ b - a + 1 = k /\ k \in Nat /\ a <= b
    BY <1>6, <2>2
  <2>4. \A i \in a..b : Deck[i] \in Cards
    <3> SUFFICES ASSUME NEW i \in a..b PROVE Deck[i] \in Cards
      OBVIOUS
    <3>1. i - Offset(t, k) \in 1..k /\ i = Offset(t, k) + (i - Offset(t, k))
      BY <1>6, <2>2
    <3>2. i \in 1..DeckSize
      BY <2>2, <3>1
    <3> QED
      BY <1>7, <3>2 DEF Cards
  <2>5. dealt[p].cards = SubSeq(Deck, a, b)
    BY DEF t
  <2> HIDE DEF a, b
  <2>6. /\ SubSeq(Deck, a, b) \in Seq(Cards)
        /\ Len(SubSeq(Deck, a, b)) = IF a <= b THEN b - a + 1 ELSE 0
        /\ \A i \in 1..(b - a + 1) : SubSeq(Deck, a, b)[i] = Deck[a + i - 1]
    BY <2>3, <2>4, SubSeqProperties
  <2>7. ASSUME NEW i \in 1..k
        PROVE  SubSeq(Deck, a, b)[i] = Offset(t, k) + i
    <3>1. a + i - 1 = Offset(t, k) + i /\ Offset(t, k) + i \in 1..DeckSize
      BY <1>6, <2>2 DEF a
    <3>2. SubSeq(Deck, a, b)[i] = Deck[a + i - 1]
      BY <2>3, <2>6
    <3> QED
      BY <1>7, <3>1, <3>2
  <2> HIDE DEF dealt
  <2> QED
    BY <2>1, <2>3, <2>5, <2>6, <2>7 DEF t
<1>10. ASSUME NEW p \in D
       PROVE  dealt[p] \in PlayerInHand
  <2>1. stacks[p] \in Int
    BY <1>4
  <2>2. dealt[p].cards \in Seq(Cards)
    BY <1>9
  <2> DEFINE c == SubSeq(Deck, Offset(Turn(D, p), k) + 1, Offset(Turn(D, p), k) + k)
  <2>3. c \in Seq(Cards)
    BY <2>2, Zenon
  <2> HIDE DEF c
  <2>4. dealt[p] = [stack |-> stacks[p], bet |-> 0, folded |-> FALSE, allIn |-> FALSE,
                    cards |-> c]
    BY DEF c
  <2> HIDE DEF dealt
  <2> QED
    BY <2>1, <2>3, <2>4 DEF PlayerInHand
<1>11. /\ DOMAIN players' = D /\ players' = [p \in D |-> players'[p]]
       /\ \A p \in D : /\ players'[p] \in PlayerInHand
                       /\ players'[p].cards = dealt[p].cards
                       /\ players'[p].stack = stacks[p] /\ players'[p].bet = 0
                       /\ players'[p].allIn = FALSE
  BY <1>5, <1>10
<1>12. /\ rest \in Seq(Cards) /\ Offset(n, k) \in Nat
       /\ \A j \in 1..Len(rest) : rest[j] = Offset(n, k) + j
  <2>1. Offset(n, k) \in Nat
    <3>1. n + 1 \in Nat /\ n < n + 1
      BY <1>4
    <3> QED
      BY <1>4, <1>6, <3>1, PlacesApart
  <2>2. Offset(n, k) + 1 \in Int /\ DeckSize \in Int /\ \A i \in (Offset(n, k) + 1)..DeckSize : Deck[i] \in Cards
    BY <1>3, <1>7, <2>1 DEF Cards
  <2> HIDE DEF rest
  <2>3. /\ rest \in Seq(Cards)
        /\ Len(rest) = IF Offset(n, k) + 1 <= DeckSize THEN DeckSize - (Offset(n, k) + 1) + 1 ELSE 0
        /\ \A i \in 1..(DeckSize - (Offset(n, k) + 1) + 1) : rest[i] = Deck[Offset(n, k) + 1 + i - 1]
    BY <2>2, SubSeqProperties DEF rest
  <2> DEFINE m == Offset(n, k)
  <2>4. ASSUME NEW j \in 1..Len(rest)
        PROVE  rest[j] = m + j
    <3>1. m \in Nat /\ Len(rest) = IF m + 1 <= DeckSize THEN DeckSize - (m + 1) + 1 ELSE 0
      BY <2>1, <2>3
    <3>2. \A i \in 1..(DeckSize - (m + 1) + 1) : rest[i] = Deck[m + 1 + i - 1]
      BY <2>3
    <3> HIDE DEF m
    <3>3. j \in 1..(DeckSize - (m + 1) + 1) /\ m + 1 + j - 1 = m + j /\ m + j \in 1..DeckSize
      BY <1>3, <3>1
    <3> QED
      BY <1>7, <3>2, <3>3
  <2> QED
    BY <2>1, <2>3, <2>4
<1> HIDE DEF dealt, rest
<1>13. CardsApart'
  <2>1. getCardsPerPlayer(variant)' = k /\ deck' = rest
    BY <1>5 DEF k, getCardsPerPlayer
  <2>2. ASSUME NEW p \in D, NEW i \in 1..k
        PROVE  /\ Turn(D, p) \in 0..(n - 1)
               /\ players'[p].cards[i] = Offset(Turn(D, p), k) + i
               /\ Offset(Turn(D, p), k) + i <= Offset(n, k)
               /\ Offset(Turn(D, p), k) \in Nat
    <3>1. Turn(D, p) \in 0..(n - 1) /\ players'[p].cards[i] = Offset(Turn(D, p), k) + i
      BY <1>9, <1>11
    <3>2. n \in Nat /\ Turn(D, p) \in Nat /\ Turn(D, p) < n
      BY <1>4, <3>1
    <3>3. /\ Offset(Turn(D, p), k) \in Nat /\ Offset(n, k) \in Nat
          /\ Offset(Turn(D, p), k) + k <= Offset(n, k)
      BY <1>6, <3>2, PlacesApart
    <3> QED
      BY <1>6, <3>1, <3>3
  <2>6. ASSUME NEW p \in D, NEW q \in D, p < q, NEW i \in 1..k, NEW j \in 1..k
        PROVE  Offset(Turn(D, p), k) + i < Offset(Turn(D, q), k) + j
    <3>1. Turn(D, p) < Turn(D, q)
      BY <1>4, <2>6, Turns
    <3>2. Turn(D, p) \in Nat /\ Turn(D, q) \in Nat
      BY <1>4, <2>2
    <3>3. /\ Offset(Turn(D, p), k) \in Nat /\ Offset(Turn(D, q), k) \in Nat
          /\ Offset(Turn(D, p), k) + k <= Offset(Turn(D, q), k)
      BY <1>6, <3>1, <3>2, PlacesApart
    <3> QED
      BY <1>6, <3>3
  <2>3. ASSUME NEW p \in D, NEW q \in D, NEW i \in 1..k, NEW j \in 1..k,
               players'[p].cards[i] = players'[q].cards[j]
        PROVE  p = q /\ i = j
    <3>1. Offset(Turn(D, p), k) + i = Offset(Turn(D, q), k) + j
      BY <2>2, <2>3
    <3>2. p \in Nat /\ q \in Nat
      BY <1>4
    <3>3. ~(p < q)
      <4> SUFFICES ASSUME p < q PROVE FALSE
        OBVIOUS
      <4>1. Offset(Turn(D, p), k) + i < Offset(Turn(D, q), k) + j
        BY <2>6
      <4> QED
        BY <1>6, <2>2, <3>1, <4>1
    <3>4. ~(q < p)
      <4> SUFFICES ASSUME q < p PROVE FALSE
        OBVIOUS
      <4>1. Offset(Turn(D, q), k) + j < Offset(Turn(D, p), k) + i
        BY <2>6
      <4> QED
        BY <1>6, <2>2, <3>1, <4>1
    <3>5. p = q
      BY <3>2, <3>3, <3>4
    <3>6. i = j
      <4> DEFINE m == Offset(Turn(D, p), k)
      <4>1. m + i = m + j /\ m \in Nat
        BY <2>2, <3>1, <3>5
      <4> HIDE DEF m
      <4>2. i \in Int /\ j \in Int
        BY <1>6
      <4> QED
        BY <4>1, <4>2
    <3> QED
      BY <3>5, <3>6
  <2>4. ASSUME NEW i \in 1..Len(rest), NEW j \in 1..Len(rest), rest[i] = rest[j]
        PROVE  i = j
    <3> DEFINE m == Offset(n, k)
    <3>1. m \in Nat /\ m + i = m + j
      BY <1>12, <2>4
    <3> HIDE DEF m
    <3>2. i \in Int /\ j \in Int
      BY <1>12, LenProperties
    <3> QED
      BY <3>1, <3>2
  <2>5. ASSUME NEW p \in D, NEW i \in 1..k, NEW j \in 1..Len(rest),
               players'[p].cards[i] = rest[j]
        PROVE  FALSE
    <3> DEFINE m == Offset(n, k)
               c == Offset(Turn(D, p), k) + i
    <3>1. c = m + j /\ m \in Nat /\ c <= m /\ c \in Nat
      BY <1>12, <2>2, <2>5
    <3> HIDE DEF m, c
    <3>2. j \in Int /\ j >= 1
      BY <1>12, LenProperties
    <3> QED
      BY <3>1, <3>2
  <2> QED
    BY <1>11, <2>1, <2>3, <2>4, <2>5 DEF CardsApart
<1>14. Typed'
  <2>1. getCardsPerPlayer(variant)' = k
    BY <1>5 DEF k, getCardsPerPlayer
  <2>2. \A p \in DOMAIN players' : Len(players'[p].cards) = k /\ players'[p].bet \in 0..MaxBet
    <3>1. 0 \in 0..MaxBet
      BY <1>3
    <3> QED
      BY <1>9, <1>11, <3>1
  <2>3. players' \in [DOMAIN players' -> PlayerInHand] /\ DOMAIN players' \subseteq Players
    BY <1>2, <1>11
  <2>4. deck' \in Seq(Cards)
    BY <1>5, <1>12
  <2>5. pot' \in Int /\ currentBet' \in Nat /\ minRaise' \in Nat
    BY <1>8
  <2> QED
    BY <1>5, <2>1, <2>2, <2>3, <2>4, <2>5 DEF Typed
<1>15. ChipsConserved'
  <2>1. Stack' = stacks
    <3>1. Stack' = [p \in D |-> stacks[p]]
      BY <1>11 DEF Stack
    <3> QED
      BY <1>2, <3>1
  <2>2. Total(stacks) \in Int
    <3>1. stacks \in [D -> Int]
      BY <1>4
    <3> QED
      BY <1>4, <3>1, TotalInt
  <2>3. DOMAIN result' = {}
    BY <1>5, <1>8
  <2>4. Total(result') = 0
    BY <2>3, TotalEmpty
  <2>5. Total(Stack)' = Total(stacks) /\ Total(brought)' = Total(stacks) /\ Total(result)' = 0
    BY <1>5, <2>1, <2>4
  <2> QED
    BY <1>8, <2>2, <2>5 DEF ChipsConserved
<1>16. /\ NothingDealt' /\ NothingAwarded' /\ NoDebts' /\ BroughtByPlayers'
       /\ AllInHasNothingLeft'
  <2>1. \A p \in D : players'[p].stack >= 0
    BY <1>4, <1>11
  <2>2. DOMAIN result' = {}
    BY <1>5, <1>8
  <2>3. brought' \in [DOMAIN players' -> Nat]
    BY <1>4, <1>5, <1>11
  <2> QED
    BY <1>5, <1>11, <2>1, <2>2, <2>3 DEF NothingDealt, NothingAwarded, NoDebts,
       BroughtByPlayers, AllInHasNothingLeft
<1> QED
  BY <1>13, <1>14, <1>15, <1>16 DEF IInv

LEMMA PlayersAreFinite ==
  ASSUME Typed
  PROVE  /\ IsFiniteSet(DOMAIN players)
         /\ Stack \in [DOMAIN players -> Int]
         /\ \A p \in DOMAIN players : Stack[p] = players[p].stack
<1>1. DOMAIN players \subseteq Players /\ players \in [DOMAIN players -> PlayerInHand]
  BY DEF Typed
<1>2. IsFiniteSet(DOMAIN players)
  BY <1>1, HandAssumption, FS_Subset
<1>3. \A p \in DOMAIN players : players[p].stack \in Int
  BY <1>1 DEF PlayerInHand
<1> QED
  BY <1>2, <1>3 DEF Stack

LEMMA BetsIInv ==
  ASSUME IInv, Bets
  PROVE  IInv'
<1>1. PICK p \in DOMAIN players, s \in PlayerInHand :
        /\ players' = With(p, s)
        /\ s.stack >= 0 /\ s.bet \in 0..MaxBet
        /\ s.cards = players[p].cards
        /\ s.allIn => s.stack = 0
        /\ pot' = pot + players[p].stack - s.stack
  BY DEF Bets
<1>2. /\ status = "betting" /\ status' = "betting"
      /\ currentBet' \in Nat /\ minRaise' \in Nat
      /\ phase' = phase /\ deck' = deck /\ variant' = variant
      /\ brought' = brought /\ result' = result
  BY DEF Bets, setup
<1>3. /\ players \in [DOMAIN players -> PlayerInHand]
      /\ DOMAIN players \subseteq Players
      /\ \A q \in DOMAIN players : /\ players[q] \in PlayerInHand
                                   /\ players[q].bet \in 0..MaxBet
                                   /\ Len(players[q].cards) = getCardsPerPlayer(variant)
      /\ phase \in {"", "PREFLOP", "FLOP", "TURN", "RIVER"}
      /\ deck \in Seq(Cards) /\ pot \in Int
  BY DEF IInv, Typed
<1>4. /\ DOMAIN players' = DOMAIN players
      /\ players' = [q \in DOMAIN players |-> players'[q]]
      /\ players'[p] = s
      /\ \A q \in DOMAIN players : q # p => players'[q] = players[q]
  BY <1>1, <1>3 DEF With
<1>5. \A q \in DOMAIN players : players[q].stack >= 0 /\ (players[q].allIn => players[q].stack = 0)
  BY <1>2 DEF IInv, NoDebts, AllInHasNothingLeft
<1>6. ASSUME NEW q \in DOMAIN players
      PROVE  /\ players'[q] \in PlayerInHand /\ players'[q].bet \in 0..MaxBet
             /\ players'[q].cards = players[q].cards
             /\ players'[q].stack >= 0
             /\ players'[q].allIn => players'[q].stack = 0
  BY <1>1, <1>3, <1>4, <1>5
<1>7. getCardsPerPlayer(variant)' = getCardsPerPlayer(variant)
  BY <1>2
<1>8. Typed'
  <2>1. s.stack \in Int /\ players[p].stack \in Int
    BY <1>3 DEF PlayerInHand
  <2>2. pot' \in Int
    <3>1. pot' = pot + players[p].stack - s.stack /\ pot \in Int
      BY <1>1, <1>3, Zenon
    <3> QED
      BY <2>1, <3>1
  <2>3. players' \in [DOMAIN players' -> PlayerInHand] /\ DOMAIN players' \subseteq Players
    BY <1>3, <1>4, <1>6
  <2>4. \A q \in DOMAIN players' : /\ players'[q].bet \in 0..MaxBet
                                   /\ Len(players'[q].cards) = getCardsPerPlayer(variant)'
    BY <1>3, <1>4, <1>6, <1>7
  <2> QED
    BY <1>2, <1>3, <2>2, <2>3, <2>4 DEF Typed
<1>9. CardsApart'
  BY <1>2, <1>4, <1>6, <1>7 DEF IInv, CardsApart
<1>10. ChipsConserved'
  <2>1. /\ IsFiniteSet(DOMAIN players) /\ Stack \in [DOMAIN players -> Int]
        /\ \A q \in DOMAIN players : Stack[q] = players[q].stack
    BY PlayersAreFinite DEF IInv
  <2>2. /\ Stack' \in [DOMAIN players -> Int]
        /\ \A q \in DOMAIN players : Stack'[q] = players'[q].stack
    <3>1. Stack' = [q \in DOMAIN players |-> players'[q].stack]
      BY <1>4 DEF Stack
    <3>2. \A q \in DOMAIN players : players'[q].stack \in Int
      BY <1>4, <1>6 DEF PlayerInHand
    <3> QED
      BY <3>1, <3>2
  <2> DEFINE h == Stack'
  <2>3. /\ h \in [DOMAIN players -> Int]
        /\ \A q \in DOMAIN players \ {p} : h[q] = Stack[q]
        /\ h[p] = s.stack /\ Stack[p] = players[p].stack
    BY <1>4, <2>1, <2>2
  <2>4. Total(Stack)' = Total(h)
    OBVIOUS
  <2> HIDE DEF h
  <2>5. Total(h) = Total(Stack) + (h[p] - Stack[p])
    BY <2>1, <2>3, TotalChanges
  <2>6. Total(Stack) \in Int
    BY <2>1, TotalInt
  <2>7. brought \in [DOMAIN players -> Int]
    BY DEF IInv, BroughtByPlayers
  <2>8. Total(brought) \in Int
    BY <2>1, <2>7, TotalInt
  <2>9. Total(result) = 0
    BY <1>2, TotalEmpty DEF IInv, NothingAwarded
  <2>10. Total(result)' = 0 /\ Total(brought)' = Total(brought)
    BY <1>2, <2>9
  <2>11. Total(Stack) + pot - 0 = Total(brought)
    BY <2>9 DEF IInv, ChipsConserved
  <2>12. s.stack \in Int /\ players[p].stack \in Int
    BY <1>3 DEF PlayerInHand
  <2>13. Total(h) + pot' - 0 = Total(brought)
    <3>1. pot' = pot + players[p].stack - s.stack /\ pot \in Int
      BY <1>1, <1>3, Zenon
    <3>2. h[p] = s.stack /\ Stack[p] = players[p].stack
      BY <2>3, Zenon
    <3> QED
      BY <2>5, <2>6, <2>8, <2>11, <2>12, <3>1, <3>2
  <2> QED
    BY <2>4, <2>10, <2>13 DEF ChipsConserved
<1>11. /\ NothingDealt' /\ NothingAwarded' /\ NoDebts' /\ BroughtByPlayers'
       /\ AllInHasNothingLeft'
  <2>1. DOMAIN result' = {} /\ brought' \in [DOMAIN players' -> Nat]
    BY <1>2, <1>4 DEF IInv, NothingAwarded, BroughtByPlayers
  <2> QED
    BY <1>2, <1>4, <1>6, <2>1 DEF NothingDealt, NothingAwarded, NoDebts,
       BroughtByPlayers, AllInHasNothingLeft
<1> QED
  BY <1>8, <1>9, <1>10, <1>11 DEF IInv

LEMMA ShowsCardsIInv ==
  ASSUME IInv, ShowsCards
  PROVE  IInv'
<1>1. /\ status = "betting" /\ status' = "betting"
      /\ DOMAIN players' = DOMAIN players
      /\ players' = [p \in DOMAIN players |-> players'[p]]
      /\ \A p \in DOMAIN players : Keeps(p, players'[p])
      /\ phase' \in {"", "PREFLOP", "FLOP", "TURN", "RIVER"}
      /\ deck' \in Seq(Cards) /\ CardsApart'
      /\ currentBet' \in Nat /\ minRaise' \in Nat
      /\ pot' = pot /\ variant' = variant /\ brought' = brought /\ result' = result
  BY DEF ShowsCards, setup
<1>2. /\ DOMAIN players \subseteq Players /\ pot \in Int
      /\ \A p \in DOMAIN players : Len(players[p].cards) = getCardsPerPlayer(variant)
  BY DEF IInv, Typed
<1>3. \A p \in DOMAIN players : players[p].stack >= 0 /\ (players[p].allIn => players[p].stack = 0)
  BY <1>1 DEF IInv, NoDebts, AllInHasNothingLeft
<1>4. ASSUME NEW p \in DOMAIN players
      PROVE  /\ players'[p] \in PlayerInHand /\ players'[p].bet \in 0..MaxBet
             /\ players'[p].stack = players[p].stack
             /\ players'[p].allIn = players[p].allIn
             /\ Len(players'[p].cards) = Len(players[p].cards)
  BY <1>1 DEF Keeps
<1>5. getCardsPerPlayer(variant)' = getCardsPerPlayer(variant)
  BY <1>1
<1>6. Typed'
  <2>1. players' \in [DOMAIN players' -> PlayerInHand] /\ DOMAIN players' \subseteq Players
    BY <1>1, <1>2, <1>4
  <2>2. \A p \in DOMAIN players' : /\ players'[p].bet \in 0..MaxBet
                                   /\ Len(players'[p].cards) = getCardsPerPlayer(variant)'
    BY <1>1, <1>2, <1>4, <1>5
  <2> QED
    BY <1>1, <1>2, <2>1, <2>2 DEF Typed
<1>7. ChipsConserved'
  <2>1. Stack' = Stack
    BY <1>1, <1>4 DEF Stack
  <2> QED
    BY <1>1, <2>1 DEF IInv, ChipsConserved
<1>8. /\ NothingDealt' /\ NothingAwarded' /\ NoDebts' /\ BroughtByPlayers'
      /\ AllInHasNothingLeft'
  <2>1. DOMAIN result' = {} /\ brought' \in [DOMAIN players' -> Nat]
    BY <1>1 DEF IInv, NothingAwarded, BroughtByPlayers
  <2> QED
    BY <1>1, <1>3, <1>4, <2>1 DEF NothingDealt, NothingAwarded, NoDebts,
       BroughtByPlayers, AllInHasNothingLeft
<1> QED
  BY <1>1, <1>6, <1>7, <1>8 DEF IInv

\* What an award does to a player.
Paid(p, awards) ==
  [players[p] EXCEPT !.stack = @ + Share(awards, p)]

LEMMA AwardEffect ==
  ASSUME IInv, NEW awards \in Partial(Players, AwardAmounts), AwardPot(awards)
  PROVE  /\ status = "betting" /\ status' = "complete" /\ result' = awards
         /\ UNCHANGED <<betting, phase, deck, setup>>
         /\ DOMAIN awards # {} /\ DOMAIN awards \in SUBSET DOMAIN players
         /\ awards \in [DOMAIN awards -> Int] /\ awards \in [DOMAIN awards -> AwardAmounts]
         /\ Total(awards) <= pot
         /\ \A p \in DOMAIN awards : ~players[p].folded
         /\ DOMAIN players' = DOMAIN players
         /\ players' = [p \in DOMAIN players |-> players'[p]]
         /\ \A p \in DOMAIN players :
              /\ players'[p] \in PlayerInHand
              /\ Share(awards, p) \in Int
              /\ players'[p].stack = players[p].stack + Share(awards, p)
              /\ players'[p].bet = players[p].bet /\ players'[p].cards = players[p].cards
              /\ players'[p].folded = players[p].folded
              /\ players'[p].allIn = players[p].allIn
<1>1. /\ status = "betting" /\ status' = "complete" /\ result' = awards
      /\ UNCHANGED <<betting, phase, deck, setup>>
      /\ DOMAIN awards # {} /\ DOMAIN awards \in SUBSET DOMAIN players
      /\ Total(awards) <= pot
      /\ \A p \in DOMAIN awards : ~players[p].folded
      /\ players' = [p \in DOMAIN players |-> Paid(p, awards)]
  BY DEF AwardPot, exists, isComplete, IInv, Typed, Paid, Share
<1>2. awards \in [DOMAIN awards -> AwardAmounts] /\ awards \in [DOMAIN awards -> Int]
  BY HandAssumption DEF Partial
<1>3. ASSUME NEW p \in DOMAIN players
      PROVE  /\ players'[p] \in PlayerInHand
             /\ Share(awards, p) \in Int
             /\ players'[p].stack = players[p].stack + Share(awards, p)
             /\ players'[p].bet = players[p].bet /\ players'[p].cards = players[p].cards
             /\ players'[p].folded = players[p].folded
             /\ players'[p].allIn = players[p].allIn
  <2>1. players[p] \in PlayerInHand
    BY DEF IInv, Typed
  <2>2. Share(awards, p) \in Int
    BY <1>2 DEF Share
  <2>3. players'[p] = [players[p] EXCEPT !.stack = @ + Share(awards, p)]
    BY <1>1 DEF Paid
  <2>4. players[p].stack + Share(awards, p) \in Int
    BY <2>1, <2>2 DEF PlayerInHand
  <2> QED
    BY <2>1, <2>2, <2>3, <2>4 DEF PlayerInHand
<1>4. DOMAIN players' = DOMAIN players /\ players' = [p \in DOMAIN players |-> players'[p]]
  BY <1>1
<1> QED
  BY <1>1, <1>2, <1>3, <1>4

LEMMA AwardsIInv ==
  ASSUME IInv, Awards
  PROVE  IInv'
<1>1. PICK awards \in Partial(Players, AwardAmounts) : AwardPot(awards)
  BY DEF Awards
<1>2. /\ status = "betting" /\ status' = "complete" /\ result' = awards
      /\ pot' = pot /\ currentBet' = currentBet /\ minRaise' = minRaise
      /\ phase' = phase /\ deck' = deck /\ variant' = variant /\ brought' = brought
      /\ DOMAIN awards \in SUBSET DOMAIN players
      /\ awards \in [DOMAIN awards -> Int] /\ awards \in [DOMAIN awards -> AwardAmounts]
      /\ DOMAIN players' = DOMAIN players
      /\ players' = [p \in DOMAIN players |-> players'[p]]
  BY <1>1, AwardEffect DEF betting, setup
<1>3. \A p \in DOMAIN players :
        /\ players'[p] \in PlayerInHand
        /\ Share(awards, p) \in Int
        /\ players'[p].stack = players[p].stack + Share(awards, p)
        /\ players'[p].bet = players[p].bet /\ players'[p].cards = players[p].cards
  BY <1>1, AwardEffect
<1>4. /\ DOMAIN players \subseteq Players
      /\ \A p \in DOMAIN players : /\ players[p] \in PlayerInHand
                                   /\ players[p].bet \in 0..MaxBet
                                   /\ Len(players[p].cards) = getCardsPerPlayer(variant)
      /\ phase \in {"", "PREFLOP", "FLOP", "TURN", "RIVER"}
      /\ deck \in Seq(Cards) /\ pot \in Int /\ currentBet \in Nat /\ minRaise \in Nat
  BY DEF IInv, Typed
<1>5. getCardsPerPlayer(variant)' = getCardsPerPlayer(variant)
  BY <1>2
<1>6. Typed'
  <2>1. players' \in [DOMAIN players' -> PlayerInHand] /\ DOMAIN players' \subseteq Players
    BY <1>2, <1>3, <1>4
  <2>2. \A p \in DOMAIN players' : /\ players'[p].bet \in 0..MaxBet
                                   /\ Len(players'[p].cards) = getCardsPerPlayer(variant)'
    BY <1>2, <1>3, <1>4, <1>5
  <2> QED
    BY <1>2, <1>4, <2>1, <2>2 DEF Typed
<1>7. CardsApart'
  BY <1>2, <1>3, <1>5 DEF IInv, CardsApart
<1>8. ChipsConserved'
  <2>1. /\ IsFiniteSet(DOMAIN players) /\ Stack \in [DOMAIN players -> Int]
        /\ \A p \in DOMAIN players : Stack[p] = players[p].stack
    BY PlayersAreFinite DEF IInv
  <2>2. /\ Stack' \in [DOMAIN players -> Int]
        /\ \A p \in DOMAIN players : Stack'[p] = players'[p].stack
    <3>1. Stack' = [p \in DOMAIN players |-> players'[p].stack]
      BY <1>2 DEF Stack
    <3>2. \A p \in DOMAIN players : players'[p].stack \in Int
      BY <1>2, <1>3 DEF PlayerInHand
    <3> QED
      BY <3>1, <3>2
  <2> DEFINE h == Stack'
  <2>3. h \in [DOMAIN players -> Int] /\ HandsOut(DOMAIN players, Stack, awards, h)
    BY <1>3, <2>1, <2>2 DEF HandsOut
  <2>4. Total(Stack)' = Total(h)
    OBVIOUS
  <2> HIDE DEF h
  <2>5. Total(h) = Total(Stack) + Total(awards)
    <3>1. DOMAIN awards \in SUBSET DOMAIN players /\ awards \in [DOMAIN awards -> Int]
      BY <1>2, Zenon
    <3>2. IsFiniteSet(DOMAIN players) /\ Stack \in [DOMAIN players -> Int]
      BY <2>1, Zenon
    <3>3. PICK D, f, a : D = DOMAIN players /\ f = Stack /\ a = awards
      OBVIOUS
    <3>4. Total(h) = Total(f) + Total(a)
      BY ONLY <2>3, <3>1, <3>2, <3>3, TotalAdds
    <3> QED
      BY ONLY <3>3, <3>4, Zenon
  <2>6. IsFiniteSet(DOMAIN awards)
    BY <1>2, <2>1, FS_Subset
  <2>7. Total(Stack) \in Int /\ Total(awards) \in Int
    BY <1>2, <2>1, <2>6, TotalInt
  <2>8. Total(result) = 0
    BY <1>2, TotalEmpty DEF IInv, NothingAwarded
  <2>9. Total(Stack) + pot - 0 = Total(brought)
    BY <2>8 DEF IInv, ChipsConserved
  <2>10. Total(h) + pot - Total(awards) = Total(brought)
    <3>1. pot \in Int
      BY <1>4, Zenon
    <3> QED
      BY <2>5, <2>7, <2>9, <3>1
  <2>11. Total(brought)' = Total(brought) /\ Total(result)' = Total(awards)
    BY <1>2
  <2> QED
    BY <1>2, <2>4, <2>10, <2>11 DEF ChipsConserved
<1>9. NoDebts'
  <2> SUFFICES ASSUME AwardAmounts \subseteq Nat, NEW p \in DOMAIN players
               PROVE  players'[p].stack >= 0
    BY <1>2 DEF NoDebts
  <2>1. players[p].stack \in Int /\ players[p].stack >= 0
    BY <1>2, <1>4 DEF IInv, NoDebts, PlayerInHand
  <2>2. Share(awards, p) \in Nat
    BY <1>2 DEF Share
  <2> QED
    BY <1>3, <2>1, <2>2
<1>10. NothingDealt' /\ NothingAwarded' /\ BroughtByPlayers' /\ AllInHasNothingLeft'
  BY <1>2 DEF IInv, NothingDealt, NothingAwarded, BroughtByPlayers, AllInHasNothingLeft
<1> QED
  BY <1>6, <1>7, <1>8, <1>9, <1>10 DEF IInv

LEMMA NextIInv ==
  ASSUME IInv, [Next]_vars
  PROVE  IInv'
<1>1. CASE UNCHANGED vars
  <2>1. /\ status' = status /\ players' = players /\ phase' = phase /\ deck' = deck
        /\ pot' = pot /\ currentBet' = currentBet /\ minRaise' = minRaise
        /\ variant' = variant /\ brought' = brought /\ result' = result
    BY <1>1 DEF vars, betting, setup
  <2>2. Stack' = Stack
    BY <2>1 DEF Stack
  <2>3. Typed' /\ CardsApart'
    <3>1. getCardsPerPlayer(variant)' = getCardsPerPlayer(variant)
      BY <2>1
    <3>2. Typed'
      BY <2>1, <3>1 DEF IInv, Typed
    <3>3. CardsApart'
      <4>1. CardsApart
        BY DEF IInv
      <4> QED
        BY <2>1, <3>1, <4>1 DEF CardsApart
    <3> QED
      BY <3>2, <3>3
  <2>4. /\ NothingDealt' /\ NothingAwarded' /\ NoDebts' /\ BroughtByPlayers'
        /\ AllInHasNothingLeft' /\ ChipsConserved'
    BY <2>1, <2>2, Zenon DEF IInv, NothingDealt, NothingAwarded, NoDebts, BroughtByPlayers,
       AllInHasNothingLeft, ChipsConserved
  <2> QED
    BY <2>3, <2>4 DEF IInv
<1>2. Deals => IInv'
  BY DealsIInv
<1>3. Bets => IInv'
  BY BetsIInv
<1>4. ShowsCards => IInv'
  BY ShowsCardsIInv
<1>5. Awards => IInv'
  BY AwardsIInv
<1>6. UNCHANGED vars \/ Deals \/ Bets \/ ShowsCards \/ Awards
  BY StepEffect
<1> QED
  BY <1>1, <1>2, <1>3, <1>4, <1>5, <1>6, Zenon

LEMMA Invariance == Spec => []IInv
<1>1. IInv /\ [Next]_vars => IInv'
  BY NextIInv
<1> QED
  BY InitIInv, <1>1, PTL DEF Spec

--------------------------------------------------------------------------------
(***************************************************************************)
(* The hand as deployed                                                    *)
(***************************************************************************)
\* Every reachable hand is well-typed, when no award is below zero: the code
\* does not refuse such an award, which can leave a stack below zero.
THEOREM TypeCorrect ==
  ASSUME AwardAmounts \subseteq Nat
  PROVE  Spec => []TypeOK
<1>1. IInv => TypeOK
  <2> SUFFICES ASSUME IInv PROVE TypeOK
    OBVIOUS
  <2>1. Typed /\ NoDebts
    BY DEF IInv
  <2>2. ASSUME NEW p \in DOMAIN players
        PROVE  /\ p \in Players /\ players[p].stack \in Nat /\ players[p].bet \in 0..MaxBet
               /\ Len(players[p].cards) = getCardsPerPlayer(variant)
    <3>1. players[p].stack \in Int /\ players[p].stack >= 0
      BY <2>1 DEF Typed, NoDebts, PlayerInHand
    <3>2. players[p].stack \in Nat
      BY <3>1
    <3> QED
      BY <2>1, <3>2, Zenon DEF Typed
  <2> QED
    BY <2>1, <2>2 DEF Typed, TypeOK
<1> QED
  BY Invariance, <1>1, PTL

\* No blind, bet, raise, street, draw or award makes or loses a chip.
THEOREM NoChipIsLost == Spec => []ChipsConserved
<1>1. IInv => ChipsConserved
  BY DEF IInv
<1> QED
  BY Invariance, <1>1, PTL

\* While the hand is played, an all-in player has nothing left to act with.
THEOREM AllInIsAll == Spec => []AllInHasNothingLeft
<1>1. IInv => AllInHasNothingLeft
  BY DEF IInv
<1> QED
  BY Invariance, <1>1, PTL

\* No card is held twice, or held and still in the deck, whatever is drawn.
THEOREM NoCardTwice == Spec => []HeldCardsUnique
<1>1. IInv => HeldCardsUnique
  <2> SUFFICES ASSUME IInv PROVE HeldCardsUnique
    OBVIOUS
  <2> DEFINE k == getCardsPerPlayer(variant)
             S == (DOMAIN players) \X (1..k)
             held == [s \in S |-> players[s[1]].cards[s[2]]]
             T == Range(held)
  <2>1. /\ \A p, q \in DOMAIN players, i, j \in 1..k :
             players[p].cards[i] = players[q].cards[j] => p = q /\ i = j
        /\ \A p \in DOMAIN players, i \in 1..k, j \in 1..Len(deck) :
             players[p].cards[i] # deck[j]
    BY DEF IInv, CardsApart
  <2>2. IsFiniteSet(S)
    <3>1. IsFiniteSet(DOMAIN players)
      BY PlayersAreFinite DEF IInv
    <3>2. IsFiniteSet(1..k)
      <4>1. 1 \in Int /\ k \in Int
        BY DEF getCardsPerPlayer
      <4> QED
        BY <4>1, FS_Interval
    <3> QED
      BY <3>1, <3>2, FS_Product
  <2>3. DOMAIN deck = 1..Len(deck)
    BY LenProperties DEF IInv, Typed
  <2> HIDE DEF k
  <2>4. ASSUME NEW s \in S, NEW t \in S, held[s] = held[t]
        PROVE  s = t
    <3>1. /\ s[1] \in DOMAIN players /\ s[2] \in 1..k
          /\ t[1] \in DOMAIN players /\ t[2] \in 1..k
          /\ s = <<s[1], s[2]>> /\ t = <<t[1], t[2]>>
      OBVIOUS
    <3>2. players[s[1]].cards[s[2]] = players[t[1]].cards[t[2]]
      BY <2>4
    <3>3. s[1] = t[1] /\ s[2] = t[2]
      BY <2>1, <3>1, <3>2
    <3> QED
      BY <3>1, <3>3
  <2>5. ASSUME NEW c \in T, c \in Range(deck)
        PROVE  FALSE
    <3>1. PICK s \in S : c = held[s]
      BY DEF Range
    <3>2. PICK j \in 1..Len(deck) : c = deck[j]
      BY <2>3, <2>5 DEF Range
    <3>3. s[1] \in DOMAIN players /\ s[2] \in 1..k /\ c = players[s[1]].cards[s[2]]
      BY <3>1
    <3> HIDE DEF held, S, T
    <3>4. players[s[1]].cards[s[2]] # deck[j]
      BY <2>1, <3>3
    <3> QED
      BY <3>2, <3>3, <3>4, Zenon
  <2>6. held \in Surjection(S, T)
    BY DEF Surjection, Range
  <2>7. held \in Injection(S, T)
    BY <2>4, <2>6 DEF Surjection, Injection, IsInjective
  <2> HIDE DEF held
  <2>8. Cardinality(T) = Cardinality(S)
    <3> HIDE DEF T, S
    <3> QED
      BY <2>2, <2>6, <2>7, FS_Surjection
  <2>9. DOMAIN held = S
    BY DEF held
  <2> QED
    BY <2>5, <2>8, <2>9 DEF HeldCardsUnique, held, k
<1> QED
  BY Invariance, <1>1, PTL

\* A fold is for the whole hand: the stack of a player who folded never grows.
THEOREM FoldIsFinal == Spec => FoldedWinNothing
<1> DEFINE A == \A p \in DOMAIN players :
                  players[p].folded =>
                    players'[p].folded /\ players'[p].stack <= players[p].stack
<1>1. IInv /\ [Next]_vars => [A]_vars
  <2> SUFFICES ASSUME IInv, [Next]_vars, vars' # vars, NEW p \in DOMAIN players,
                      players[p].folded
               PROVE  players'[p].folded /\ players'[p].stack <= players[p].stack
    OBVIOUS
  <2>1. Deals \/ Bets \/ ShowsCards \/ Awards
    BY StepEffect
  <2>2. players \in [DOMAIN players -> PlayerInHand] /\ players[p].stack \in Int
    BY DEF IInv, Typed, PlayerInHand
  <2>3. CASE Deals
    BY <2>3 DEF Deals, DealCards, exists, IInv, NothingDealt
  <2>4. CASE Bets
    <3>1. PICK q \in DOMAIN players, s \in PlayerInHand :
            /\ players' = With(q, s)
            /\ players[q].folded => s.folded /\ s.stack <= players[q].stack
      BY <2>4 DEF Bets
    <3>2. /\ players'[q] = s
          /\ p # q => players'[p] = players[p]
      BY <2>2, <3>1 DEF With
    <3> QED
      BY <2>2, <3>1, <3>2
  <2>5. CASE ShowsCards
    <3>1. players'[p].stack = players[p].stack /\ players'[p].folded = players[p].folded
      BY <2>5 DEF ShowsCards, Keeps
    <3>2. players'[p].stack <= players[p].stack
      BY <2>2, <3>1
    <3> QED
      BY <3>1, <3>2
  <2>6. CASE Awards
    <3>1. PICK awards \in Partial(Players, AwardAmounts) : AwardPot(awards)
      BY <2>6 DEF Awards
    <3>2. /\ \A q \in DOMAIN awards : ~players[q].folded
          /\ players'[p].stack = players[p].stack + Share(awards, p)
          /\ players'[p].folded = players[p].folded
      BY <3>1, AwardEffect
    <3>3. Share(awards, p) = 0
      BY <3>2 DEF Share
    <3> QED
      BY <2>2, <3>2, <3>3
  <2> QED
    BY <2>1, <2>3, <2>4, <2>5, <2>6
<1> QED
  BY Invariance, <1>1, PTL DEF Spec, FoldedWinNothing

\* HandComplete is the last word: no command is accepted after it.
THEOREM NothingAfterTheResult == Spec => ResultIsFinal
<1>1. IInv /\ [Next]_vars => [~isComplete]_vars
  BY StepEffect DEF Deals, DealCards, exists, Bets, ShowsCards, Awards, AwardPot, isComplete
<1> QED
  BY Invariance, <1>1, PTL DEF Spec, ResultIsFinal

\* The hand pays each of its players once, and no more than they brought.
THEOREM HandIsPayout == Spec => ImplementsPayout
<1>1. Init => Promise!Init
  BY DEF Init, Promise!Init, exists
<1>2. ASSUME NEW f
      PROVE  Promise!Total(f) = Total(f)
  BY DEF Total, Promise!Total, FoldFunction, Promise!FoldFunction, FoldFunctionOnSet,
     Promise!FoldFunctionOnSet, MapThenFoldSet, Promise!MapThenFoldSet
<1>3. ASSUME NEW S
      PROVE  Promise!Cardinality(S) = Cardinality(S)
  BY DEF Cardinality, Promise!Cardinality
<1>4. IInv /\ [Next]_vars => [Promise!Next]_(Promise!vars)
  <2> SUFFICES ASSUME IInv, [Next]_vars
               PROVE  [Promise!Next]_(Promise!vars)
    OBVIOUS
  <2>1. CASE Deals
    <3>1. PICK stacks \in Partial(Players, Stacks), v \in Variants : DealCards(stacks, v)
      BY <2>1 DEF Deals
    <3>2. /\ status = "" /\ status' = "betting" /\ brought' = stacks /\ result' = result
          /\ Cardinality(DOMAIN stacks) >= 2
      BY <3>1 DEF DealCards, exists
    <3>3. DOMAIN stacks \subseteq Players
      BY DEF Partial
    <3>4. Cardinality(DOMAIN brought') >= 2 /\ DOMAIN brought' \subseteq Players
      BY <3>2, <3>3, Zenon
    <3>5. ~exists /\ exists' /\ ~isComplete'
      BY <3>2 DEF exists, isComplete
    <3>6. /\ (IF ~exists THEN "none" ELSE IF isComplete THEN "complete" ELSE "playing") = "none"
          /\ (IF ~exists THEN "none" ELSE IF isComplete THEN "complete" ELSE "playing")'
               = "playing"
      BY <3>5
    <3>7. Promise!Deal
      BY <1>3, <3>2, <3>4, <3>6, Zenon DEF Promise!Deal
    <3> QED
      BY <3>7 DEF Promise!Next
  <2>2. CASE Bets \/ ShowsCards
    BY <2>2 DEF Bets, ShowsCards, setup, Promise!vars, exists, isComplete
  <2>3. CASE Awards
    <3>1. PICK awards \in Partial(Players, AwardAmounts) : AwardPot(awards)
      BY <2>3 DEF Awards
    <3>2. /\ status = "betting" /\ status' = "complete" /\ result' = awards
          /\ brought' = brought
          /\ DOMAIN awards # {} /\ DOMAIN awards \in SUBSET DOMAIN players
          /\ awards \in [DOMAIN awards -> Int] /\ awards \in [DOMAIN awards -> AwardAmounts]
          /\ Total(awards) <= pot
      BY <3>1, AwardEffect DEF setup
    <3>3. DOMAIN brought = DOMAIN players
      BY DEF IInv, BroughtByPlayers
    <3>4. pot \in Int /\ IsFiniteSet(DOMAIN players)
      BY PlayersAreFinite DEF IInv, Typed
    <3>5. Stack \in [DOMAIN players -> Nat]
      <4>1. /\ Stack \in [DOMAIN players -> Int]
            /\ \A p \in DOMAIN players : Stack[p] = players[p].stack
        BY PlayersAreFinite DEF IInv
      <4>2. \A p \in DOMAIN players : players[p].stack >= 0
        BY <3>2 DEF IInv, NoDebts
      <4>3. \A p \in DOMAIN players : Stack[p] \in Nat
        BY <4>1, <4>2
      <4> HIDE DEF Stack
      <4> QED
        BY <4>1, <4>3
    <3>6. Total(Stack) \in Nat
      BY <3>4, <3>5, TotalNat
    <3>7. Total(Stack) + pot - 0 = Total(brought)
      <4>1. Total(result) = 0
        BY <3>2, TotalEmpty DEF IInv, NothingAwarded
      <4> QED
        BY <4>1 DEF IInv, ChipsConserved
    <3>8. Total(awards) \in Int
      <4>1. IsFiniteSet(DOMAIN awards)
        BY <3>2, <3>4, FS_Subset
      <4> QED
        BY <3>2, <4>1, TotalInt
    <3>9. Total(awards) <= Total(brought)
      BY <3>2, <3>4, <3>6, <3>7, <3>8
    <3>10. Promise!MayPay(brought, awards)
      BY <1>2, <3>2, <3>3, <3>9 DEF Promise!MayPay
    <3>11. Promise!Pay
      BY <3>2, <3>10 DEF Promise!Pay, exists, isComplete
    <3> QED
      BY <3>11 DEF Promise!Next
  <2>4. CASE UNCHANGED vars
    BY <2>4 DEF vars, setup, Promise!vars, exists, isComplete
  <2> QED
    BY <2>1, <2>2, <2>3, <2>4, StepEffect
<1> QED
  BY Invariance, <1>1, <1>4, PTL DEF Spec, ImplementsPayout, Promise!Spec

--------------------------------------------------------------------------------
(***************************************************************************)
(* The functional handlers                                                 *)
(***************************************************************************)
\* The steps that the two codes take together are steps of the deployed hand,
\* so that its theorems hold of them too.
LEMMA MirroredStep ==
  ASSUME [MirrorNext]_mirrorVars
  PROVE  [Next]_vars
<1>1. CASE MirrorNext
  BY <1>1 DEF MirrorNext, Next, DealAndMirror, PostAndMirror, ActAndMirror, StreetAndMirror,
     DrawAndMirror, AwardAndMirror
<1>2. CASE UNCHANGED mirrorVars
  BY <1>2 DEF mirrorVars
<1> QED
  BY <1>1, <1>2

\* What the two codes hold of the bets.  The deployed minimum raise comes from
\* every blind and bet, the functional one from the big blind: with no bet to
\* call, neither is set.
Agreement ==
  /\ status = "" => mirror = NewHandState
  /\ status = "betting" /\ Followed =>
       /\ mirror = [bets |-> BetOf, currentBet |-> currentBet, minRaise |-> mirror.minRaise]
       /\ currentBet = 0 => minRaise = 0 /\ mirror.minRaise = 0

LEMMA AgreementKept ==
  ASSUME IInv, Agreement, [MirrorNext]_mirrorVars
  PROVE  Agreement'
<1>1. CASE \E stacks \in Partial(Players, Stacks), v \in Variants : DealAndMirror(stacks, v)
  <2>1. PICK stacks \in Partial(Players, Stacks), v \in Variants : DealAndMirror(stacks, v)
    BY <1>1
  <2>2. /\ status = "" /\ status' = "betting" /\ UNCHANGED betting
        /\ DOMAIN players' = DOMAIN stacks
        /\ \A p \in DOMAIN stacks : players'[p].bet = 0
        /\ mirror' = mirrorCardsDealt(mirror, stacks)
    BY <2>1 DEF DealAndMirror, DealCards, exists
  <2>3. mirror = NewHandState /\ currentBet = 0 /\ minRaise = 0
    BY <2>2 DEF IInv, NothingDealt, Agreement
  <2>4. BetOf' = [p \in DOMAIN stacks |-> 0]
    BY <2>2 DEF BetOf
  <2>5. mirror' = [bets |-> BetOf', currentBet |-> 0, minRaise |-> 0]
    BY <2>2, <2>3, <2>4 DEF mirrorCardsDealt, NewHandState
  <2>6. currentBet' = 0 /\ minRaise' = 0 /\ mirror'.minRaise = 0
    <3>1. currentBet' = 0 /\ minRaise' = 0
      BY <2>2, <2>3 DEF betting
    <3>2. mirror'.minRaise = 0
      BY <2>5
    <3> QED
      BY <3>1, <3>2
  <2>7. mirror' = [bets |-> BetOf', currentBet |-> currentBet', minRaise |-> mirror'.minRaise]
    BY <2>5, <2>6, Zenon
  <2> QED
    BY <2>2, <2>6, <2>7, Zenon DEF Agreement
<1>2. CASE \E p \in Players, amount \in BetAmounts, type \in BlindTypes :
             PostAndMirror(p, amount, type)
  <2>1. PICK p \in Players, amount \in BetAmounts, type \in BlindTypes :
          PostAndMirror(p, amount, type)
    BY <1>2
  <2> DEFINE e == BlindPosted(p, amount)
             n == e.amount
  <2>2. n \in Nat /\ BetOf' = Raised(p, n) /\ status = "betting" /\ status' = "betting" /\ phase' = phase
    BY <2>1, PostBlindEffect DEF PostAndMirror, Bets
  <2>3. /\ e.player = p
        /\ currentBet' = Higher(currentBet, n)
        /\ minRaise' = IF n > currentBet THEN n ELSE minRaise
        /\ Followed => mirror' = mirrorBlindPosted(mirror, e, type)
    BY <2>1 DEF PostAndMirror, PostBlind, applyBlindPosted, BlindPosted
  <2>4. currentBet \in Nat
    BY DEF IInv, Typed
  <2> HIDE DEF e
  <2> SUFFICES ASSUME Followed PROVE Agreement'
    BY <2>2 DEF Agreement, Followed
  <2>5. /\ mirror.bets = BetOf /\ mirror.currentBet = currentBet
        /\ currentBet = 0 => minRaise = 0 /\ mirror.minRaise = 0
    BY <2>2 DEF Agreement
  <2>6. mirror' = [bets |-> Raised(p, n), currentBet |-> Higher(currentBet, n),
                   minRaise |-> IF type = "big" THEN n ELSE mirror.minRaise]
    BY <2>3, <2>5 DEF mirrorBlindPosted, Raised
  <2>7. currentBet' = 0 => minRaise' = 0 /\ mirror'.minRaise = 0
    BY <2>2, <2>3, <2>4, <2>5, <2>6 DEF Higher
  <2>8. mirror' = [bets |-> BetOf', currentBet |-> currentBet', minRaise |-> mirror'.minRaise]
    BY <2>2, <2>3, <2>6
  <2> QED
    BY <2>2, <2>7, <2>8 DEF Agreement
<1>3. CASE \E p \in Players, action \in Actions, amount \in BetAmounts :
             ActAndMirror(p, action, amount)
  <2>1. PICK p \in Players, action \in Actions, amount \in BetAmounts :
          ActAndMirror(p, action, amount)
    BY <1>3
  <2> DEFINE e == ActionTaken(p, View(p), action, amount)
             n == Invested(e)
  <2>2. /\ BetOf' = Raised(p, n)
        /\ status = "betting" /\ status' = "betting" /\ phase' = phase
    BY <2>1, PlayerActionEffect DEF ActAndMirror, Bets
  <2>3. /\ e.player = p
        /\ currentBet' = e.toCall
        /\ e.toCall = Higher(currentBet, players[p].bet
                                         + ActualAmount(View(p), action, amount))
        /\ minRaise' = Higher(minRaise, e.toCall - currentBet)
        /\ Followed => mirror' = mirrorActionTaken(mirror, e)
    BY <2>1 DEF ActAndMirror, PlayerAction, applyActionTaken, ActionTaken, View
  <2>4. currentBet \in Nat
    BY DEF IInv, Typed
  <2> HIDE DEF e
  <2> SUFFICES ASSUME Followed PROVE Agreement'
    BY <2>2 DEF Agreement, Followed
  <2>5. /\ mirror = [bets |-> BetOf, currentBet |-> currentBet, minRaise |-> mirror.minRaise]
        /\ currentBet = 0 => minRaise = 0 /\ mirror.minRaise = 0
    BY <2>2 DEF Agreement
  <2>6. mirror' = [bets |-> Raised(p, n), currentBet |-> e.toCall,
                   minRaise |-> mirror.minRaise]
    <3>1. mirror' = [mirror EXCEPT !.bets = [mirror.bets EXCEPT ![p] = @ + n],
                                   !.currentBet = e.toCall]
      BY <2>3, <2>5 DEF mirrorActionTaken
    <3>2. mirror.bets = BetOf
      BY <2>5
    <3>3. mirror' = [mirror EXCEPT !.bets = Raised(p, n), !.currentBet = e.toCall]
      BY <3>1, <3>2 DEF Raised
    <3> HIDE DEF n
    <3> QED
      BY <2>5, <3>3
  <2>7. currentBet' = 0 => minRaise' = 0 /\ mirror'.minRaise = 0
    BY <2>3, <2>4, <2>5, <2>6 DEF Higher
  <2>8. mirror' = [bets |-> BetOf', currentBet |-> currentBet', minRaise |-> mirror'.minRaise]
    BY <2>2, <2>3, <2>6
  <2> QED
    BY <2>2, <2>7, <2>8 DEF Agreement
<1>4. CASE StreetAndMirror
  <2>1. status' # "" /\ phase \in DOMAIN Streets /\ phase' = Streets[phase].phase
    BY <1>4 DEF StreetAndMirror, DealCommunityCards, exists
  <2>2. phase \in {"PREFLOP", "FLOP", "TURN"}
    BY <2>1 DEF Streets
  <2>3. phase' # "PREFLOP"
    <3>1. Streets[phase].phase \in {"FLOP", "TURN", "RIVER"}
      BY <2>2 DEF Streets
    <3> QED
      BY <2>1, <3>1
  <2> QED
    BY <2>1, <2>3 DEF Agreement, Followed
<1>5. CASE \E p \in Players, indices \in SUBSET (1..getCardsPerPlayer(variant)) :
             DrawAndMirror(p, indices)
  <2>1. PICK p \in Players, indices \in SUBSET (1..getCardsPerPlayer(variant)) :
          DrawAndMirror(p, indices)
    BY <1>5
  <2> DEFINE n == Cardinality(indices)
  <2>2. /\ players' = [players EXCEPT
                        ![p].cards = SubSeq(@, 1, Len(@) - n) \o SubSeq(deck, 1, n)]
        /\ UNCHANGED <<status, betting, phase, mirror>>
    BY <2>1 DEF DrawAndMirror, RequestDraw
  <2> HIDE DEF n
  <2>3. players \in [DOMAIN players -> PlayerInHand]
    BY DEF IInv, Typed
  <2>4. BetOf' = BetOf
    BY <2>2, <2>3 DEF BetOf, PlayerInHand
  <2> QED
    BY <2>2, <2>4 DEF Agreement, Followed, betting
<1>6. CASE \E awards \in Partial(Players, AwardAmounts) : AwardAndMirror(awards)
  BY <1>6 DEF AwardAndMirror, AwardPot, Agreement
<1>7. CASE UNCHANGED mirrorVars
  <2>1. UNCHANGED <<status, players, currentBet, minRaise, phase, mirror>>
    BY <1>7 DEF mirrorVars, vars, betting
  <2>2. BetOf' = BetOf
    BY <2>1 DEF BetOf
  <2> QED
    BY <2>1, <2>2 DEF Agreement, Followed
<1> QED
  BY <1>1, <1>2, <1>3, <1>4, <1>5, <1>6, <1>7 DEF MirrorNext

LEMMA MirrorInvariance == MirrorSpec => [](IInv /\ Agreement)
<1>1. MirrorInit => IInv /\ Agreement
  BY InitIInv DEF MirrorInit, Init, Agreement
<1>2. IInv /\ Agreement /\ [MirrorNext]_mirrorVars => (IInv /\ Agreement)'
  BY MirroredStep, NextIInv, AgreementKept
<1> QED
  BY <1>1, <1>2, PTL DEF MirrorSpec

\* Until the first street, the functional appliers hold of the same events the
\* same bets and the same bet to call as the deployed ones.
THEOREM SameBets == MirrorSpec => []MirrorAgreesOnBets
<1>1. IInv /\ Agreement => MirrorAgreesOnBets
  BY DEF Agreement, MirrorAgreesOnBets, BetOf
<1> QED
  BY MirrorInvariance, <1>1, PTL

\* Until then, a command that both codes accept leads to the same event, and
\* the deployed code accepts what the functional one does and, besides, only
\* checks that pay and calls that do not, raises aside where the minimums
\* differ.
THEOREM SameActions == MirrorSpec => []MirrorAgreesOnActions
<1>1. IInv /\ Agreement => MirrorAgreesOnActions
  <2> SUFFICES ASSUME IInv, Agreement, status = "betting", Followed,
                      NEW p \in DOMAIN players, NEW action \in Actions,
                      action = "RAISE" => mirror.minRaise = minRaise,
                      NEW amount \in BetAmounts
               PROVE  LET deployed == IF MayAct(p) /\ Valid(View(p), action, amount)
                                      THEN {ActionTaken(p, View(p), action, amount)} ELSE {}
                          mirrored == HandlePlayerAction(p, action, amount)
                      IN \/ deployed = mirrored
                         \/ mirrored = {} /\ action = "CHECK" /\ AmountToCall(View(p)) > 0
                         \/ mirrored = {} /\ action = "CALL" /\ AmountToCall(View(p)) <= 0
    BY DEF MirrorAgreesOnActions
  <2> DEFINE v == View(p)
             w == MirrorView(p)
  <2>1. currentBet \in Nat /\ players[p].bet \in Int
    BY DEF IInv, Typed, PlayerInHand
  <2>2. /\ mirror.bets[p] = players[p].bet /\ mirror.currentBet = currentBet
        /\ currentBet = 0 => minRaise = 0 /\ mirror.minRaise = 0
    BY DEF Agreement, BetOf
  <2>3. /\ w.stack = v.stack /\ w.bet = v.bet /\ w.currentBet = v.currentBet
        /\ v.currentBet = currentBet /\ v.bet = players[p].bet
        /\ v.minRaise = minRaise /\ w.minRaise = mirror.minRaise
    BY <2>2 DEF View, MirrorView
  <2> HIDE DEF v, w
  <2>4. ActionTaken(p, w, action, amount) = ActionTaken(p, v, action, amount)
    BY <2>3 DEF ActionTaken, ActualAmount, AmountToCall, EmittedAction
  <2>5. Valid(w, action, amount) <=> Valid(v, action, amount)
    BY <2>1, <2>2, <2>3 DEF Valid
  <2>6. AmountToCall(w) = AmountToCall(v) /\ AmountToCall(v) \in Int
    BY <2>1, <2>3 DEF AmountToCall
  <2>7. AmountToCall(v) > 0 <=> ~(AmountToCall(v) <= 0)
    BY <2>6
  <2> QED
    BY <2>4, <2>5, <2>6, <2>7 DEF HandlePlayerAction, MirrorValid, v, w
<1> QED
  BY MirrorInvariance, <1>1, PTL
================================================================================
