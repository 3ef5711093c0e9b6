-------------------------------- MODULE HandRank --------------------------------
(***************************************************************************)
(* The worth of a hand of cards (hand/agg/hand.go): evaluateFive gives     *)
(* five cards a rank and a score, findBestFive picks the best five of some *)
(* cards, and evaluateHand is what RevealCards does with a player's cards, *)
(* their own and the board, by the game's variant.  Omaha is left out: it  *)
(* takes two of the player's own cards and three of the board.  The second *)
(* half of the module states the rules of poker without scores, and        *)
(* compares.                                                               *)
(*                                                                         *)
(* Cards come one by one, in any order; what the code computes depends on  *)
(* the set of them only.  Ranks are numbers, 14 for the ace.               *)
(***************************************************************************)
EXTENDS Chips, FiniteSetsExt

CONSTANTS
  Ranks,     \* ranks of the deck, 2..14 in the code
  Suits,     \* four in the code, so that no five cards have the same rank
  HandSize   \* cards a player can choose from, at most

Ace == 14

ASSUME RankAssumption ==
  /\ Ranks \subseteq 2..Ace /\ IsFiniteSet(Suits) /\ Cardinality(Suits) <= 4
  /\ HandSize \in Nat /\ HandSize <= Cardinality(Ranks) * Cardinality(Suits)

VARIABLE cards   \* the cards of a player and of the board so far

Card == [rank : Ranks, suit : Suits]

Fives(S) == {h \in SUBSET S : Cardinality(h) = 5}
Hands == Fives(Card)

--------------------------------------------------------------------------------
(***************************************************************************)
(* The code                                                                *)
(***************************************************************************)
RanksOf(h) == {c.rank : c \in h}
rankCount(h) ==
  {[rank |-> r, count |-> Cardinality({c \in h : c.rank = r})] : r \in RanksOf(h)}

\* Where a rank stands in counts: most frequent first, then highest first.
placeOf(a, counted) ==
  1 + Cardinality({b \in counted :
                     b.count > a.count \/ (b.count = a.count /\ b.rank > a.rank)})

isFlush(h) == Cardinality({c.suit : c \in h}) = 1
checkStraight(h) == \A i \in 1..4 : Max(RanksOf(h)) - i \in RanksOf(h)

Bug_checkWheel(h) == {2, 3, 4, 5} \subseteq RanksOf(h)

checkWheel(h) == RanksOf(h) = {2, 3, 4, 5, Ace}

\* The scores of a rank start at a multiple of it.
Million == 1000000

\* By count pattern (how many ranks the hand holds once, twice, three and four
\* times), the rank of a hand and its score: a weight for each rank by its
\* place.  A flush weighs its cards as a high card does.  rankScore divides
\* its multiplier by 15 at each card and drops the remainder, so that the
\* fifth one weighs nothing.
Patterned ==
  {[pattern |-> <<1, 0, 0, 1>>, type |-> "FOUR_OF_A_KIND", base |-> 8 * Million,
    weights |-> <<100, 1>>],
   [pattern |-> <<0, 1, 1, 0>>, type |-> "FULL_HOUSE", base |-> 7 * Million,
    weights |-> <<100, 1>>],
   [pattern |-> <<2, 0, 1, 0>>, type |-> "THREE_OF_A_KIND", base |-> 4 * Million,
    weights |-> <<1000, 50, 1>>],
   [pattern |-> <<1, 2, 0, 0>>, type |-> "TWO_PAIR", base |-> 3 * Million,
    weights |-> <<1000, 50, 1>>],
   [pattern |-> <<3, 1, 0, 0>>, type |-> "PAIR", base |-> 2 * Million,
    weights |-> <<10000, 1000, 50, 1>>],
   [pattern |-> <<5, 0, 0, 0>>, type |-> "HIGH_CARD", base |-> 1 * Million,
    weights |-> <<10000, 666, 44, 2, 0>>]}

patternOf(table, counted) ==
  LET pattern == [n \in 1..4 |-> Cardinality({a \in counted : a.count = n})]
  IN CHOOSE p \in table : p.pattern = pattern

weighted(p, counted) ==
  Total([a \in counted |-> p.weights[placeOf(a, counted)] * a.rank])

Made(type, score) == [type |-> type, score |-> score]

\* A hand's rank and score, with the weights of a table such as Patterned.
evaluateWith(table, h) ==
  LET counted == rankCount(h)
      p == patternOf(table, counted)
      high == IF checkWheel(h) THEN 5 ELSE Max(RanksOf(h))
      straight == checkStraight(h) \/ checkWheel(h)
  IN CASE straight /\ isFlush(h) ->
            IF high = Ace THEN Made("ROYAL_FLUSH", 10 * Million)
            ELSE Made("STRAIGHT_FLUSH", 9 * Million + high)
       [] straight /\ ~isFlush(h) -> Made("STRAIGHT", 5 * Million + high)
       [] ~straight /\ isFlush(h) -> Made("FLUSH", 6 * Million + weighted(p, counted))
       [] ~straight /\ ~isFlush(h) ->
            Made(p.type, p.base + weighted(p, counted))

evaluateFive(h) == evaluateWith(Patterned, h)

Bug_findBestFive(S) ==
  IF Cardinality(S) < 5 THEN Made("HIGH_CARD", 0)
  ELSE evaluateFive(CHOOSE h \in Fives(S) :
         \A g \in Fives(S) : SumSet(RanksOf(g)) <= SumSet(RanksOf(h)))

\* The first combination with the highest score; the score tells the rank.
findBestFive(S) ==
  IF Cardinality(S) < 5 THEN Made("HIGH_CARD", 0)
  ELSE LET made == {evaluateFive(h) : h \in Fives(S)}
       IN CHOOSE best \in made : \A m \in made : m.score <= best.score

\* What RevealCards makes of the cards S of a player: in draw, of the first
\* five of the player's own, which are all there are; otherwise, but for
\* Omaha, as in hold'em.
evaluateHand(variant, S) ==
  CASE variant # "FIVE_CARD_DRAW" -> findBestFive(S)
    [] variant = "FIVE_CARD_DRAW" /\ Cardinality(S) < 5 -> Made("HIGH_CARD", 0)
    [] variant = "FIVE_CARD_DRAW" /\ Cardinality(S) >= 5 -> evaluateFive(S)

--------------------------------------------------------------------------------
Init == cards = {}

Deal ==
  /\ Cardinality(cards) < HandSize
  /\ \E c \in Card \ cards : cards' = cards \cup {c}

Next == Deal

Spec == Init /\ [][Next]_cards

--------------------------------------------------------------------------------
(***************************************************************************)
(* The rules                                                               *)
(***************************************************************************)
RankTypes ==
  <<"HIGH_CARD", "PAIR", "TWO_PAIR", "THREE_OF_A_KIND", "STRAIGHT", "FLUSH",
    "FULL_HOUSE", "FOUR_OF_A_KIND", "STRAIGHT_FLUSH", "ROYAL_FLUSH">>

\* The values of the cards of a hand, with the ace as 14 or as 1.
Value(c, ace) == IF c.rank = Ace THEN ace ELSE c.rank
InARow(h, ace) ==
  LET values == {Value(c, ace) : c \in h}
  IN Cardinality(values) = 5 /\ Max(values) - Min(values) = 4
AceOf(h) == IF InARow(h, 1) THEN 1 ELSE Ace

\* The values that h holds n times.
Held(h, n) ==
  LET ace == AceOf(h)
  IN {v \in {Value(c, ace) : c \in h} :
        Cardinality({c \in h : Value(c, ace) = v}) = n}

\* What a hand is called, as a place in RankTypes.
Category(h) ==
  LET low == InARow(h, 1)
      top == InARow(h, Ace)
      row == low \/ top
      oneSuit == \E s \in Suits : \A c \in h : c.suit = s
      pairs == Cardinality(Held(h, 2))
      three == Held(h, 3) # {}
      Is(place, condition) == IF condition THEN {place} ELSE {}
  IN IF row \/ oneSuit
     THEN Max(Is(5, row) \cup Is(6, oneSuit) \cup Is(9, row /\ oneSuit)
              \cup Is(10, oneSuit /\ top /\ Ace \in RanksOf(h)))
     ELSE Max({1} \cup Is(2, pairs = 1) \cup Is(3, pairs = 2) \cup Is(4, three)
              \cup Is(7, three /\ pairs = 1) \cup Is(8, Held(h, 4) # {}))

\* One set of values is higher than another one: it has the highest of the
\* values that are not in both.
Outranks(A, B) == A # B /\ Max((A \ B) \cup (B \ A)) \in A

\* A better hand, or as good a hand whose four, three, two or single cards,
\* compared in this order, are higher.
Beats(g, h) ==
  LET first == Category(g)
      second == Category(h)
  IN \/ first > second
     \/ /\ first = second
        /\ \E n \in 1..4 : /\ Outranks(Held(g, n), Held(h, n))
                           /\ \A m \in (n + 1)..4 : Held(g, m) = Held(h, m)

--------------------------------------------------------------------------------
(***************************************************************************)
(* Properties                                                              *)
(***************************************************************************)

\* Five cards are called what the rules call them, and a score tells its
\* rank: every score of one rank is above every score of a lower one.
RankFollowsRules ==
  Cardinality(cards) = 5 =>
    LET e == evaluateFive(cards)
    IN /\ e.type = RankTypes[Category(cards)]
       /\ e.score \div Million = Category(cards)

\* The rank and the score revealed for a player are those of a hand which no
\* other five of the player's cards beat.
BestHandIsFound ==
  Cardinality(cards) >= 5 =>
    LET best == findBestFive(cards)
    IN \E h \in Fives(cards) :
      /\ evaluateFive(h) = best
      /\ \A g \in Fives(cards) : ~Beats(g, h)

\* tests/hand_steps.go:1276, "Compare hands: first by rank type (higher
\* wins), then by kicker cards", which the test does with the scores: a hand
\* that beats another one by the rules does not have the lower score.
ScoresFollowRules ==
  Cardinality(cards) = 5 =>
    \A h \in Hands :
      Beats(h, cards) => evaluateFive(h).score >= evaluateFive(cards).score
================================================================================
