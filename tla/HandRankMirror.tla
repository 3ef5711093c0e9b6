----------------------------- MODULE HandRankMirror -----------------------------
(***************************************************************************)
(* The evaluation of hands in the functional handlers of the tests         *)
(* (hand/agg/handlers/).  Five cards are evaluated as in the deployed code *)
(* but for the scores of three of a kind and of a pair, which leave out    *)
(* the other cards.  EvaluateHand knows hold'em and five card draw only:   *)
(* a hand of any other variant is a high card with score 0 there, whereas  *)
(* the deployed code evaluates Omaha by its own rules and every other      *)
(* variant as hold'em.                                                     *)
(***************************************************************************)
EXTENDS HandRank

Bug_MirrorWeights(p) ==
  IF p.type = "PAIR" THEN [p EXCEPT !.weights = <<1000000, 0, 0, 0>>] ELSE p

MirrorWeights(p) ==
  CASE p.type = "THREE_OF_A_KIND" -> [p EXCEPT !.weights = <<1000, 0, 0>>]
    [] p.type = "PAIR" -> [p EXCEPT !.weights = <<10000, 0, 0, 0>>]
    [] OTHER -> p

MirrorPatterned == {MirrorWeights(p) : p \in Patterned}

\* The first combination with the highest score.
MirrorBestFive(S) ==
  IF Cardinality(S) < 5 THEN Made("HIGH_CARD", 0)
  ELSE LET made == {evaluateWith(MirrorPatterned, h) : h \in Fives(S)}
       IN CHOOSE best \in made : \A m \in made : m.score <= best.score

\* The cards S are the player's own and, in hold'em, the board's.
EvaluateHand(variant, S) ==
  CASE variant = "TEXAS_HOLDEM" -> MirrorBestFive(S)
    [] variant = "FIVE_CARD_DRAW" /\ Cardinality(S) >= 5 ->
         evaluateWith(MirrorPatterned, S)
    [] OTHER -> Made("HIGH_CARD", 0)

--------------------------------------------------------------------------------
(***************************************************************************)
(* Properties                                                              *)
(***************************************************************************)

\* In the two variants that the functional code evaluates, it reveals for a
\* player's cards the rank that the deployed hand reveals, although the two
\* weigh a hand's other cards differently and may choose different fives.  A
\* player of draw has five cards at most.
MirrorRevealsSameRank ==
  \A variant \in {"TEXAS_HOLDEM", "FIVE_CARD_DRAW"} :
    (variant = "FIVE_CARD_DRAW" => Cardinality(cards) <= 5) =>
      EvaluateHand(variant, cards).type = evaluateHand(variant, cards).type
================================================================================
