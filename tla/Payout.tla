--------------------------------- MODULE Payout ---------------------------------
(***************************************************************************)
(* What a hand promises the table and the players' accounts: players bring *)
(* chips once, and are paid once, no more than was brought.  The hand      *)
(* aggregate (Hand.tla) implements it, and Poker.tla plays it where a hand *)
(* meets the other aggregates.                                             *)
(***************************************************************************)
EXTENDS Chips

CONSTANTS
  Players,
  Amounts     \* amounts a player can be paid

VARIABLES
  stage,      \* "none", "playing" or "complete"
  brought,    \* player -> chips brought to the hand
  paid        \* player -> chips won

vars == <<stage, brought, paid>>

Init ==
  /\ stage = "none"
  /\ brought = <<>>
  /\ paid = <<>>

Deal ==
  /\ stage = "none"
  /\ stage' = "playing"
  /\ Cardinality(DOMAIN brought') >= 2
  /\ DOMAIN brought' \subseteq Players
  /\ UNCHANGED paid

\* awards: the winners, and what each of them gets
MayPay(stacks, awards) ==
  /\ DOMAIN awards # {}
  /\ DOMAIN awards \subseteq DOMAIN stacks
  /\ Total(awards) <= Total(stacks)

Pay ==
  /\ stage = "playing"
  /\ stage' = "complete"
  /\ MayPay(brought, paid')
  /\ \A p \in DOMAIN paid' : paid'[p] \in Amounts
  /\ UNCHANGED brought

Next == Deal \/ Pay

Spec == Init /\ [][Next]_vars
================================================================================
