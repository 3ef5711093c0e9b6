------------------------------- MODULE HandMirror -------------------------------
(***************************************************************************)
(* The hand's functional handlers (hand/agg/handlers/), which the tests of *)
(* the repository run instead of the deployed aggregate.  One log of       *)
(* events is read by both codes.  Stacks, pot, folds, all-ins and cards    *)
(* are then the same, because the events carry them or the appliers do the *)
(* same with them; the bets are kept here as the functional appliers keep  *)
(* them.                                                                   *)
(*                                                                         *)
(* The functional handlers refuse a check of a player who owes chips and a *)
(* call of one who owes none, where the deployed ones take a check for a   *)
(* call and a call for a check, and only a big blind sets their minimum    *)
(* raise.  Their applier of community cards resets no bet, so that after   *)
(* the first street the two hold different bets; they are followed until   *)
(* then, which in a draw game is the whole hand.                           *)
(***************************************************************************)
EXTENDS Hand

VARIABLE mirror   \* [bets, currentBet, minRaise] as the functional state has them

mirrorVars == <<vars, mirror>>

NewHandState == [bets |-> <<>>, currentBet |-> 0, minRaise |-> 0]

BlindTypes == {"small", "big"}

--------------------------------------------------------------------------------
(***************************************************************************)
(* Appliers                                                                *)
(***************************************************************************)
mirrorCardsDealt(s, stacks) == [s EXCEPT !.bets = [p \in DOMAIN stacks |-> 0]]

mirrorBlindPosted(s, e, type) ==
  [bets       |-> [s.bets EXCEPT ![e.player] = @ + e.amount],
   currentBet |-> Higher(s.currentBet, e.amount),
   minRaise   |-> IF type = "big" THEN e.amount ELSE s.minRaise]

Bug_mirrorActionTaken(s, e) ==
  [s EXCEPT !.bets[e.player] = @ + IF e.action = "ALL_IN" THEN 0 ELSE Invested(e),
            !.currentBet = e.toCall]

mirrorActionTaken(s, e) ==
  [s EXCEPT !.bets[e.player] = @ + Invested(e), !.currentBet = e.toCall]

(***************************************************************************)
(* Handlers                                                                *)
(***************************************************************************)
MirrorView(p) ==
  [stack |-> players[p].stack, bet |-> mirror.bets[p],
   currentBet |-> mirror.currentBet, minRaise |-> mirror.minRaise]

MirrorValid(v, action, amount) ==
  /\ Valid(v, action, amount)
  /\ action = "CHECK" => AmountToCall(v) <= 0
  /\ action = "CALL" => AmountToCall(v) > 0

Bug_HandlePlayerAction(p, action, amount) ==
  IF /\ status = "betting" /\ p \in DOMAIN players /\ ~players[p].folded
     /\ MirrorValid(MirrorView(p), action, amount)
  THEN {ActionTaken(p, MirrorView(p), action, amount)} ELSE {}

\* The event of a command, none if it is rejected.
HandlePlayerAction(p, action, amount) ==
  IF MayAct(p) /\ MirrorValid(MirrorView(p), action, amount)
  THEN {ActionTaken(p, MirrorView(p), action, amount)} ELSE {}

--------------------------------------------------------------------------------
(***************************************************************************)
(* The deployed hand, and what the functional appliers make of its events. *)
(* The functional handlers of dealing, blinds, streets, draws and awards   *)
(* have the deployed guards and events, statement for statement, so that   *)
(* one action stands for both.                                             *)
(***************************************************************************)
Followed == phase = "PREFLOP"

DealAndMirror(stacks, v) ==
  DealCards(stacks, v) /\ mirror' = mirrorCardsDealt(mirror, stacks)

PostAndMirror(p, amount, type) ==
  /\ PostBlind(p, amount)
  /\ mirror' = IF Followed THEN mirrorBlindPosted(mirror, BlindPosted(p, amount), type)
               ELSE mirror

ActAndMirror(p, action, amount) ==
  /\ PlayerAction(p, action, amount)
  /\ mirror' = IF Followed
               THEN mirrorActionTaken(mirror, ActionTaken(p, View(p), action, amount))
               ELSE mirror

StreetAndMirror == DealCommunityCards /\ mirror' = NewHandState

DrawAndMirror(p, indices) == RequestDraw(p, indices) /\ UNCHANGED mirror

AwardAndMirror(awards) == AwardPot(awards) /\ mirror' = NewHandState

MirrorNext ==
  \/ \E stacks \in Partial(Players, Stacks), v \in Variants : DealAndMirror(stacks, v)
  \/ \E p \in Players, amount \in BetAmounts, type \in BlindTypes :
       PostAndMirror(p, amount, type)
  \/ \E p \in Players, action \in Actions, amount \in BetAmounts :
       ActAndMirror(p, action, amount)
  \/ StreetAndMirror
  \/ \E p \in Players, indices \in SUBSET (1..getCardsPerPlayer(variant)) :
       DrawAndMirror(p, indices)
  \/ \E awards \in Partial(Players, AwardAmounts) : AwardAndMirror(awards)

MirrorInit == Init /\ mirror = NewHandState

MirrorSpec == MirrorInit /\ [][MirrorNext]_mirrorVars

--------------------------------------------------------------------------------
(***************************************************************************)
(* Properties                                                              *)
(***************************************************************************)

\* Up to the first street a test of the functional handlers is a test of the
\* deployed ones: they hold the same bets after every log, and a command that
\* the functional handler accepts leads to the same event, unless it is a
\* raise and their minimums differ.  The deployed handler accepts more: only
\* checks that pay and calls that do not, and again raises.
MirrorAgreesOnBets ==
  (status = "betting" /\ Followed) =>
    /\ mirror.bets = [p \in DOMAIN players |-> players[p].bet]
    /\ mirror.currentBet = currentBet

MirrorAgreesOnActions ==
  (status = "betting" /\ Followed) =>
    \A p \in DOMAIN players, action \in Actions :
      (action = "RAISE" => mirror.minRaise = minRaise) =>
        \A amount \in BetAmounts :
          LET deployed == IF MayAct(p) /\ Valid(View(p), action, amount)
                          THEN {ActionTaken(p, View(p), action, amount)} ELSE {}
              mirrored == HandlePlayerAction(p, action, amount)
          IN \/ deployed = mirrored
             \/ mirrored = {} /\ action = "CHECK" /\ AmountToCall(View(p)) > 0
             \/ mirrored = {} /\ action = "CALL" /\ AmountToCall(View(p)) <= 0
================================================================================
