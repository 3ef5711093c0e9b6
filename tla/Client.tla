--------------------------------- MODULE Client ---------------------------------
(***************************************************************************)
(* Calls to the player aggregate, as the acceptance tests make them        *)
(* (tests/acceptance_steps.go, tests/grpc_client.go): a command names the  *)
(* sequence its sender expects the aggregate to be at, a call waits for    *)
(* its answer for 15 seconds, and three functions of the tests differ in   *)
(* what they do with an error.  Other clients and the sagas send commands  *)
(* meanwhile: those are Player's own steps.                                *)
(*                                                                         *)
(* Sequences only grow, so of a sequence that someone holds all that       *)
(* matters is whether it is still the aggregate's.  The coordinator, which *)
(* checks it, is not in this repository.  A request may arrive after its   *)
(* sender gave up waiting, or never.                                       *)
(***************************************************************************)
EXTENDS Player

CONSTANTS
  MaxAttempts,  \* maxAttempts of sendWithRetry, 8 in the code
  CallAmounts   \* amounts that the calls deposit

ASSUME CallsAssumption ==
  MaxAttempts \in Nat \ {0} /\ CallAmounts \subseteq Amounts

VARIABLES
  known,     \* the client's sequence for the player is the aggregate's
  call,      \* the last call made
  requests   \* requests that may yet reach the aggregate

clientVars == <<player, known, call, requests>>

Functions == {"sendAndAdvance", "sendAndAdvanceWithMode", "sendWithRetry"}

Commands ==
  [type : {"RegisterPlayer"}] \cup [type : {"DepositFunds"}, amount : CallAmounts]

--------------------------------------------------------------------------------
Lower(x, y) == IF x < y THEN x ELSE y

\* lost, corrected and applied are history: attempts given up without an
\* answer, sequences corrected (counted up to MaxAttempts), and events the
\* call led to.
NewCall(f, cmd) ==
  [function |-> f, cmd |-> cmd, stage |-> "sending", attempt |-> 1,
   answer |-> "none", current |-> FALSE, outcome |-> "none",
   lost |-> 0, corrected |-> 0, applied |-> 0]

Ended(c, outcome) ==
  [c EXCEPT !.stage = "ended", !.outcome = outcome,
            !.attempt = 0, !.answer = "none", !.current = FALSE]

ClientInit ==
  /\ Init
  /\ known = TRUE
  /\ call = Ended(NewCall("none", [type |-> "RegisterPlayer"]), "none")
  /\ requests = {}

\* An event outdates every sequence that was told before.
Outdated(rs) == {[r EXCEPT !.current = FALSE] : r \in rs}

Others ==
  /\ Next
  /\ known' = FALSE
  /\ requests' = Outdated(requests)
  /\ call' = [call EXCEPT !.current = FALSE]

\* What is left of earlier calls are requests without a number; an outdated
\* one does nothing any more.
Call ==
  /\ call.stage = "ended"
  /\ \E f \in Functions, cmd \in Commands : call' = NewCall(f, cmd)
  /\ requests' = {[r EXCEPT !.attempt = 0] : r \in {q \in requests : q.current}}
  /\ UNCHANGED <<player, known>>

SendCommand ==
  /\ call.stage = "sending"
  /\ requests' = requests \cup
       {[cmd |-> call.cmd, attempt |-> call.attempt, current |-> known]}
  /\ call' = [call EXCEPT !.stage = "waiting"]
  /\ UNCHANGED <<player, known>>

(***************************************************************************)
(* The coordinator and the aggregate                                       *)
(***************************************************************************)
\* The call gets an answer, unless it no longer waits for r.
Answered(c, r, answer) ==
  IF c.stage = "waiting" /\ c.attempt = r.attempt
  THEN [c EXCEPT !.answer = answer, !.current = TRUE]
  ELSE c

Accepted(cmd) ==
  IF cmd.type = "RegisterPlayer" THEN CanRegister(player)
  ELSE CanDeposit(player, cmd.amount)

Handle(cmd) ==
  IF cmd.type = "RegisterPlayer" THEN RegisterPlayer ELSE DepositFunds(cmd.amount)

Mismatch(r) ==
  /\ ~r.current
  /\ requests' = requests \ {r}
  /\ call' = Answered(call, r, "mismatch")
  /\ UNCHANGED <<player, known>>

Reject(r) ==
  /\ r.current /\ ~Accepted(r.cmd)
  /\ requests' = requests \ {r}
  /\ call' = Answered(call, r, "rejected")
  /\ UNCHANGED <<player, known>>

Accept(r) ==
  /\ r.current
  /\ Handle(r.cmd)
  /\ known' = FALSE
  /\ requests' = Outdated(requests \ {r})
  /\ call' = Answered([call EXCEPT !.current = FALSE,
                                  !.applied = IF r.attempt = 0 THEN @ ELSE @ + 1],
                      r, "ok")

(***************************************************************************)
(* What the client does with an answer                                     *)
(***************************************************************************)
Bug_Failed(c) == Ended(c, "ok")

Failed(c) == Ended(c, "failed")

\* The next attempt, or the error of the last one.
Again(c, limit) ==
  IF c.attempt < limit
  THEN [c EXCEPT !.stage = "sending", !.attempt = @ + 1,
                 !.answer = "none", !.current = FALSE]
  ELSE Failed(c)

\* After an error that tells no sequence only sendWithRetry sends again.
AfterError(c) ==
  Again(c, IF c.function = "sendWithRetry" THEN MaxAttempts ELSE 1)

Bug_AfterMismatch(c) ==
  IF c.function = "sendAndAdvance" THEN Again(c, 2)
  ELSE [c EXCEPT !.stage = "sending", !.answer = "none", !.current = FALSE]

\* After a mismatch sendAndAdvance sends once more, sendWithRetry up to its limit.
AfterMismatch(c) ==
  Again(c, IF c.function = "sendWithRetry" THEN MaxAttempts ELSE 2)

\* advanceSeq takes the sequence of the answer, if the answer has its events.
Succeed ==
  /\ call.stage = "waiting" /\ call.answer = "ok"
  /\ known' \in {known, call.current}
  /\ call' = Ended(call, "ok")
  /\ UNCHANGED <<player, requests>>

BeRejected ==
  /\ call.stage = "waiting" /\ call.answer = "rejected"
  /\ call' = AfterError(call)
  /\ UNCHANGED <<player, known, requests>>

MayCorrect(c) ==
  \/ c.function = "sendWithRetry"
  \/ c.function = "sendAndAdvance" /\ c.attempt = 1

\* extractSequenceFromError finds the aggregate's sequence in the error.
Correct ==
  /\ call.stage = "waiting" /\ call.answer = "mismatch"
  /\ MayCorrect(call)
  /\ known' = call.current
  /\ call' = AfterMismatch([call EXCEPT !.corrected = Lower(@ + 1, MaxAttempts)])
  /\ UNCHANGED <<player, requests>>

BeMismatched ==
  /\ call.stage = "waiting" /\ call.answer = "mismatch"
  /\ ~MayCorrect(call)
  /\ call' = Failed(call)
  /\ UNCHANGED <<player, known, requests>>

Bug_Timeout ==
  /\ call.stage = "waiting"
  /\ known' = TRUE
  /\ call' = AfterError([call EXCEPT !.lost = @ + 1])
  /\ UNCHANGED <<player, requests>>

\* The deadline passes or the connection breaks, with or without an answer
\* on its way.
Timeout ==
  /\ call.stage = "waiting"
  /\ call' = AfterError([call EXCEPT !.lost = @ + 1])
  /\ UNCHANGED <<player, known, requests>>

Receive == Succeed \/ BeRejected \/ Correct \/ BeMismatched

ClientStep == SendCommand \/ Receive \/ Timeout

ClientNext ==
  \/ Others
  \/ Call
  \/ ClientStep
  \/ \E r \in requests : Mismatch(r) \/ Reject(r) \/ Accept(r)

\* A call has a deadline and sleeps for less than a second between attempts.
ClientSpec == ClientInit /\ [][ClientNext]_clientVars /\ WF_clientVars(ClientStep)

--------------------------------------------------------------------------------
(***************************************************************************)
(* Properties                                                              *)
(***************************************************************************)
\* A command is applied once, however many times it is sent and however late
\* a request arrives, as long as the attempts name one sequence.  Only
\* sendWithRetry can have it applied again, once for each time that it
\* corrects its sequence, and only if it gave up an attempt before.
AppliedOnce ==
  call.applied <= 1 + IF call.function = "sendWithRetry"
                      THEN Lower(call.lost, call.corrected) ELSE 0

\* A call that succeeded had its effect, and one that failed had none if
\* every attempt was answered.
OutcomeIsTrue ==
  /\ call.outcome = "ok" => call.applied >= 1
  /\ call.outcome = "failed" /\ call.lost = 0 => call.applied = 0

\* No answer, a lost request or a busy aggregate, at which every corrected
\* sequence is outdated when it is used, keeps a call for ever.
CallsEnd == []<>(call.stage = "ended")
================================================================================
