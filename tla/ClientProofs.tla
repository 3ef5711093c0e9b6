------------------------------ MODULE ClientProofs ------------------------------
(***************************************************************************)
(* Theorems about Client, for any limit of attempts: what its calls do to  *)
(* the aggregate are the aggregate's own steps, and what a call knows of   *)
(* its effect is true.                                                     *)
(***************************************************************************)
EXTENDS Client, FiniteSetTheorems, TLAPS

Callers == Functions \cup {"none"}
Outcomes == {"none", "ok", "failed"}
Answers == {"none", "mismatch", "rejected", "ok"}

Calls ==
  [function : Callers, cmd : Commands,
   stage : {"sending", "waiting", "ended"}, attempt : Nat,
   answer : Answers, current : BOOLEAN,
   outcome : Outcomes,
   lost : Nat, corrected : Nat, applied : Nat]

Requests == [cmd : Commands, attempt : Nat, current : BOOLEAN]

LEMMA CommandsNotEmpty == [type |-> "RegisterPlayer"] \in Commands
BY DEF Commands

--------------------------------------------------------------------------------
(***************************************************************************)
(* The parts of a call                                                     *)
(***************************************************************************)
LEMMA Names ==
  /\ "none" \in Callers /\ Functions \subseteq Callers
  /\ "none" \in Outcomes /\ "ok" \in Outcomes /\ "failed" \in Outcomes
  /\ "mismatch" \in Answers /\ "rejected" \in Answers /\ "ok" \in Answers
BY DEF Callers, Outcomes, Answers

IsNew(f, c) ==
  /\ c \in Calls
  /\ c.function = f /\ c.stage = "sending" /\ c.attempt = 1
  /\ c.answer = "none" /\ c.outcome = "none"
  /\ c.lost = 0 /\ c.corrected = 0 /\ c.applied = 0

LEMMA NewCallTyped ==
  ASSUME NEW f \in Callers, NEW cmd \in Commands
  PROVE  IsNew(f, NewCall(f, cmd))
BY DEF IsNew, NewCall, Calls, Outcomes, Answers

IsEnded(c, o, d) ==
  /\ d \in Calls
  /\ d.function = c.function /\ d.stage = "ended" /\ d.attempt = 0
  /\ d.answer = "none" /\ d.outcome = o
  /\ d.lost = c.lost /\ d.corrected = c.corrected /\ d.applied = c.applied

LEMMA EndedTyped ==
  ASSUME NEW c \in Calls, NEW o \in Outcomes
  PROVE  IsEnded(c, o, Ended(c, o))
BY DEF IsEnded, Ended, Calls, Answers

\* A call goes on to its next attempt, below the limit, or fails.
Retried(c, limit, d) ==
  /\ d \in Calls /\ d.function = c.function /\ d.answer = "none"
  /\ d.lost = c.lost /\ d.corrected = c.corrected /\ d.applied = c.applied
  /\ \/ /\ d.stage = "sending" /\ d.attempt = c.attempt + 1 /\ d.outcome = c.outcome
        /\ c.attempt < limit
     \/ d.stage = "ended" /\ d.attempt = 0 /\ d.outcome = "failed"

LEMMA AgainTyped ==
  ASSUME NEW c \in Calls, NEW limit \in Nat
  PROVE  Retried(c, limit, Again(c, limit))
<1> DEFINE d == Again(c, limit)
<1>1. c.attempt \in Nat
  BY DEF Calls
<1>2. CASE c.attempt < limit
  <2>1. d = [c EXCEPT !.stage = "sending", !.attempt = @ + 1,
                      !.answer = "none", !.current = FALSE]
    BY <1>2 DEF Again
  <2>2. c.attempt + 1 \in Nat
    BY <1>1
  <2> HIDE DEF d
  <2> QED
    BY <1>2, <2>1, <2>2 DEF Calls, Answers, Retried, d
<1>3. CASE ~(c.attempt < limit)
  <2>1. d = Ended(c, "failed")
    BY <1>3 DEF Again, Failed
  <2> HIDE DEF d
  <2>2. IsEnded(c, "failed", d)
    BY <2>1, EndedTyped, Names
  <2> QED
    BY <2>2 DEF Retried, IsEnded, d
<1> QED
  BY <1>2, <1>3

IsAnswered(c, r, a, d) ==
  /\ d \in Calls
  /\ d.function = c.function /\ d.stage = c.stage /\ d.attempt = c.attempt
  /\ d.answer = IF c.stage = "waiting" /\ c.attempt = r.attempt THEN a ELSE c.answer
  /\ d.outcome = c.outcome
  /\ d.lost = c.lost /\ d.corrected = c.corrected /\ d.applied = c.applied

LEMMA AnsweredTyped ==
  ASSUME NEW c \in Calls, NEW r \in Requests, NEW a \in Answers
  PROVE  IsAnswered(c, r, a, Answered(c, r, a))
BY DEF IsAnswered, Answered, Calls

--------------------------------------------------------------------------------
(***************************************************************************)
(* The requests on their way                                               *)
(***************************************************************************)
AttemptsOf(rs) == {r.attempt : r \in rs}

OneEach(rs) == \A r, q \in rs : r.attempt = q.attempt /\ r.attempt # 0 => r = q

LEMMA OutdatedRequests ==
  ASSUME NEW rs, rs \subseteq Requests, OneEach(rs)
  PROVE  /\ Outdated(rs) \subseteq Requests
         /\ \A r \in Outdated(rs) : ~r.current
         /\ AttemptsOf(Outdated(rs)) = AttemptsOf(rs)
         /\ OneEach(Outdated(rs))
<1>1. ASSUME NEW r \in Outdated(rs)
      PROVE  \E q \in rs : /\ q \in Requests /\ r = [q EXCEPT !.current = FALSE]
                           /\ r \in Requests /\ r.attempt = q.attempt /\ ~r.current
  <2>1. PICK q \in rs : r = [q EXCEPT !.current = FALSE]
    BY DEF Outdated
  <2> QED
    BY <2>1 DEF Requests
<1>2. ASSUME NEW q \in rs
      PROVE  \E r \in Outdated(rs) : r.attempt = q.attempt
  <2>1. [q EXCEPT !.current = FALSE] \in Outdated(rs)
    BY DEF Outdated
  <2>2. [q EXCEPT !.current = FALSE].attempt = q.attempt
    BY DEF Requests
  <2> QED
    BY <2>1, <2>2
<1>3. Outdated(rs) \subseteq Requests /\ \A r \in Outdated(rs) : ~r.current
  BY <1>1
<1>4. AttemptsOf(Outdated(rs)) = AttemptsOf(rs)
  BY <1>1, <1>2 DEF AttemptsOf
<1>5. ASSUME NEW r \in Outdated(rs), NEW s \in Outdated(rs), r.attempt = s.attempt, r.attempt # 0
      PROVE  r = s
  <2>1. PICK q \in rs : r = [q EXCEPT !.current = FALSE] /\ r.attempt = q.attempt
    BY <1>1
  <2>2. PICK t \in rs : s = [t EXCEPT !.current = FALSE] /\ s.attempt = t.attempt
    BY <1>1
  <2>3. q = t
    BY <1>5, <2>1, <2>2 DEF OneEach
  <2> QED
    BY <2>1, <2>2, <2>3
<1> QED
  BY <1>3, <1>4, <1>5 DEF OneEach

\* What has arrived is no longer on its way.
LEMMA RequestArrives ==
  ASSUME NEW rs, rs \subseteq Requests, OneEach(rs), NEW r \in rs
  PROVE  /\ OneEach(rs \ {r})
         /\ AttemptsOf(rs \ {r}) \subseteq AttemptsOf(rs)
         /\ r.attempt # 0 => AttemptsOf(rs \ {r}) = AttemptsOf(rs) \ {r.attempt}
         /\ r.attempt = 0 => AttemptsOf(rs \ {r}) \cup {0} = AttemptsOf(rs)
BY DEF OneEach, AttemptsOf

LEMMA AtMostOneMore ==
  ASSUME NEW S, IsFiniteSet(S), NEW a, NEW T, T \subseteq S \cup {a}
  PROVE  /\ IsFiniteSet(T)
         /\ Cardinality(T) \in Nat /\ Cardinality(S) \in Nat
         /\ Cardinality(T) <= Cardinality(S) + 1
<1>1. /\ IsFiniteSet(S \cup {a})
      /\ Cardinality(S \cup {a}) = IF a \in S THEN Cardinality(S) ELSE Cardinality(S) + 1
  BY FS_AddElement
<1>2. IsFiniteSet(T) /\ Cardinality(T) <= Cardinality(S \cup {a})
  BY <1>1, FS_Subset
<1>3. Cardinality(T) \in Nat /\ Cardinality(S) \in Nat
  BY <1>2, FS_CardinalityType
<1> QED
  BY <1>1, <1>2, <1>3

LEMMA NoMore ==
  ASSUME NEW S, IsFiniteSet(S), NEW T, T \subseteq S
  PROVE  /\ IsFiniteSet(T)
         /\ Cardinality(T) \in Nat /\ Cardinality(S) \in Nat
         /\ Cardinality(T) <= Cardinality(S)
BY FS_Subset, FS_CardinalityType

LEMMA OneLess ==
  ASSUME NEW S, IsFiniteSet(S), NEW a \in S
  PROVE  /\ IsFiniteSet(S \ {a})
         /\ Cardinality(S) \in Nat /\ Cardinality(S \ {a}) \in Nat
         /\ Cardinality(S \ {a}) + 1 = Cardinality(S)
<1>1. /\ IsFiniteSet(S \ {a})
      /\ Cardinality(S \ {a}) = IF a \in S THEN Cardinality(S) - 1 ELSE Cardinality(S)
  BY FS_RemoveElement
<1>2. Cardinality(S) \in Nat /\ Cardinality(S \ {a}) \in Nat
  BY <1>1, FS_CardinalityType
<1> QED
  BY <1>1, <1>2

--------------------------------------------------------------------------------
(***************************************************************************)
(* The inductive invariant.  What a call can still lead to is counted in   *)
(* two ways.  Each attempt is applied once at most: so an attempt that is  *)
(* applied is the last one, or was given up.  And what was applied leaves  *)
(* every sequence outdated, until the client corrects the one it has.      *)
(***************************************************************************)
Attempts == AttemptsOf(requests)

Pending == Attempts \ {0, call.attempt}

Succeeded(c) == IF c.answer = "ok" \/ c.outcome = "ok" THEN 1 ELSE 0

Typed ==
  /\ call \in Calls /\ requests \subseteq Requests
  /\ OneEach(requests) /\ IsFiniteSet(Attempts)
  /\ known \in BOOLEAN

Staged ==
  /\ call.stage = "ended" <=> call.attempt = 0
  /\ call.stage # "waiting" => call.answer = "none"
  /\ call.stage # "ended" => call.outcome = "none"
  /\ call.stage # "ended" => \A a \in Attempts : a <= call.attempt
  /\ call.stage = "sending" \/ call.answer # "none" => call.attempt \notin Attempts
  /\ call.stage # "ended" /\ call.function = "sendWithRetry" => call.attempt <= MaxAttempts

EachOnce == call.applied + Cardinality(Pending) <= call.lost + Succeeded(call)

Truly == Succeeded(call) = 1 => call.applied >= 1

\* A call that is not over, or a request of it, has the aggregate's sequence.
Alive ==
  \/ call.stage # "ended" /\ known
  \/ \E r \in requests : r.current /\ r.attempt # 0

Corrections ==
  /\ call.stage # "ended" => call.corrected < call.attempt
  /\ call.function = "sendWithRetry" =>
       call.applied + (IF Alive THEN 1 ELSE 0) <= 1 + call.corrected

LostOnce ==
  call.function # "sendWithRetry" =>
    \/ call.lost = 0
    \/ call.lost = 1 /\ call.stage = "ended" /\ call.outcome = "failed"

CInv == Typed /\ Staged /\ EachOnce /\ Truly /\ Corrections /\ LostOnce

--------------------------------------------------------------------------------
LEMMA CallParts ==
  ASSUME Typed
  PROVE  /\ call.attempt \in Nat /\ call.lost \in Nat /\ call.corrected \in Nat
         /\ call.applied \in Nat
         /\ call.stage \in {"sending", "waiting", "ended"}
         /\ call.outcome \in {"none", "ok", "failed"}
         /\ IsFiniteSet(Pending) /\ Cardinality(Pending) \in Nat
         /\ \A r \in requests : r \in Requests /\ r.attempt \in Nat
         /\ \A a \in Attempts : a \in Nat
<1>1. IsFiniteSet(Pending) /\ Cardinality(Pending) \in Nat
  BY NoMore DEF Typed, Pending
<1>2. \A r \in requests : r \in Requests /\ r.attempt \in Nat
  BY DEF Typed, Requests
<1>3. \A a \in Attempts : a \in Nat
  BY <1>2 DEF Attempts, AttemptsOf
<1> QED
  BY <1>1, <1>2, <1>3 DEF Typed, Calls, Outcomes

LEMMA ClientInitCInv == ClientInit => CInv
<1> SUFFICES ASSUME ClientInit PROVE CInv
  OBVIOUS
<1> DEFINE c == NewCall("none", [type |-> "RegisterPlayer"])
<1>1. call = Ended(c, "none") /\ requests = {} /\ known = TRUE
  BY DEF ClientInit
<1>2. IsNew("none", c)
  BY CommandsNotEmpty, NewCallTyped, Names
<1> HIDE DEF c
<1>3. /\ call \in Calls /\ call.function = "none" /\ call.stage = "ended"
      /\ call.attempt = 0 /\ call.answer = "none" /\ call.outcome = "none"
      /\ call.lost = 0 /\ call.corrected = 0 /\ call.applied = 0
  <2>1. c \in Calls
    BY <1>2 DEF IsNew
  <2>2. IsEnded(c, "none", call)
    BY <1>1, <2>1, EndedTyped, Names
  <2> QED
    BY <1>2, <2>2 DEF IsNew, IsEnded
<1>4. Attempts = {} /\ Pending = {} /\ IsFiniteSet({}) /\ Cardinality({}) = 0
  BY <1>1, FS_EmptySet DEF Attempts, AttemptsOf, Pending
<1>5. Typed
  BY <1>1, <1>3, <1>4 DEF Typed, OneEach
<1>6. Staged /\ LostOnce
  BY <1>3, <1>4 DEF Staged, LostOnce
<1>7. EachOnce /\ Truly
  BY <1>3, <1>4 DEF EachOnce, Truly, Succeeded
<1>8. Corrections
  BY <1>3 DEF Corrections
<1> QED
  BY <1>5, <1>6, <1>7, <1>8 DEF CInv

--------------------------------------------------------------------------------
(***************************************************************************)
(* What a step does to the call and to the requests                        *)
(***************************************************************************)
Same(c, d) ==
  /\ d \in Calls
  /\ d.function = c.function /\ d.stage = c.stage /\ d.attempt = c.attempt
  /\ d.answer = c.answer /\ d.outcome = c.outcome
  /\ d.lost = c.lost /\ d.corrected = c.corrected /\ d.applied = c.applied

LEMMA OthersCInv ==
  ASSUME CInv, Others
  PROVE  CInv'
<1>1. requests' = Outdated(requests) /\ known' = FALSE /\ call' = [call EXCEPT !.current = FALSE]
  BY DEF Others
<1>2. Typed /\ Staged /\ EachOnce /\ Truly /\ Corrections /\ LostOnce
  BY DEF CInv
<1>3. Same(call, call')
  BY <1>1, <1>2 DEF Same, Typed, Calls
<1>4. /\ requests' \subseteq Requests /\ OneEach(requests')
      /\ \A r \in requests' : ~r.current
      /\ AttemptsOf(requests') = AttemptsOf(requests)
  BY <1>1, <1>2, OutdatedRequests DEF Typed
<1>5. Attempts' = Attempts /\ Pending' = Pending
  BY <1>3, <1>4 DEF Attempts, Pending, Same
<1>6. Typed'
  BY <1>1, <1>2, <1>3, <1>4, <1>5 DEF Typed, Same
<1>7. Staged' /\ LostOnce'
  BY <1>2, <1>3, <1>5 DEF Staged, LostOnce, Same
<1>8. EachOnce' /\ Truly'
  <2>1. Succeeded(call') = Succeeded(call)
    BY <1>3 DEF Succeeded, Same
  <2> QED
    BY <1>2, <1>3, <1>5, <2>1 DEF EachOnce, Truly, Same
<1>9. Corrections'
  <2>1. ~Alive'
    BY <1>1, <1>4 DEF Alive
  <2>2. /\ call.applied \in Nat /\ call.corrected \in Nat
        /\ call.function = "sendWithRetry" =>
             call.applied + (IF Alive THEN 1 ELSE 0) <= 1 + call.corrected
    BY <1>2, CallParts DEF Corrections
  <2>3. call.function = "sendWithRetry" => call.applied + 0 <= 1 + call.corrected
    BY <2>2
  <2> QED
    BY <1>2, <1>3, <2>1, <2>3 DEF Corrections, Same
<1> QED
  BY <1>6, <1>7, <1>8, <1>9 DEF CInv

LEMMA CallCInv ==
  ASSUME CInv, Call
  PROVE  CInv'
<1>1. PICK f \in Functions, cmd \in Commands : call' = NewCall(f, cmd)
  BY DEF Call
<1>2. /\ requests' = {[r EXCEPT !.attempt = 0] : r \in {q \in requests : q.current}}
      /\ known' = known
  BY DEF Call
<1>3. IsNew(f, call')
  BY <1>1, NewCallTyped, Names
<1>4. requests \subseteq Requests
  BY DEF CInv, Typed
<1>5. ASSUME NEW r \in requests'
      PROVE  r \in Requests /\ r.attempt = 0
  <2>1. PICK q \in requests : r = [q EXCEPT !.attempt = 0]
    BY <1>2
  <2> QED
    BY <1>4, <2>1 DEF Requests
<1>6. Attempts' \subseteq {0} /\ Pending' = {} /\ IsFiniteSet({}) /\ Cardinality({}) = 0
  BY <1>5, FS_EmptySet DEF Attempts, AttemptsOf, Pending
<1>7. IsFiniteSet(Attempts')
  <2>1. IsFiniteSet({0})
    BY FS_Singleton
  <2> QED
    BY <1>6, <2>1, FS_Subset
<1>8. Typed'
  BY <1>2, <1>3, <1>5, <1>7 DEF CInv, Typed, OneEach, IsNew
<1>9. Staged' /\ LostOnce'
  <2>1. MaxAttempts \in Nat /\ 1 <= MaxAttempts
    BY CallsAssumption
  <2>2. \A a \in Attempts' : a = 0
    BY <1>6
  <2>3. \A a \in Attempts' : a <= 1
    BY <2>2
  <2>4. 1 \notin Attempts'
    BY <2>2
  <2> QED
    BY <1>3, <2>1, <2>3, <2>4 DEF Staged, LostOnce, IsNew
<1>10. EachOnce' /\ Truly'
  BY <1>3, <1>6 DEF EachOnce, Truly, Succeeded, IsNew
<1>11. Corrections'
  BY <1>3 DEF Corrections, IsNew
<1> QED
  BY <1>8, <1>9, <1>10, <1>11 DEF CInv

LEMMA SendCInv ==
  ASSUME CInv, SendCommand
  PROVE  CInv'
<1> DEFINE r == [cmd |-> call.cmd, attempt |-> call.attempt, current |-> known]
<1>1. /\ call.stage = "sending" /\ requests' = requests \cup {r}
      /\ call' = [call EXCEPT !.stage = "waiting"] /\ known' = known
  BY DEF SendCommand
<1>2. Typed /\ Staged /\ EachOnce /\ Truly /\ Corrections /\ LostOnce
  BY DEF CInv
<1>3. /\ call' \in Calls
      /\ call'.function = call.function /\ call'.stage = "waiting" /\ call'.attempt = call.attempt
      /\ call'.answer = call.answer /\ call'.outcome = call.outcome
      /\ call'.lost = call.lost /\ call'.corrected = call.corrected
      /\ call'.applied = call.applied
  BY <1>1, <1>2 DEF Typed, Calls
<1>4. r \in Requests /\ r.attempt = call.attempt /\ r.current = known
  BY <1>2 DEF Typed, Calls, Requests
<1>5. call.attempt \in Nat /\ call.attempt # 0 /\ call.attempt \notin Attempts
  BY <1>1, <1>2, CallParts DEF Staged
<1> HIDE DEF r
<1>6. Attempts' = Attempts \cup {call.attempt}
  BY <1>1, <1>4 DEF Attempts, AttemptsOf
<1>7. Pending' = Pending
  BY <1>3, <1>6 DEF Pending
<1>8. IsFiniteSet(Attempts')
  BY <1>2, <1>6, FS_AddElement DEF Typed
<1>9. OneEach(requests')
  <2>1. \A q \in requests : q.attempt # call.attempt
    BY <1>5 DEF Attempts, AttemptsOf
  <2> QED
    BY <1>1, <1>2, <1>4, <2>1 DEF Typed, OneEach
<1>10. Typed'
  BY <1>1, <1>2, <1>3, <1>4, <1>8, <1>9 DEF Typed
<1>11. Staged' /\ LostOnce'
  <2>1. \A a \in Attempts' : a <= call.attempt
    BY <1>1, <1>2, <1>5, <1>6 DEF Staged
  <2> QED
    BY <1>1, <1>2, <1>3, <1>5, <2>1 DEF Staged, LostOnce
<1>12. EachOnce' /\ Truly'
  <2>1. Succeeded(call') = Succeeded(call)
    BY <1>3 DEF Succeeded
  <2> QED
    BY <1>2, <1>3, <1>7, <2>1 DEF EachOnce, Truly
<1>13. Corrections'
  <2>1. Alive' => Alive
    BY <1>1, <1>4 DEF Alive
  <2>2. /\ call.applied \in Nat /\ call.corrected \in Nat
        /\ call.function = "sendWithRetry" =>
             call.applied + (IF Alive THEN 1 ELSE 0) <= 1 + call.corrected
    BY <1>2, CallParts DEF Corrections
  <2>3. call.function = "sendWithRetry" =>
          call.applied + (IF Alive' THEN 1 ELSE 0) <= 1 + call.corrected
    BY <2>1, <2>2
  <2> QED
    BY <1>1, <1>2, <1>3, <2>3 DEF Corrections
<1> QED
  BY <1>10, <1>11, <1>12, <1>13 DEF CInv

\* A request is refused: a rejection, or a sequence that is outdated.
Refuses ==
  \E r \in requests, a \in {"mismatch", "rejected"} :
    requests' = requests \ {r} /\ call' = Answered(call, r, a) /\ known' = known

LEMMA RefusesCInv ==
  ASSUME CInv, Refuses
  PROVE  CInv'
<1>1. PICK r \in requests, a \in {"mismatch", "rejected"} :
        requests' = requests \ {r} /\ call' = Answered(call, r, a) /\ known' = known
  BY DEF Refuses
<1>2. Typed /\ Staged /\ EachOnce /\ Truly /\ Corrections /\ LostOnce
  BY DEF CInv
<1>3. IsAnswered(call, r, a, call')
  <2>1. a \in Answers /\ r \in Requests /\ call \in Calls
    BY <1>2, Names DEF Typed
  <2> QED
    BY <1>1, <2>1, AnsweredTyped
<1>4. /\ OneEach(requests') /\ Attempts' \subseteq Attempts
      /\ r.attempt # 0 => Attempts' = Attempts \ {r.attempt}
  BY <1>1, <1>2, RequestArrives DEF Typed, Attempts
<1>5. Pending' \subseteq Pending /\ IsFiniteSet(Attempts')
  BY <1>2, <1>3, <1>4, FS_Subset DEF Typed, Pending, IsAnswered
<1>6. Typed'
  BY <1>1, <1>2, <1>3, <1>4, <1>5 DEF Typed, IsAnswered
<1>7. r.attempt \in Attempts
  BY DEF Attempts, AttemptsOf
<1>8. Staged' /\ LostOnce'
  <2>1. call'.answer # call.answer =>
          call.stage = "waiting" /\ call.attempt = r.attempt /\ call.attempt # 0
    BY <1>2, <1>3 DEF IsAnswered, Staged
  <2> QED
    BY <1>2, <1>3, <1>4, <2>1 DEF Staged, LostOnce, IsAnswered
<1>9. EachOnce' /\ Truly'
  <2>1. Succeeded(call') = Succeeded(call)
    BY <1>2, <1>3, <1>7 DEF Succeeded, IsAnswered, Staged
  <2>2. /\ call.applied \in Nat /\ call.lost \in Nat /\ Cardinality(Pending) \in Nat
        /\ Cardinality(Pending') \in Nat /\ Cardinality(Pending') <= Cardinality(Pending)
    BY <1>2, <1>5, CallParts, NoMore
  <2>3. Succeeded(call) \in Nat
    BY DEF Succeeded
  <2>4. call.applied + Cardinality(Pending') <= call.lost + Succeeded(call)
    BY <1>2, <2>2, <2>3 DEF EachOnce
  <2> QED
    BY <1>2, <1>3, <2>1, <2>4 DEF EachOnce, Truly, IsAnswered
<1>10. Corrections'
  <2>1. Alive' => Alive
    BY <1>1, <1>3 DEF Alive, IsAnswered
  <2>2. /\ call.applied \in Nat /\ call.corrected \in Nat
        /\ call.function = "sendWithRetry" =>
             call.applied + (IF Alive THEN 1 ELSE 0) <= 1 + call.corrected
    BY <1>2, CallParts DEF Corrections
  <2>3. call.function = "sendWithRetry" =>
          call.applied + (IF Alive' THEN 1 ELSE 0) <= 1 + call.corrected
    BY <2>1, <2>2
  <2> QED
    BY <1>2, <1>3, <2>3 DEF Corrections, IsAnswered
<1> QED
  BY <1>6, <1>8, <1>9, <1>10 DEF CInv

LEMMA AcceptCInv ==
  ASSUME CInv, NEW r \in requests, Accept(r)
  PROVE  CInv'
<1> DEFINE n == IF r.attempt = 0 THEN call.applied ELSE call.applied + 1
           c == [call EXCEPT !.current = FALSE, !.applied = n]
<1>1. /\ r.current /\ known' = FALSE
      /\ requests' = Outdated(requests \ {r})
      /\ call' = Answered(c, r, "ok")
  BY DEF Accept
<1>2. Typed /\ Staged /\ EachOnce /\ Truly /\ Corrections /\ LostOnce
  BY DEF CInv
<1>3. /\ call.attempt \in Nat /\ call.lost \in Nat /\ call.corrected \in Nat
      /\ call.applied \in Nat
      /\ IsFiniteSet(Pending) /\ Cardinality(Pending) \in Nat
      /\ r \in Requests /\ r.attempt \in Nat
  BY <1>2, CallParts
<1>4. n \in Nat
  BY <1>3
<1> HIDE DEF n
<1>5. /\ c \in Calls
      /\ c.function = call.function /\ c.stage = call.stage /\ c.attempt = call.attempt
      /\ c.answer = call.answer /\ c.outcome = call.outcome
      /\ c.lost = call.lost /\ c.corrected = call.corrected /\ c.applied = n
  BY <1>2, <1>4 DEF Typed, Calls
<1> HIDE DEF c
<1>6. IsAnswered(c, r, "ok", call')
  BY <1>1, <1>3, <1>5, AnsweredTyped, Names
<1>7. /\ call' \in Calls
      /\ call'.function = call.function /\ call'.stage = call.stage
      /\ call'.attempt = call.attempt
      /\ call'.answer = IF call.stage = "waiting" /\ call.attempt = r.attempt
                        THEN "ok" ELSE call.answer
      /\ call'.outcome = call.outcome
      /\ call'.lost = call.lost /\ call'.corrected = call.corrected /\ call'.applied = n
  BY <1>5, <1>6 DEF IsAnswered
<1> DEFINE rs == requests \ {r}
<1>8. /\ rs \subseteq Requests /\ OneEach(rs)
      /\ AttemptsOf(rs) \subseteq Attempts
      /\ r.attempt # 0 => AttemptsOf(rs) = Attempts \ {r.attempt}
  BY <1>2, RequestArrives DEF Typed, Attempts
<1>9. /\ requests' \subseteq Requests /\ OneEach(requests')
      /\ \A q \in requests' : ~q.current
      /\ Attempts' = AttemptsOf(rs)
  BY <1>1, <1>8, OutdatedRequests DEF Attempts
<1> HIDE DEF rs
<1>10. Attempts' \subseteq Attempts /\ (r.attempt # 0 => Attempts' = Attempts \ {r.attempt})
  BY <1>8, <1>9
<1>11. Pending' \subseteq Pending /\ IsFiniteSet(Attempts') /\ r.attempt \in Attempts
  BY <1>2, <1>7, <1>10, FS_Subset DEF Typed, Pending, Attempts, AttemptsOf
<1>12. Typed'
  BY <1>1, <1>2, <1>7, <1>9, <1>11 DEF Typed
<1>13. Staged' /\ LostOnce'
  <2>1. call'.answer # call.answer =>
          call.stage = "waiting" /\ call.attempt = r.attempt /\ call.attempt # 0
    BY <1>2, <1>7 DEF Staged
  <2> QED
    BY <1>2, <1>7, <1>10, <2>1 DEF Staged, LostOnce
<1>14. EachOnce' /\ Truly'
  <2>1. Cardinality(Pending') \in Nat /\ Cardinality(Pending') <= Cardinality(Pending)
    BY <1>3, <1>11, NoMore
  <2>2. Succeeded(call) \in {0, 1} /\ Succeeded(call') \in {0, 1}
    BY DEF Succeeded
  <2>3. call.applied + Cardinality(Pending) <= call.lost + Succeeded(call)
    BY <1>2 DEF EachOnce
  <2>4. Succeeded(call) = 1 => call.applied >= 1 /\ Succeeded(call') = 1
    BY <1>2, <1>7 DEF Truly, Succeeded
  <2>5. CASE r.attempt = 0
    <3>1. n = call.applied /\ Succeeded(call') = Succeeded(call)
      BY <1>2, <1>7, <2>5 DEF n, Succeeded, Staged
    <3> QED
      BY <1>3, <1>7, <2>1, <2>2, <2>3, <2>4, <3>1 DEF EachOnce, Truly
  <2>6. CASE r.attempt # 0 /\ r.attempt = call.attempt
    <3>1. call.stage = "waiting" /\ call.answer = "none" /\ call.outcome = "none"
      BY <1>2, <1>11, <2>6, CallParts DEF Staged
    <3>2. n = call.applied + 1 /\ Succeeded(call) = 0 /\ Succeeded(call') = 1
      BY <1>7, <2>6, <3>1 DEF n, Succeeded
    <3> QED
      BY <1>3, <1>7, <2>1, <2>3, <3>2 DEF EachOnce, Truly
  <2>7. CASE r.attempt # 0 /\ r.attempt # call.attempt
    <3>1. n = call.applied + 1 /\ Succeeded(call') = Succeeded(call)
      BY <1>7, <2>7 DEF n, Succeeded
    <3>2. r.attempt \in Pending /\ Pending' = Pending \ {r.attempt}
      BY <1>7, <1>10, <1>11, <2>7 DEF Pending
    <3>3. Cardinality(Pending') + 1 = Cardinality(Pending)
      BY <1>3, <3>2, OneLess
    <3> QED
      BY <1>3, <1>7, <2>1, <2>2, <2>3, <2>4, <3>1, <3>3 DEF EachOnce, Truly
  <2> QED
    BY <2>5, <2>6, <2>7
<1>15. Corrections'
  <2>1. ~Alive'
    BY <1>1, <1>9 DEF Alive
  <2>2. call.function = "sendWithRetry" => n <= 1 + call.corrected
    <3>1. r.attempt # 0 => Alive
      BY <1>1 DEF Alive
    <3>2. call.function = "sendWithRetry" =>
             call.applied + (IF Alive THEN 1 ELSE 0) <= 1 + call.corrected
      BY <1>2 DEF Corrections
    <3> QED
      BY <1>3, <3>1, <3>2 DEF n
  <2>3. call.function = "sendWithRetry" => n + 0 <= 1 + call.corrected
    BY <1>4, <2>2
  <2> QED
    BY <1>2, <1>7, <2>1, <2>3 DEF Corrections
<1> QED
  BY <1>12, <1>13, <1>14, <1>15 DEF CInv

LEMMA SucceedCInv ==
  ASSUME CInv, Succeed
  PROVE  CInv'
<1>1. /\ call.stage = "waiting" /\ call.answer = "ok" /\ requests' = requests
      /\ known' \in {known, call.current} /\ call' = Ended(call, "ok")
  BY DEF Succeed
<1>2. Typed /\ Staged /\ EachOnce /\ Truly /\ Corrections /\ LostOnce
  BY DEF CInv
<1>3. IsEnded(call, "ok", call')
  <2>1. call \in Calls
    BY <1>2 DEF Typed
  <2> QED
    BY <1>1, <2>1, EndedTyped, Names
<1>4. Attempts' = Attempts /\ call.attempt \notin Attempts /\ call.outcome = "none"
  BY <1>1, <1>2 DEF Attempts, Staged
<1>5. Pending' = Pending
  BY <1>3, <1>4 DEF Pending, IsEnded
<1>6. Typed'
  <2>1. call.current \in BOOLEAN
    BY <1>2 DEF Typed, Calls
  <2> QED
    BY <1>1, <1>2, <1>3, <1>4, <2>1 DEF Typed, IsEnded
<1>7. Staged' /\ LostOnce'
  BY <1>1, <1>2, <1>3 DEF Staged, LostOnce, IsEnded
<1>8. EachOnce' /\ Truly'
  <2>1. Succeeded(call') = 1 /\ Succeeded(call) = 1
    BY <1>1, <1>3 DEF Succeeded, IsEnded
  <2> QED
    BY <1>2, <1>3, <1>5, <2>1 DEF EachOnce, Truly, IsEnded
<1>9. Corrections'
  <2>1. Alive' => Alive
    BY <1>1, <1>3 DEF Alive, IsEnded
  <2>2. /\ call.applied \in Nat /\ call.corrected \in Nat
        /\ call.function = "sendWithRetry" =>
             call.applied + (IF Alive THEN 1 ELSE 0) <= 1 + call.corrected
    BY <1>2, CallParts DEF Corrections
  <2>3. call.function = "sendWithRetry" =>
          call.applied + (IF Alive' THEN 1 ELSE 0) <= 1 + call.corrected
    BY <2>1, <2>2
  <2> QED
    BY <1>3, <2>3 DEF Corrections, IsEnded
<1> QED
  BY <1>6, <1>7, <1>8, <1>9 DEF CInv

\* An attempt is over, and the call goes on to the next one or fails.
GoesOn ==
  /\ call.stage = "waiting" /\ requests' = requests /\ known' \in BOOLEAN
  /\ call' \in Calls /\ call'.function = call.function
  /\ call'.answer = "none" /\ call'.applied = call.applied
  /\ \/ /\ call'.stage = "sending" /\ call'.attempt = call.attempt + 1 /\ call'.outcome = "none"
        /\ call.function = "sendWithRetry" => call.attempt < MaxAttempts
     \/ call'.stage = "ended" /\ call'.attempt = 0 /\ call'.outcome = "failed"
  /\ \/ /\ call.answer \in {"mismatch", "rejected"} /\ call'.lost = call.lost
        /\ \/ call'.corrected = call.corrected /\ known' = known
           \/ call'.corrected = Lower(call.corrected + 1, MaxAttempts)
     \/ /\ call'.lost = call.lost + 1
        /\ call'.corrected = call.corrected /\ known' = known
        /\ call.function # "sendWithRetry" => call'.stage = "ended"

LEMMA AttemptIsOver ==
  ASSUME CInv, BeRejected \/ Correct \/ BeMismatched \/ Timeout
  PROVE  GoesOn
<1>1. /\ call \in Calls /\ call.stage = "waiting" /\ call.outcome = "none"
      /\ call.attempt \in Nat /\ call.attempt # 0
      /\ call.lost \in Nat /\ call.corrected \in Nat
      /\ requests' = requests
      /\ known \in BOOLEAN /\ call.current \in BOOLEAN
  <2>1. Typed /\ Staged
    BY DEF CInv
  <2>2. /\ call.attempt \in Nat /\ call.lost \in Nat /\ call.corrected \in Nat
    BY <2>1, CallParts
  <2>3. call \in Calls /\ known \in BOOLEAN /\ call.current \in BOOLEAN
    BY <2>1 DEF Typed, Calls
  <2>4. call.stage = "waiting" /\ requests' = requests
    BY DEF BeRejected, Correct, BeMismatched, Timeout
  <2> QED
    BY <2>1, <2>2, <2>3, <2>4 DEF Staged
<1>2. MaxAttempts \in Nat /\ 1 \in Nat /\ 2 \in Nat
  BY CallsAssumption
<1>3. CASE BeRejected
  <2> DEFINE limit == IF call.function = "sendWithRetry" THEN MaxAttempts ELSE 1
  <2>1. call.answer = "rejected" /\ known' = known /\ call' = Again(call, limit)
    BY <1>3 DEF BeRejected, AfterError
  <2>2. limit \in Nat /\ (call.function = "sendWithRetry" => limit = MaxAttempts)
    BY <1>2
  <2> HIDE DEF limit
  <2>3. Retried(call, limit, call')
    BY <1>1, <2>1, <2>2, AgainTyped
  <2> QED
    BY <1>1, <2>1, <2>2, <2>3 DEF GoesOn, Retried
<1>4. CASE Correct
  <2> DEFINE limit == IF call.function = "sendWithRetry" THEN MaxAttempts ELSE 2
             n == Lower(call.corrected + 1, MaxAttempts)
             c == [call EXCEPT !.corrected = n]
  <2>1. call.answer = "mismatch" /\ known' = call.current
    BY <1>4 DEF Correct
  <2>2. n \in Nat
    BY <1>1, <1>2 DEF Lower
  <2> HIDE DEF n
  <2>3. /\ c \in Calls
        /\ c.function = call.function /\ c.attempt = call.attempt /\ c.outcome = call.outcome
        /\ c.lost = call.lost /\ c.corrected = n /\ c.applied = call.applied
    BY <1>1, <2>2 DEF Calls
  <2> HIDE DEF c
  <2>4. call' = Again(c, limit)
    BY <1>4, <2>3 DEF Correct, AfterMismatch, c, n
  <2>5. limit \in Nat /\ (call.function = "sendWithRetry" => limit = MaxAttempts)
    BY <1>2
  <2> HIDE DEF limit
  <2>6. Retried(c, limit, call')
    BY <2>3, <2>4, <2>5, AgainTyped
  <2> QED
    BY <1>1, <2>1, <2>3, <2>5, <2>6 DEF GoesOn, Retried, n
<1>5. CASE BeMismatched
  <2>1. call.answer = "mismatch" /\ known' = known /\ call' = Ended(call, "failed")
    BY <1>5 DEF BeMismatched, Failed
  <2>2. IsEnded(call, "failed", call')
    BY <1>1, <2>1, EndedTyped, Names
  <2> QED
    BY <1>1, <2>1, <2>2 DEF GoesOn, IsEnded
<1>6. CASE Timeout
  <2> DEFINE limit == IF call.function = "sendWithRetry" THEN MaxAttempts ELSE 1
             c == [call EXCEPT !.lost = call.lost + 1]
  <2>1. known' = known
    BY <1>6 DEF Timeout
  <2>2. call.lost + 1 \in Nat
    BY <1>1
  <2>3. /\ c \in Calls
        /\ c.function = call.function /\ c.attempt = call.attempt /\ c.outcome = call.outcome
        /\ c.lost = call.lost + 1 /\ c.corrected = call.corrected /\ c.applied = call.applied
    BY <1>1, <2>2 DEF Calls
  <2> HIDE DEF c
  <2>4. call' = Again(c, limit)
    BY <1>6, <2>3 DEF Timeout, AfterError, c
  <2>5. /\ limit \in Nat /\ (call.function = "sendWithRetry" => limit = MaxAttempts)
        /\ call.function # "sendWithRetry" => limit = 1
    BY <1>2
  <2> HIDE DEF limit
  <2>6. Retried(c, limit, call')
    BY <2>3, <2>4, <2>5, AgainTyped
  <2>7. call.function # "sendWithRetry" => ~(call.attempt < limit)
    BY <1>1, <2>5
  <2> QED
    BY <1>1, <2>1, <2>3, <2>5, <2>6, <2>7 DEF GoesOn, Retried
<1> QED
  BY <1>3, <1>4, <1>5, <1>6

LEMMA GoesOnCInv ==
  ASSUME CInv, GoesOn
  PROVE  CInv'
<1>1. Typed /\ Staged /\ EachOnce /\ Truly /\ Corrections /\ LostOnce
  BY DEF CInv
<1>2. /\ call.attempt \in Nat /\ call.lost \in Nat /\ call.corrected \in Nat
      /\ call.applied \in Nat
      /\ IsFiniteSet(Pending) /\ Cardinality(Pending) \in Nat
      /\ \A a \in Attempts : a \in Nat
  BY <1>1, CallParts
<1>3. /\ call.stage = "waiting" /\ call.outcome = "none" /\ call.attempt # 0
      /\ \A a \in Attempts : a <= call.attempt
  BY <1>1 DEF GoesOn, Staged
<1>4. Attempts' = Attempts
  BY DEF GoesOn, Attempts
<1>5. call'.attempt \notin Attempts \/ call'.attempt = 0
  <2>1. call'.attempt = call.attempt + 1 \/ call'.attempt = 0
    BY DEF GoesOn
  <2>2. call.attempt + 1 \notin Attempts
    BY <1>2, <1>3
  <2> QED
    BY <2>1, <2>2
<1>6. /\ Pending' \subseteq Pending \cup {call.attempt}
      /\ call.answer # "none" => Pending' = Pending
  BY <1>1, <1>4, <1>5 DEF Pending, Staged
<1>7. Typed'
  BY <1>1, <1>4 DEF GoesOn, Typed
<1>8. Staged'
  <2>1. CASE call'.stage = "sending"
    <3>1. /\ call'.attempt = call.attempt + 1 /\ call'.outcome = "none" /\ call'.answer = "none"
          /\ call'.function = call.function
          /\ call.function = "sendWithRetry" => call.attempt < MaxAttempts
      BY <2>1 DEF GoesOn
    <3>2. call'.attempt \notin Attempts /\ call'.attempt # 0
      BY <1>2, <1>3, <3>1
    <3>3. /\ \A a \in Attempts : a <= call'.attempt
          /\ call.function = "sendWithRetry" => call'.attempt <= MaxAttempts
      BY <1>2, <1>3, <3>1, CallsAssumption
    <3> QED
      BY <1>4, <2>1, <3>1, <3>2, <3>3 DEF Staged
  <2>2. CASE call'.stage = "ended"
    BY <2>2 DEF GoesOn, Staged
  <2> QED
    BY <2>1, <2>2 DEF GoesOn
<1>9. LostOnce'
  <2>1. call.function # "sendWithRetry" => call.lost = 0
    BY <1>1, <1>3 DEF LostOnce
  <2> QED
    BY <1>2, <2>1 DEF GoesOn, LostOnce
<1>10. EachOnce' /\ Truly'
  <2>1. Succeeded(call') = 0 /\ call'.applied = call.applied
    BY DEF GoesOn, Succeeded
  <2>2. call.applied + Cardinality(Pending) <= call.lost + Succeeded(call)
    BY <1>1 DEF EachOnce
  <2>3. Cardinality(Pending') \in Nat /\ Cardinality(Pending') <= Cardinality(Pending) + 1
    BY <1>2, <1>6, AtMostOneMore
  <2>4. CASE call.answer \in {"mismatch", "rejected"} /\ call'.lost = call.lost
    <3>1. Succeeded(call) = 0 /\ Pending' = Pending
      BY <1>3, <1>6, <2>4 DEF Succeeded
    <3> QED
      BY <1>2, <2>1, <2>2, <2>4, <3>1 DEF EachOnce, Truly
  <2>5. CASE call'.lost = call.lost + 1
    <3>1. CASE call.answer = "none"
      <4>1. Succeeded(call) = 0
        BY <1>3, <3>1 DEF Succeeded
      <4> QED
        BY <1>2, <2>1, <2>2, <2>3, <2>5, <4>1 DEF EachOnce, Truly
    <3>2. CASE call.answer # "none"
      <4>1. Pending' = Pending /\ Succeeded(call) \in {0, 1}
        BY <1>6, <3>2 DEF Succeeded
      <4> QED
        BY <1>2, <2>1, <2>2, <2>5, <4>1 DEF EachOnce, Truly
    <3> QED
      BY <3>1, <3>2
  <2> QED
    BY <2>4, <2>5 DEF GoesOn
<1>11. Corrections'
  <2>1. MaxAttempts \in Nat
    BY CallsAssumption
  <2>2. /\ call.corrected < call.attempt
        /\ call.function = "sendWithRetry" =>
             /\ call.attempt <= MaxAttempts
             /\ call.applied + (IF Alive THEN 1 ELSE 0) <= 1 + call.corrected
    BY <1>1, <1>3 DEF Corrections, Staged
  <2>3. call'.function = call.function /\ call'.applied = call.applied
    BY DEF GoesOn
  <2>4. call'.stage # "ended" => call'.attempt = call.attempt + 1
    BY DEF GoesOn
  <2>5. CASE call'.corrected = call.corrected /\ known' = known
    <3>1. Alive' => Alive
      BY <1>3, <2>5 DEF GoesOn, Alive
    <3>2. call.function = "sendWithRetry" =>
            call.applied + (IF Alive' THEN 1 ELSE 0) <= 1 + call.corrected
      BY <1>2, <2>2, <3>1
    <3>3. call.corrected < call.attempt + 1
      BY <1>2, <2>2
    <3> QED
      BY <2>3, <2>4, <2>5, <3>2, <3>3 DEF Corrections
  <2>6. CASE call'.corrected = Lower(call.corrected + 1, MaxAttempts)
    <3>1. call'.corrected < call.attempt + 1
      BY <1>2, <2>1, <2>2, <2>6 DEF Lower
    <3>2. call.function = "sendWithRetry" => call'.corrected = call.corrected + 1
      BY <1>2, <2>1, <2>2, <2>6 DEF Lower
    <3>3. call.function = "sendWithRetry" =>
            call.applied + (IF Alive' THEN 1 ELSE 0) <= 1 + call'.corrected
      BY <1>2, <2>2, <3>2
    <3> QED
      BY <2>3, <2>4, <3>1, <3>3 DEF Corrections
  <2> QED
    BY <2>5, <2>6 DEF GoesOn
<1> QED
  BY <1>7, <1>8, <1>9, <1>10, <1>11 DEF CInv

LEMMA NextCInv ==
  ASSUME CInv, [ClientNext]_clientVars
  PROVE  CInv'
<1>1. CASE Others
  BY <1>1, OthersCInv
<1>2. CASE Call
  BY <1>2, CallCInv
<1>3. CASE SendCommand
  BY <1>3, SendCInv
<1>4. CASE Succeed
  BY <1>4, SucceedCInv
<1>5. CASE BeRejected \/ Correct \/ BeMismatched \/ Timeout
  BY <1>5, AttemptIsOver, GoesOnCInv
<1>6. ASSUME NEW r \in requests, Mismatch(r) \/ Reject(r) \/ Accept(r)
      PROVE  CInv'
  <2>1. CASE Mismatch(r) \/ Reject(r)
    <3>1. Refuses
      BY <2>1 DEF Mismatch, Reject, Refuses
    <3> QED
      BY <3>1, RefusesCInv
  <2>2. CASE Accept(r)
    BY <2>2, AcceptCInv
  <2> QED
    BY <1>6, <2>1, <2>2
<1>7. CASE UNCHANGED clientVars
  <2>1. call' = call /\ requests' = requests /\ known' = known
    BY <1>7 DEF clientVars
  <2>2. Attempts' = Attempts /\ Pending' = Pending /\ Succeeded(call)' = Succeeded(call)
    BY <2>1 DEF Attempts, Pending, Succeeded
  <2>3. Alive' <=> Alive
    BY <2>1 DEF Alive
  <2> QED
    BY <2>1, <2>2, <2>3 DEF CInv, Typed, Staged, EachOnce, Truly, Corrections, LostOnce
<1> QED
  BY <1>1, <1>2, <1>3, <1>4, <1>5, <1>6, <1>7 DEF ClientNext, ClientStep, Receive

LEMMA CallsInvariance == ClientSpec => []CInv
<1>1. CInv /\ [ClientNext]_clientVars => CInv'
  BY NextCInv
<1> QED
  BY ClientInitCInv, <1>1, PTL DEF ClientSpec

--------------------------------------------------------------------------------
\* However many times a command is sent and however late a request arrives, it
\* is applied once, and again only after sendWithRetry gave up an attempt and
\* corrected its sequence.
THEOREM CommandsAppliedOnce == ClientSpec => []AppliedOnce
<1>1. CInv => AppliedOnce
  <2> SUFFICES ASSUME CInv PROVE AppliedOnce
    OBVIOUS
  <2>1. Typed /\ Staged /\ EachOnce /\ Corrections /\ LostOnce
    BY DEF CInv
  <2>2. /\ call.applied \in Nat /\ call.lost \in Nat /\ call.corrected \in Nat
        /\ Cardinality(Pending) \in Nat
    BY <2>1, CallParts
  <2>3. /\ Succeeded(call) \in {0, 1}
        /\ call.stage = "ended" /\ call.outcome = "failed" => Succeeded(call) = 0
    BY <2>1 DEF Succeeded, Staged
  <2>4. call.applied <= call.lost + Succeeded(call)
    BY <2>1, <2>2, <2>3 DEF EachOnce
  <2>5. CASE call.function = "sendWithRetry"
    <3>1. call.applied <= 1 + call.corrected
      BY <2>1, <2>2, <2>5 DEF Corrections
    <3> QED
      BY <2>2, <2>3, <2>4, <2>5, <3>1 DEF AppliedOnce, Lower
  <2>6. CASE call.function # "sendWithRetry"
    <3>1. call.lost + Succeeded(call) <= 1
      BY <2>1, <2>2, <2>3, <2>6 DEF LostOnce
    <3> QED
      BY <2>2, <2>3, <2>4, <2>6, <3>1 DEF AppliedOnce
  <2> QED
    BY <2>5, <2>6
<1> QED
  BY CallsInvariance, <1>1, PTL

\* A call that reports success had its effect; one that reports failure had
\* none, unless it gave up an attempt without an answer.
THEOREM OutcomesAreTrue == ClientSpec => []OutcomeIsTrue
<1>1. CInv => OutcomeIsTrue
  <2> SUFFICES ASSUME CInv PROVE OutcomeIsTrue
    OBVIOUS
  <2>1. Typed /\ Staged /\ EachOnce /\ Truly
    BY DEF CInv
  <2>2. /\ call.applied \in Nat /\ call.lost \in Nat /\ Cardinality(Pending) \in Nat
    BY <2>1, CallParts
  <2>3. call.outcome = "ok" => call.applied >= 1
    BY <2>1 DEF Truly, Succeeded
  <2>4. ASSUME call.outcome = "failed", call.lost = 0
        PROVE  call.applied = 0
    <3>1. Succeeded(call) = 0
      BY <2>1, <2>4, CallParts DEF Staged, Succeeded
    <3> QED
      BY <2>1, <2>2, <2>4, <3>1 DEF EachOnce
  <2> QED
    BY <2>3, <2>4 DEF OutcomeIsTrue
<1> QED
  BY CallsInvariance, <1>1, PTL

\* What clients do to the aggregate, calls, retries and late requests included,
\* are the aggregate's own steps: whatever Spec implies holds with them too.
THEOREM ClientIsPlayer == ClientSpec => Spec
<1>1. ClientInit => Init
  BY DEF ClientInit
<1>2. CInv /\ [ClientNext]_clientVars => [Next]_vars
  <2>0. ASSUME UNCHANGED clientVars
        PROVE  UNCHANGED vars
    BY <2>0 DEF clientVars, vars
  <2> SUFFICES ASSUME CInv, [ClientNext]_clientVars
               PROVE  [Next]_vars
    OBVIOUS
  <2>1. ASSUME NEW r \in requests, Accept(r)
        PROVE  Next
    <3>1. r.cmd \in Commands /\ CallAmounts \subseteq Amounts
      BY CallsAssumption DEF CInv, Typed, Requests
    <3>2. Handle(r.cmd)
      BY <2>1 DEF Accept
    <3>3. CASE r.cmd.type = "RegisterPlayer"
      BY <3>2, <3>3 DEF Handle, Next
    <3>4. CASE r.cmd.type # "RegisterPlayer"
      <4>1. r.cmd.amount \in Amounts
        BY <3>1, <3>4 DEF Commands
      <4> QED
        BY <3>2, <3>4, <4>1 DEF Handle, Next
    <3> QED
      BY <3>3, <3>4
  <2>2. CASE Others
    BY <2>2 DEF Others
  <2>3. ASSUME Call \/ ClientStep
        PROVE  UNCHANGED vars
    <3>1. CASE Call
      BY <3>1 DEF Call, vars
    <3>2. CASE SendCommand \/ Succeed \/ BeRejected \/ BeMismatched
      BY <3>2 DEF SendCommand, Succeed, BeRejected, BeMismatched, vars
    <3>3. CASE Correct \/ Timeout
      BY ONLY <3>3, Zenon DEF Correct, Timeout, vars
    <3> QED
      BY <2>3, <3>1, <3>2, <3>3 DEF ClientStep, Receive
  <2>4. ASSUME NEW r \in requests, Mismatch(r) \/ Reject(r)
        PROVE  UNCHANGED vars
    BY <2>4 DEF Mismatch, Reject, vars
  <2>5. CASE ClientNext
    <3>1. Next \/ UNCHANGED vars
      BY <2>1, <2>2, <2>3, <2>4, <2>5 DEF ClientNext
    <3> QED
      BY <3>1
  <2> QED
    BY <2>0, <2>5
<1> QED
  BY <1>1, <1>2, CallsInvariance, PTL DEF ClientSpec, Spec
================================================================================
