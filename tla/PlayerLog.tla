------------------------------- MODULE PlayerLog -------------------------------
(***************************************************************************)
(* The player aggregate as it runs: its state is an event log.  A handler  *)
(* rebuilds the state from the last snapshot and the pages it is given     *)
(* (RebuildState), decides, and its event is appended only if the log has  *)
(* not grown meanwhile.  Several commands may be in flight.                *)
(*                                                                         *)
(* The log, its sequence check and the taking of snapshots belong to the   *)
(* angzarr coordinator, which is not in this repository: those definitions *)
(* model it from how the handlers and tests/acceptance_steps.go use it     *)
(* ("Sequence mismatch ... aggregate at N").  The pages handed to          *)
(* RebuildState may start before the snapshot: the comment on              *)
(* applyDeposited promises that re-applying events is harmless.            *)
(***************************************************************************)
EXTENDS PlayerState, Sequences, FiniteSets

CONSTANTS
  Amounts, CommandRoots, ChipSupply,   \* as in Player
  Workers,                             \* handler invocations in flight
  MaxEvents                            \* bound on the length of the log

ASSUME LogBoundsAssumption == MaxEvents \in Nat /\ Amounts \subseteq Int64

VARIABLES
  log,        \* the persisted events
  snapshot,   \* [state, next]: state after the first next events
  job         \* job[w]: the event worker w has computed, and from which length

vars == <<log, snapshot, job>>

--------------------------------------------------------------------------------
(***************************************************************************)
(* Rebuilding and handling                                                 *)
(***************************************************************************)
Pages(from) == SubSeq(log, from + 1, Len(log))

\* The snapshot proto keeps every field that a decision reads.
applySnapshot(state) == state

\* The pages are applied in their order, each to the state the last one left.
RebuildState(base, pages) ==
  LET state[n \in 0..Len(pages)] ==
        IF n = 0 THEN base ELSE Apply(state[n - 1], pages[n])
  IN  state[Len(pages)]

CurrentState == RebuildState(NewPlayerState, log)

Commands ==
  [type : {"RegisterPlayer"}]
    \cup [type : {"DepositFunds", "WithdrawFunds"}, amount : Amounts]
    \cup [type : {"ReserveFunds"}, root : CommandRoots, amount : Amounts]
    \cup [type : {"ReleaseFunds", "JoinTableRejected"}, root : CommandRoots]

EmitIf(accepted, event) == IF accepted THEN {event} ELSE {}

\* CommandRouter of main.go: the events a command produces in state s, none
\* when it is rejected.
Handle(s, cmd) ==
  CASE cmd.type = "RegisterPlayer" -> EmitIf(CanRegister(s), PlayerRegistered)
    [] cmd.type = "DepositFunds" ->
         EmitIf(CanDeposit(s, cmd.amount) /\ s.bankroll + cmd.amount <= ChipSupply,
                FundsDeposited(s, cmd.amount))
    [] cmd.type = "WithdrawFunds" ->
         EmitIf(CanWithdraw(s, cmd.amount), FundsWithdrawn(s, cmd.amount))
    [] cmd.type = "ReserveFunds" ->
         EmitIf(CanReserve(s, cmd.root, cmd.amount),
                FundsReserved(s, cmd.root, cmd.amount))
    [] cmd.type = "ReleaseFunds" ->
         EmitIf(CanRelease(s, cmd.root), FundsReleased(s, cmd.root))
    [] cmd.type = "JoinTableRejected" -> {FundsReleased(s, cmd.root)}

--------------------------------------------------------------------------------
(***************************************************************************)
(* Behaviour                                                               *)
(***************************************************************************)
Idle == [events |-> {}, next |-> 0]

Init ==
  /\ log = <<>>
  /\ snapshot = [state |-> NewPlayerState, next |-> 0]
  /\ job = [w \in Workers |-> Idle]

\* A worker is given the snapshot and the pages from `from` on, and runs the
\* handler of one command; a rejected command leaves nothing behind.
Run(w, cmd, from) ==
  /\ job[w] = Idle
  /\ LET s == RebuildState(applySnapshot(snapshot.state), Pages(from))
     IN  /\ Handle(s, cmd) # {}
         /\ job' = [job EXCEPT ![w] = [events |-> Handle(s, cmd), next |-> Len(log)]]
  /\ UNCHANGED <<log, snapshot>>

Bug_Persist(w) ==
  /\ job[w] # Idle
  /\ Len(log) < MaxEvents
  /\ \E e \in job[w].events : log' = Append(log, e)
  /\ job' = [job EXCEPT ![w] = Idle]
  /\ UNCHANGED snapshot

\* The coordinator persists the event of a worker that saw the whole log.
Persist(w) ==
  /\ job[w] # Idle
  /\ job[w].next = Len(log)
  /\ Len(log) < MaxEvents
  /\ \E e \in job[w].events : log' = Append(log, e)
  /\ job' = [job EXCEPT ![w] = Idle]
  /\ UNCHANGED snapshot

\* Sequence mismatch, or the worker dies before its event is persisted.
Lose(w) ==
  /\ job[w] # Idle
  /\ job' = [job EXCEPT ![w] = Idle]
  /\ UNCHANGED <<log, snapshot>>

Bug_TakeSnapshot ==
  /\ snapshot.next < Len(log)
  /\ snapshot' = [state |-> CurrentState, next |-> Len(log) + 1]
  /\ UNCHANGED <<log, job>>

TakeSnapshot ==
  /\ snapshot.next < Len(log)
  /\ snapshot' = [state |-> CurrentState, next |-> Len(log)]
  /\ UNCHANGED <<log, job>>

Next ==
  \/ \E w \in Workers, cmd \in Commands, from \in 0..snapshot.next : Run(w, cmd, from)
  \/ \E w \in Workers : Persist(w) \/ Lose(w)
  \/ TakeSnapshot

Spec == Init /\ [][Next]_vars

--------------------------------------------------------------------------------
(***************************************************************************)
(* Properties                                                              *)
(***************************************************************************)

\* Type invariant: jobs and snapshots never run ahead of the log.
TypeOK ==
  /\ Len(log) <= MaxEvents
  /\ snapshot.next \in 0..Len(log)
  /\ \A w \in Workers : job[w].next \in 0..Len(log) /\ Cardinality(job[w].events) <= 1

\* "Idempotent replay" (state.go:71): applying again any events that a state
\* already contains, in order and up to the end of the log, gives the same
\* state.  It holds because events carry final balances.
ReplayIsIdempotent ==
  \A seen \in 0..Len(log) :
    \A from \in 0..seen :
      RebuildState(RebuildState(NewPlayerState, SubSeq(log, 1, seen)), Pages(from))
        = CurrentState

\* Concurrent commands, lost workers, snapshots and overlapping pages do not
\* show: the log's state moves as the sequential player of Player.tla does.
Sequential == INSTANCE Player WITH player <- CurrentState

ImplementsPlayer == Sequential!Spec
================================================================================
