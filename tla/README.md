# Verification of the Go poker examples

This directory holds TLA+ models of the event-sourced poker system of this
repository, TLC runs that check them on small instances, and TLAPS proofs for
every size of them. Everything is translated from the Go sources; line numbers
refer to them. `PROJECT.json` maps every definition to its lines and lists runs,
hazards, findings and theorems.

Run `tlc -config X.cfg M` for a run and `tlapm P.tla` for the proofs of
a module P whose name ends in `Proofs`.

## The system

| Part | Source | State | Operations |
|---|---|---|---|
| player aggregate | `player/agg` | bankroll, reserved total, reservation per table | Register, Deposit, Withdraw, Reserve, Release; compensation of a refused JoinTable |
| table aggregate | `table/agg/table.go` | seats, dealer, hand count, current hand, status | Create, Join, Leave, StartHand, AddChips, EndHand; facts PlayerSatOut/In |
| hand aggregate | `hand/agg/hand.go` | players' stacks and bets, pot, board, deck, phase | DealCards, PostBlind, PlayerAction, DealCommunityCards, RequestDraw, RevealCards, AwardPot |
| saga table-hand | `table/saga-hand` | none | HandStarted → DealCards |
| saga hand-table | `hand/saga-table` | none | HandComplete → EndHand |
| saga table-player | `table/saga-player` | none | HandEnded → ReleaseFunds |
| saga hand-player | `hand/saga-player` | none | PotAwarded → DepositFunds |
| saga player-table | `player/saga-table` | none | PlayerSittingOut/ReturningToPlay → facts |
| process manager | `pmg-hand-flow` | none kept | takes six events of table and hand, answers each with nothing |
| projectors | `prj-*` | a log file | formatting |
| upcaster | `player/upc` | none | passthrough |
| test mirrors | `table/agg/handlers`, `hand/agg/handlers` | as the aggregates | functional copies of the handlers, run by the tests |
| test clients | `tests/acceptance_steps.go`, `tests/grpc_client.go` | the sequence each client believes in | calls with a deadline, correction of sequences, retries |

An aggregate rebuilds its state from a snapshot and its persisted events, runs
one command (guard, validate, compute) and has its events appended if the log
has not grown meanwhile. Sagas turn an event of one aggregate into commands for
another, asynchronously. The log, the bus and the rejection notices belong to the
angzarr coordinator, which is not in this repository: those definitions are
marked external and modelled from how the code uses them.

What makes each part correct:

- player: no chip is committed twice; the reserved total and the reservation map
  agree; replay is idempotent.
- table: one seat per player; a hand's players and stacks do not change under
  it; one result per hand; the blinds and the button are where they belong.
- hand: chips are conserved; one final result, within what was brought; no card
  in two places.
- test mirrors: what a test sees of them happens in the deployed aggregate too.
- clients: a command is applied once, what a call reports is true, a call ends.
- system: the hand plays the chips at the table; winnings are paid exactly once;
  a hand ends at the table and its reservations are released.

What is hard: interleaved commands on one log, overlapping snapshots, late and
repeated events, refusals that arrive late, answers that are lost, two codes for
one aggregate, sequences of bets beyond a stack, and integer width. `PROJECT.json` lists each hazard at its line.

## Modules

| Module | What it models | Checked by |
|---|---|---|
| `PlayerState` | the player's state, appliers and handlers as pure operators | (used by the next two and by Poker) |
| `Player` | the aggregate run sequentially, one action per command | `MCClient`, proofs |
| `Client` | the tests' calls to the player: requests, answers, deadlines, retries, beside other clients | `MCClient` |
| `Escrow` | abstract: an account whose chips can be locked per table | refined by `Player` |
| `PlayerLog` | the aggregate on its event log: concurrent workers, snapshots, lost handlers | `MCPlayerLog`, refines `Player` |
| `PlayerProofs`, `PlayerLogProofs`, `ClientProofs` | theorems about `Player`, `PlayerLog` and `Client` | TLAPS |
| `Table` | the table aggregate | `MCTable` |
| `TableMirror` | the table's functional handlers, on the same table | `MCTable` |
| `TableProofs` | theorems about `Table` and `TableMirror` | TLAPS |
| `Chips`, `ChipsProofs` | the sum of chips in several places, and its lemmas | (used by Payout, Hand, HandRank and Poker), TLAPS |
| `Payout` | abstract: players bring chips once and are paid once | refined by `Hand`, used by `Poker` |
| `Hand` | the hand aggregate | `HandMirror` |
| `HandMirror` | the hand's functional handlers and appliers, on the same events | itself |
| `HandProofs` | theorems about `Hand` and `HandMirror` | TLAPS |
| `HandRank` | the evaluation of hands, beside the rules of poker | `MCHandRank` |
| `HandRankMirror` | the functional evaluation, beside the deployed one | `MCHandRank` |
| `HandRankProofs` | theorems about `HandRank` and `HandRankMirror` | TLAPS |
| `Poker` | accounts, one table, its hands, the four sagas, the process manager and the bus | `MCPoker` |
| `PokerProofs` | theorems about `Poker` | TLAPS |

A rejected command changes nothing, so an action is an accepted command. In
`Poker`, where a refusal has consequences (the command leaves the bus, a notice is
sent), refusals are modelled. The operators whose names start with `Bug_` are
plausible mistakes in the definition after them; each property is known to fail
when one of them takes that definition's place.

Correspondence worth knowing:

- Roots are numbers. In `Table` a hand's root is the hand number, which the code
  hashes with the table's root; in `Poker` the table's root is a number outside.
- `Player`: an empty `table_root` is `NoRoot`. It does not survive
  serialisation, so the appliers skip the reservation map for it.
- `Table`: `seats` is the map `Seats`; `hand` is the last HandStarted event;
  `ended` is history. The dealer's fallback to index 0 when its seat is vacated
  or sitting out is in `IndexOf`.
- `Hand`: chips move by the actual amount, `BetThisRound` by the emitted one, as
  the event and its applier do. Cards are places in the shuffled deck.
- `HandRank`: a hand is a set of cards, since the code sorts them; the state is the
  set dealt so far, and `evaluateFive`, `findBestFive` and `evaluateHand`, the choice
  between them by variant, are operators on it. The
  rules (`Category`, `Beats`) are written without counts or scores. Cards are
  distinct there, as in a deck, though the code's board can repeat one
  (`hand.go:214` below).
- `Client`: sequences only grow, so a sequence is a flag: still the aggregate's or
  not. A call is one of `sendAndAdvance`, `sendAndAdvanceWithMode` and
  `sendWithRetry`; `lost`, `corrected` and `applied` are history. A request that
  its caller gave up stays on its way. The commands of others are `Player`'s own
  steps, which outdate every sequence held.
- `TableMirror`: the functional appliers are the deployed ones, so either code may
  handle the next command on one table; where a functional handler is the deployed
  one statement for statement it is that action.
- `HandMirror`: both codes read one log of events. What the two keep apart, bets,
  current bet and minimum raise, is `mirror`; the functional handler is
  `HandlePlayerAction`, the set of the event it answers with, or of none.
- `Poker`: a hand is what `Payout` allows; `Hand` is shown to implement it. The
  buy-in flow (a JoinTable after a reservation) and clients that send EndHand
  themselves are external.

## Runs

| Run | Result | Question |
|---|---|---|
| Client | holds | any order of commands and compensations on an account, around calls whose requests and answers are lost, late and retried |
| PlayerLog | holds | two commands in flight, snapshots, overlapping replay |
| Table | holds | three players around hands with late and repeated results, commands handled by either code; button and blinds; the seats of the two codes |
| Hand | holds | two players, bets to the last chip, streets or draws; the functional code's bets and answers |
| HandRank | holds | names of hands and the best five of six cards; the functional code's names, in hold'em and five card draw |
| Poker | holds | two hands across aggregates, commands in any order, the first one's events repeated in the second |
| PokerLive | holds | under fair delivery hands are dealt, winnings arrive, and buy-ins end in a seat or are released |
| HandPair | violated | the better hand has the higher score |
| HandRaise | violated | a raise never takes chips out of the pot |
| PokerEnd | violated | a completed hand ends at the table |
| PokerRelease | violated | an ended hand's reservations are released |
| PokerRejection | violated | only the failed join's reservation is released |

Each violated run is a disagreement between the code and a comment or test that
`PROJECT.json` quotes under "findings".

### Other disagreements

Places where the code does what no reader of it would expect. The models follow
the code here too; no run asks about them.

- `deposit.go:40`: the sum is an int64 without a bound; a large enough accepted
  deposit leaves a negative bankroll.
- `reserve.go:26`: an empty `table_root` is accepted, raises `ReservedFunds`, is
  recorded under no table (`state.go:94`) and cannot be released (`release.go:24`).
- `table.go:203`: when the dealer's seat has been vacated the search falls back to
  index 0, and the button goes to the second occupied seat, not the next one.
- `table.go:449`: a top-up near the limit of int64 wraps around and passes the
  check against the maximum buy-in.
- `hand.go:395`: any player who has not folded and is not all-in may act at any
  time, though `tests/acceptance_steps.go:1272` expects "not your turn".
- `hand.go:415`: a check with something to call pays the call, but its event stays
  a CHECK, for which `applyActionTaken` does not raise `BetThisRound`: the player
  still owes the amount just paid, and can be charged again.
- `hand.go:214`: dealing community cards leaves `RemainingDeck` as it was, so the
  turn and the river show the flop's first card again, though
  `tests/hand_steps.go:117` speaks of the remaining deck decreasing.
- `hand.go:1083`: the fifth card of a flush or a high card has weight 0 in the
  score; hands that differ in it alone tie.
- `hand.go:231`: `DrawCompleted` has the number of discards, not their indices; the
  applier drops the last cards whichever were chosen.
- `hand.go:684`: awards may be negative, and one negative award lets another exceed
  the pot.
- Ports: `hand/saga-player/main.go:79` passes 50215, where `standalone.yaml:79` gives
  it 50214; `player/saga-table/main.go:109` passes 50214, and
  `prj-output-oo/main.go:149` and `prj-cloudevents/main.go:114` the port of the process
  manager (50291). `standalone.yaml` runs none of the last three.
- `tests/acceptance_steps.go:186`: `sendWithRetry` sends again after any error, the
  deadline included. If the first request was applied and its answer lost, the next
  attempt names a stale sequence, is told the right one, corrects itself and is
  applied again: a deposit is made twice. `AppliedOnce` says how often this can
  happen at most; the bound is reached.

The functional handlers, which the tests run, and the deployed methods:

- `table/agg/handlers/handlers.go:101` takes a preferred seat 0 as a wish and
  refuses a taken seat; `table.go:287` takes 0 as no preference and seats the
  player at the next free seat. `MirrorJoinsAreTables` says that nothing else
  differs. There is no functional handler for AddChips.
- `hand/agg/handlers/handlers.go:161` refuses a check that faces a bet and `:166` a
  call of nothing; `hand.go:413` takes the one for a call and the other for a
  check. `hand/agg/handlers/state.go:154` never moves the minimum raise.
  `MirrorAgreesOnActions` says that nothing else differs before the first street.
- `hand/agg/handlers/state.go:195` resets no bets at a street, which waits for a
  BettingRoundComplete that no code emits; from the flop on a bet is refused with
  "use raise" by the code the tests run, and accepted by the deployed one. The
  models are therefore compared up to the first street only.
- `hand/agg/handlers/handlers.go:713` and `:731` score trips and pairs without the
  other cards: equal pairs tie there, whereas the deployed score lets a kicker
  outweigh the pair (HandPair). In hold'em and five card draw the name of the hand
  is the same (`MirrorRevealsSameRank`).
- `hand/agg/handlers/handlers.go:581` makes every hand of any other variant a high
  card with score 0. The deployed `getGameRules` (`hand.go:800`) evaluates Omaha
  (`hand.go:835`) and takes seven card stud, and whatever else, for hold'em
  (`hand.go:808`), so that a test of the functional code says nothing of the names
  revealed in these variants.

### Bounds

- Amounts are a few small integers, some illegal (zero, negative); guards only
  compare them. `MaxInt` stands for the largest int64; the passing runs keep the
  chips below it.
- Three tables in `Client`: two reservations besides the one that changes. Three
  attempts in place of the eight of `sendWithRetry`: one that is lost, one that is
  told a sequence, one that uses it; the number of calls and of other clients'
  commands is not bounded. Calls deposit one amount: what tells requests apart is
  their attempt. Four
  events in `PlayerLog`: enough to register, deposit, reserve and release with a
  command racing each of them.
- Three seats and players in `Table`: heads-up with the vacant or sitting-out seat
  anywhere, and three-handed, are the two cases of the blinds. Hands are bounded by `MaxHands`, stacks by `MaxStack`.
- Two players in `Hand`: every case (side of the blinds, fold, all-in, call
  short) needs no third; side pots do not exist in the code. `MaxBet` bounds
  `BetThisRound`, which the code lets grow beyond the stack; at 6 the pot does go
  negative, by the raises of HandRaise, and the passing properties hold then too. A deck of 12
  cards leaves two to draw.
- Nine ranks of four suits in `HandRank`, the wheel and the royal flush among them.
  Six cards are the least with a choice in it: two trips, three pairs, two flushes,
  two straights or one of each; a seventh adds cases of the same kinds. `HandPair`
  needs five ranks of two suits.
- Two players in `Poker`, and two hands, so that the first one's events can come
  again during the second; one hand in the other system runs. `MaxBuyIns` and
  `MaxInFlight` bound what is sent: two buy-ins of a player, so that a late refusal
  meets a newer reservation, and two commands in flight, but any number of events
  waiting, so that delays still reorder. In PokerLive a table refuses a buy-in for
  its amount or because it is not there yet; an occupied seat or a full table would
  refuse on the same path. In the one-hand runs `MaxInFlight` is
  never reached.

Deadlock is checked in Client, PlayerLog and Table. A completed hand
stops, and clients of the whole system may stop, so it is not checked there.

### Fairness

`Client!ClientSpec` assumes that a client goes on with its call: the wait ends with
an answer or with the deadline of 15 seconds (`grpc_client.go:101`), and between
attempts it sleeps for less than a second (`acceptance_steps.go:204`). Nothing is
assumed of the bus, the aggregate or the other clients, which may overtake the call
at every attempt; `CallsEnd` holds by the attempts' limits.

`Poker!FairSpec` assumes that each saga eventually gets each of its events, that each
command sent, a JoinTable included, is eventually handled, and that the player
eventually hears of a refused join: the coordinator delivers from persisted logs to
processes that run all the time (`standalone.yaml`). Clients and the playing of a hand
are under no obligation, so no liveness is claimed that needs a player to act.

`WinningsPaidOnce` and `WinningsArrive` assume that PotAwarded is delivered
exactly once. DepositFunds carries no identity of the pot, so nothing in this
repository would notice a second delivery; HandStarted, HandComplete and HandEnded
may be repeated without harm, and the runs repeat them.

## Proofs

Each theorem holds for every value of the constants that the modules' named
assumptions allow: any players, tables, seats, stacks, workers, events, attempts.
An assumption that a theorem makes besides is in its statement and below. In every
module the invariants that the run checks become inductive with a few more
conjuncts; one lemma per action shows that the action keeps them.

**Player** (`PlayerProofs`). Assumed: no deposit takes the bankroll above what the
type holds, and every command names a table. Both are needed: see `deposit.go:40`
and `reserve.go:26` above. The reserved total is a sum over the reservations;
`ReservedIsSum` says that a function of partial sums exists, running from 0 to the
total over the tables in order. The inductive invariant needs `TypeOK`,
`ReservedIsSum` and `NeverOvercommitted` together: the sum bounds each entry by the
total (`EntryWithinTotal`), the total is bounded by the bankroll, and so no
arithmetic wraps around (`WrapExact`). `SumUpdate` shows that changing one entry
moves every later partial sum by the same amount. The same case split gives the
step of the escrow account.

**The player's log** (`PlayerLogProofs`). Rebuilding is a recursive function on the
pages, about which induction over numbers (`Reaches`, from the well-foundedness of
<) proves what is needed: it takes the next event's step, depends on the pages'
contents only, and what is appended changes nothing of the past. Replay is
idempotent because every event overwrites: a state is split into parts (existence,
bankroll, reserved total, each table's reservation), and an event gives a part the
same value in every state, or leaves it (`Overwrites`). When the end of a log is
replayed on a state that contains it, each part either was written, and has the
log's value from that event on, or was not, and never left the value it has in the
end (`ReplayedPart`). This would fail of events that carry differences. The
inductive invariant `LogInv` says that the snapshot is the state after the events
it counts and that a worker's event was decided in the state of the log it saw; so
the event is right when the log has not grown, which is what `Persist` checks, and
each persisted event is a step of `Player`. `LogBacksReservations` carries
`NeverOvercommitted` over from `PlayerProofs`, under the same assumptions.

**Clients** (`ClientProofs`). `CInv` counts: a call's applications and the requests
that are still on their way and not outdated are together no more than the attempts
given up and its success; a request on its way has an attempt no later than the
call's; a client that knows the sequence leaves one application at most to its
corrected attempts.

**Table** (`TableProofs`). Proved for `SpecEither`, where either code handles each
command, and carried over to the deployed table (`DeployedTable`). The invariant
adds that the hands that were started and are not the one being played have their
result (`HandsInOrder`), and that nobody sits at a table that was not created. The
blinds are found by an index modulo the number of active seats; the proof is about
the n-th element of a finite set of positions and its successor around the table.
The button's step is an action property: the new dealer is another seat.

**Hand** (`HandProofs`). `IInv` adds to the runs' invariants that the cards held,
by place, and those in the deck are all different (`CardsApart`), which draws keep,
and that no stack is below zero while the hand is played. `TypeCorrect` assumes that
no award is negative, since the code accepts negative ones (`hand.go:684`) and a
stack can then end below zero; the other theorems do not. `FoldIsFinal` and
`NothingAfterTheResult` are action properties, and `HandIsPayout` maps each step to
one of `Payout`. The functional code is compared with the deployed one by an
invariant of both logs' states, `Agreement`.

**Evaluation of hands** (`HandRankProofs`). The invariant is only that the cards are
finitely many cards of the deck; the work is in the operators. A rank comes at most
four times, there being four suits, so five cards have one of six count patterns
(`ShapeIsPattern`, from `ShapeAdds`: ranks held once, twice, three and four times add
up to five cards), and each table of the code has an entry for each. `placeOf`
numbers the ranks from 1, so that the entry weighs each of them and the cards
together add less than a million to the score (`WeightedBound`). `StraightsFound`
and `FlushFound` compare the code's tests with the rules': five different values
whose extremes are four apart, with the ace high or low. These give
`EvaluationFollowsRules` for both tables of weights. The highest score among a
player's fives is then of the highest category (`BestIsHighest`), whatever the
weights, which is why the functional code reveals the same name in hold'em. In five
card draw there is no choice and `EvaluationFollowsRules` suffices; of the variants
that only the deployed code evaluates `MirrorRevealsRank` says nothing.

That no other five beats the best one (`BestIsFound`) depends on the deployed weights,
and is false of two arbitrary hands (see the run HandPair). `FirstDifference` turns the
rules' comparison of the ranks held four, three, two and single times into the first
place at which two hands of one pattern differ, and `HigherScores` shows that the
higher rank there has the higher score, with two exceptions. The kickers of a pair can
outweigh its rank: but two pairs of different ranks among one player's cards make
two pairs or better (`TwoPairs`), so a pair is then not the best category. And the fifth
card of a high card or a flush weighs nothing: of the hands with the best score, the
theorem takes the one whose fifth card is highest. Straights are compared by
their highest card (`RowHolds`, `HigherRow`).

**System** (`PokerProofs`). `BusInv` has, besides the table's `IInv` (reused by
instance, for any winnings), what a message says of the state it was sent in and may
still rely on: a HandStarted or DealCards for the current hand has the players and
stacks of the seats, a PotAwarded or DepositFunds the prizes of a paid hand. This
gives `DealtToTheSeated`, and that each hand takes `Payout`'s steps only.
`WinningsArePaidOnce` adds the books: the bankroll is what was deposited and the
prizes that were credited, and a prize moves one way, from its event to the
deposits to the account (`BooksInv`). It assumes that PotAwarded is delivered once
(see Fairness), that no prize is negative, and that the supply of chips and all
prizes together fit the balances' type; the run's constants satisfy this.

**Sums.** `Total` (`Chips`) is a fold, whose order the definition leaves to CHOOSE.
`ChipsProofs` shows that it is additive, that one change moves it by the
difference, and that it is at least 0 for natural values, by taking a smallest
finite set that lacks the property.

Only model-checked: liveness (`CallsEnd`, `StartedHandsAreDealt`, `WinningsArrive`,
`BuyInsSettle`), which is out of the provers' reach.

## Not modelled

- Of the deployed evaluation of hands, Omaha's choice of two own cards and three of
  the board's (the functional code has none), cards repeated on the board, and the list of kickers, which leaves the
  aggregate in no event.
- `player/saga-table`: its input events have no emitter and its facts leave the
  player empty (`main.go:45`), so that the table's applier finds no seat; `Table`
  takes such facts, for any player, as inputs.
- The projectors write a file that nothing reads, and keep no state but that file;
  the upcaster is a passthrough; the rest is deployment files.
- Of the functional hand, its bets after the first street (see above).
- Of the tests, the orchestrators and the HandProcess they simulate, which stand for
  code that the repository does not have, and the step definitions.
- Conservation of chips across aggregates: a hand's winners gain at the table
  (EndHand) and in their bankroll (DepositFunds), and losers lose nowhere. No
  document states otherwise, so no run does.

## Plan

Done: every part that keeps a state is modelled, and every safety property that a
passing run checks is proved. What is left is what "Not modelled" lists of the parts
that are modelled partly: Omaha's choice of cards, and the functional hand's bets
after the first street.
