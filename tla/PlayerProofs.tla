------------------------------ MODULE PlayerProofs ------------------------------
(***************************************************************************)
(* Theorems about Player, for any number of tables, any amounts and any    *)
(* supply of chips that the balances' type can hold.                       *)
(***************************************************************************)
EXTENDS Player, TLAPS

\* The inductive invariant: the parts of it that the runs check, and the
\* bound on the bankroll that keeps every sum inside the type.  A rejection
\* may reach a player who never registered, who must have no chips for the
\* applier of PlayerRegistered to leave the sum alone.
IInv ==
  /\ TypeOK
  /\ ReservedIsSum
  /\ NeverOvercommitted
  /\ player.bankroll <= ChipSupply
  /\ ~player.exists => player.bankroll = 0 /\ player.reserved = 0

PlayerStates == [exists : BOOLEAN, bankroll : Int64, reserved : Int64,
                 reservations : [Tables -> 0..MaxInt]]

--------------------------------------------------------------------------------
\* A sum, or difference, that the type can hold is computed exactly.
LEMMA WrapExact ==
  ASSUME NEW x \in 0..MaxInt
  PROVE  Wrap(x) = x
BY MaxIntAssumption DEF Wrap

\* No entry of the map exceeds the total.
LEMMA EntryWithinTotal ==
  ASSUME NEW r \in [Tables -> 0..MaxInt], NEW total \in Int,
         PartialSums(r, total) # {}, NEW t \in Tables
  PROVE  r[t] <= total
<1>1. PICK ps \in PartialSums(r, total) : TRUE
  OBVIOUS
<1>2. t \in 0..NTables /\ t - 1 \in 0..NTables
  BY NTablesAssumption DEF Tables
<1>3. ps[t] = ps[t - 1] + r[t] /\ ps[t] \in 0..total /\ ps[t - 1] \in 0..total
  BY <1>1, <1>2 DEF PartialSums
<1> QED
  BY <1>3

\* Changing one entry of the map and the total by the same number of chips
\* keeps the total the sum of the map.
LEMMA SumUpdate ==
  ASSUME NEW r \in [Tables -> 0..MaxInt], NEW total \in Int,
         PartialSums(r, total) # {},
         NEW t \in Tables, NEW n \in 0..MaxInt
  PROVE  PartialSums([u \in Tables |-> IF u = t THEN n ELSE r[u]],
                     total - r[t] + n) # {}
<1> DEFINE r2 == [u \in Tables |-> IF u = t THEN n ELSE r[u]]
           total2 == total - r[t] + n
<1>1. PICK ps \in PartialSums(r, total) : TRUE
  OBVIOUS
<1> DEFINE qs == [i \in 0..NTables |-> IF i < t THEN ps[i] ELSE ps[i] - r[t] + n]
<1>2. /\ NTables \in Nat /\ t \in 1..NTables
      /\ r[t] \in 0..MaxInt /\ n \in 0..MaxInt
  BY NTablesAssumption, MaxIntAssumption DEF Tables
<1>3. /\ ps \in [0..NTables -> 0..total]
      /\ ps[0] = 0 /\ ps[NTables] = total
      /\ \A u \in 1..NTables : ps[u] = ps[u - 1] + r[u]
      /\ \A i, j \in 0..NTables : i <= j => ps[i] <= ps[j]
  BY <1>1 DEF PartialSums, Tables
<1>4. ps[t] = ps[t - 1] + r[t] /\ t - 1 \in 0..NTables
  BY <1>2, <1>3
<1>5. \A i, j \in 0..NTables : i <= j => qs[i] <= qs[j]
  <2> SUFFICES ASSUME NEW i \in 0..NTables, NEW j \in 0..NTables, i <= j
               PROVE  qs[i] <= qs[j]
    OBVIOUS
  <2>1. /\ ps[i] \in Int /\ ps[j] \in Int /\ ps[t] \in Int /\ ps[t - 1] \in Int
        /\ ps[i] <= ps[j]
    BY <1>2, <1>3, <1>4
  <2>2. CASE i < t /\ t <= j
    <3>1. ps[i] <= ps[t - 1] /\ ps[t] <= ps[j]
      BY <1>2, <1>3, <1>4, <2>2
    <3> QED
      BY <1>2, <1>4, <2>1, <2>2, <3>1
  <2>3. CASE i < t /\ j < t
    BY <2>1, <2>3
  <2>4. CASE t <= i
    BY <1>2, <2>1, <2>4
  <2> QED
    BY <1>2, <2>2, <2>3, <2>4
<1>6. qs[0] = 0 /\ qs[NTables] = total2
  BY <1>2, <1>3
<1>7. qs \in [0..NTables -> 0..total2]
  <2>1. \A i \in 0..NTables : qs[i] \in Int
    BY <1>2, <1>3
  <2>2. \A i \in 0..NTables : qs[0] <= qs[i] /\ qs[i] <= qs[NTables]
    BY <1>2, <1>5
  <2>3. \A i \in 0..NTables : qs[i] \in 0..total2
    BY <1>2, <1>6, <2>1, <2>2
  <2>4. qs = [i \in 0..NTables |-> qs[i]]
    OBVIOUS
  <2> HIDE DEF qs, total2
  <2> QED
    BY <2>3, <2>4
<1>8. \A u \in Tables : qs[u] = qs[u - 1] + r2[u]
  <2> SUFFICES ASSUME NEW u \in 1..NTables
               PROVE  qs[u] = qs[u - 1] + r2[u]
    BY DEF Tables
  <2>1. /\ u \in 0..NTables /\ u - 1 \in 0..NTables
        /\ ps[u] = ps[u - 1] + r[u] /\ ps[u - 1] \in Int /\ r[u] \in Int
    BY <1>2, <1>3 DEF Tables
  <2>2. CASE u < t
    BY <1>2, <2>1, <2>2 DEF Tables
  <2>3. CASE u = t
    <3>1. qs[u] = ps[u] - r[t] + n /\ qs[u - 1] = ps[u - 1] /\ r2[u] = n
      BY <1>2, <2>1, <2>3 DEF Tables
    <3> HIDE DEF qs, r2
    <3> QED
      BY <1>2, <2>1, <2>3, <3>1
  <2>4. CASE u > t
    <3>1. r2[u] = r[u]
      BY <2>4 DEF Tables
    <3>2. qs[u] = ps[u] - r[t] + n
      BY <1>2, <2>1, <2>4
    <3>3. qs[u - 1] = ps[u - 1] - r[t] + n
      <4>1. ~ (u - 1 < t)
        BY <1>2, <2>4
      <4> QED
        BY <2>1, <4>1
    <3> HIDE DEF qs, r2
    <3> QED
      BY <1>2, <2>1, <3>1, <3>2, <3>3
  <2> QED
    BY <1>2, <2>2, <2>3, <2>4
<1>9. qs \in PartialSums(r2, total2)
  BY <1>5, <1>6, <1>7, <1>8 DEF PartialSums
<1> QED
  BY <1>9

--------------------------------------------------------------------------------
\* The appliers that the actions use, each on its own event.
LEMMA ApplyEvents ==
  ASSUME NEW s, NEW amount, NEW root
  PROVE  /\ Apply(s, PlayerRegistered) = applyRegistered(s)
         /\ Apply(s, FundsDeposited(s, amount)) = applyDeposited(s, FundsDeposited(s, amount))
         /\ Apply(s, FundsWithdrawn(s, amount)) = applyWithdrawn(s, FundsWithdrawn(s, amount))
         /\ Apply(s, FundsReserved(s, root, amount)) = applyReserved(s, FundsReserved(s, root, amount))
         /\ Apply(s, FundsReleased(s, root)) = applyReleased(s, FundsReleased(s, root))
BY DEF Apply, PlayerRegistered, FundsDeposited, FundsWithdrawn, FundsReserved, FundsReleased

\* The empty map sums to zero.
LEMMA InitIInv == Init => IInv
<1> SUFFICES ASSUME Init PROVE IInv
  OBVIOUS
<1> USE NTablesAssumption, MaxIntAssumption, ChipSupplyAssumption
<1>1. TypeOK
  BY DEF Init, NewPlayerState, TypeOK, Int64
<1>2. [i \in 0..NTables |-> 0] \in PartialSums(player.reservations, player.reserved)
  BY DEF Init, NewPlayerState, PartialSums, Tables
<1>3. /\ NeverOvercommitted
      /\ player.bankroll <= ChipSupply
      /\ player.bankroll = 0 /\ player.reserved = 0
  BY DEF Init, NewPlayerState, NeverOvercommitted
<1> QED
  BY <1>1, <1>2, <1>3 DEF IInv, ReservedIsSum

\* A deposit or withdrawal moves the bankroll only, and stays above what is
\* reserved.
LEMMA BankrollStep ==
  ASSUME IInv, ChipSupply <= MaxInt, player.exists,
         NEW b \in Int, player.reserved <= b, b <= ChipSupply,
         player' = [player EXCEPT !.bankroll = b]
  PROVE  IInv'
<1> USE MaxIntAssumption, ChipSupplyAssumption
<1>1. b \in Int64
  BY DEF IInv, TypeOK, NeverOvercommitted, Int64
<1>2. TypeOK'
  BY <1>1 DEF IInv, TypeOK
<1>3. /\ player'.reserved = player.reserved
      /\ player'.reservations = player.reservations
      /\ player'.bankroll = b
      /\ player'.exists = player.exists
  BY DEF IInv, TypeOK
<1> QED
  BY <1>2, <1>3 DEF IInv, ReservedIsSum, NeverOvercommitted

\* The player with n chips reserved for table t.
WithReservation(t, n) ==
  [player EXCEPT !.reserved = player.reserved - player.reservations[t] + n,
                 !.reservations = [u \in Tables |-> IF u = t THEN n ELSE @[u]]]

\* One entry of the map changes to n, the total with it, and the total stays
\* within the bankroll.
LEMMA ReservationStep ==
  ASSUME IInv, ChipSupply <= MaxInt,
         NEW t \in Tables, NEW n \in 0..MaxInt, player.exists \/ n = 0,
         player.reserved - player.reservations[t] + n <= player.bankroll,
         player' = WithReservation(t, n)
  PROVE  IInv'
<1> USE MaxIntAssumption, ChipSupplyAssumption
<1>1. /\ player.reservations \in [Tables -> 0..MaxInt]
      /\ player.reserved \in Int /\ player.bankroll \in Int
      /\ player.bankroll <= ChipSupply
      /\ PartialSums(player.reservations, player.reserved) # {}
  BY DEF IInv, TypeOK, Int64, ReservedIsSum
<1>2. /\ player'.reserved = player.reserved - player.reservations[t] + n
      /\ player'.reservations =
           [u \in Tables |-> IF u = t THEN n ELSE player.reservations[u]]
      /\ player'.bankroll = player.bankroll
      /\ player'.exists = player.exists
  BY DEF IInv, TypeOK, WithReservation
<1>3. ReservedIsSum'
  <2>1. PartialSums([u \in Tables |-> IF u = t THEN n ELSE player.reservations[u]],
                    player.reserved - player.reservations[t] + n) # {}
    BY <1>1, SumUpdate
  <2>2. PartialSums(player'.reservations, player'.reserved) # {}
    BY <1>2, <2>1
  <2> QED
    BY <2>2 DEF ReservedIsSum, PartialSums
<1>4. player.reservations[t] <= player.reserved
  BY <1>1, EntryWithinTotal
<1>5. player'.reserved \in Int64 /\ 0 <= player'.reserved
  BY <1>1, <1>2, <1>4 DEF Int64
<1>6. TypeOK'
  BY <1>1, <1>2, <1>5 DEF IInv, TypeOK, WithReservation
<1>7. ~player'.exists => player'.bankroll = 0 /\ player'.reserved = 0
  BY <1>1, <1>2, <1>5 DEF IInv
<1> QED
  BY <1>1, <1>2, <1>3, <1>5, <1>6, <1>7 DEF IInv, NeverOvercommitted

(***************************************************************************)
(* The four things a step can do: nothing, register the player, move the   *)
(* bankroll, or change the reservation of one table from or to nothing.    *)
(***************************************************************************)
Registers ==
  /\ player' \in PlayerStates
  /\ player'.exists
  /\ player'.bankroll = player.bankroll
  /\ player'.reserved = player.reserved
  /\ player'.reservations = player.reservations

MovesBankroll ==
  /\ player.exists
  /\ \E b \in Int : /\ player.reserved <= b /\ b <= ChipSupply
                    /\ player' = [player EXCEPT !.bankroll = b]

MovesReservation ==
  \E t \in Tables, n \in 0..MaxInt :
    /\ player.exists \/ n = 0
    /\ n = 0 \/ player.reservations[t] = 0
    /\ player.reserved - player.reservations[t] + n <= player.bankroll
    /\ player' = WithReservation(t, n)

\* Every accepted command, and every compensation, is one of the four.
LEMMA StepEffect ==
  ASSUME IInv, [Next]_vars, ChipSupply <= MaxInt, NoRoot \notin CommandRoots
  PROVE  UNCHANGED player \/ Registers \/ MovesBankroll \/ MovesReservation
<1> USE MaxIntAssumption, ChipSupplyAssumption
<1>1. /\ player.exists \in BOOLEAN
      /\ player.bankroll \in 0..MaxInt /\ player.reserved \in 0..MaxInt
      /\ player.reserved <= player.bankroll
      /\ player.bankroll <= ChipSupply
      /\ player.reservations \in [Tables -> 0..MaxInt]
  BY DEF IInv, TypeOK, NeverOvercommitted, Int64
<1>2. AvailableBalance(player) = player.bankroll - player.reserved
  BY <1>1, WrapExact DEF AvailableBalance
<1>3. \A root \in CommandRoots : root \in Tables
  BY CommandRootsAssumption
<1>4. ASSUME RegisterPlayer
      PROVE  Registers
  <2>1. player' = applyRegistered(player)
    BY <1>4, ApplyEvents DEF RegisterPlayer
  <2>2. ~player.exists
    BY <1>4 DEF RegisterPlayer, CanRegister
  <2>3. /\ player'.exists = TRUE
        /\ player'.bankroll = player.bankroll
        /\ player'.reserved = player.reserved
        /\ player'.reservations = player.reservations
    BY <2>1, <2>2 DEF IInv, TypeOK, applyRegistered
  <2>4. player' \in PlayerStates
    <3> DEFINE a == [player EXCEPT !.exists = TRUE]
               b == [a EXCEPT !.bankroll = 0]
               c == [b EXCEPT !.reserved = 0]
    <3>1. 0 \in Int64
      BY DEF Int64
    <3>2. player \in PlayerStates
      BY DEF IInv, TypeOK, PlayerStates
    <3>3. a \in PlayerStates
      BY <3>2 DEF PlayerStates
    <3>4. b \in PlayerStates
      BY <3>1, <3>3 DEF PlayerStates
    <3>5. c \in PlayerStates
      BY <3>1, <3>4 DEF PlayerStates
    <3>6. player' = c
      BY <2>1 DEF applyRegistered
    <3> HIDE DEF c
    <3> QED
      BY <3>5, <3>6
  <2> QED
    BY <2>3, <2>4 DEF Registers
<1>5. ASSUME NEW amount \in Amounts, DepositFunds(amount)
      PROVE  MovesBankroll
  <2>1. amount \in Int /\ amount > 0 /\ player.bankroll + amount <= ChipSupply
    BY <1>5, AmountsAssumption DEF DepositFunds, CanDeposit, Int64
  <2>2. Wrap(player.bankroll + amount) = player.bankroll + amount
    BY <1>1, <2>1, WrapExact
  <2>3. player' = applyDeposited(player, FundsDeposited(player, amount))
    BY <1>5, ApplyEvents DEF DepositFunds
  <2>4. player' = [player EXCEPT !.bankroll = player.bankroll + amount]
    BY <2>2, <2>3 DEF applyDeposited, FundsDeposited
  <2>5. player.exists
    BY <1>5 DEF DepositFunds, CanDeposit
  <2> QED
    BY <1>1, <2>1, <2>4, <2>5 DEF MovesBankroll
<1>6. ASSUME NEW amount \in Amounts, WithdrawFunds(amount)
      PROVE  MovesBankroll
  <2>1. /\ amount \in Int /\ amount > 0
        /\ amount <= player.bankroll - player.reserved
    BY <1>2, <1>6, AmountsAssumption DEF WithdrawFunds, CanWithdraw, Int64
  <2>2. Wrap(player.bankroll - amount) = player.bankroll - amount
    BY <1>1, <2>1, WrapExact
  <2>3. player' = applyWithdrawn(player, FundsWithdrawn(player, amount))
    BY <1>6, ApplyEvents DEF WithdrawFunds
  <2>4. player' = [player EXCEPT !.bankroll = player.bankroll - amount]
    BY <2>2, <2>3 DEF applyWithdrawn, FundsWithdrawn
  <2>5. player.exists
    BY <1>6 DEF WithdrawFunds, CanWithdraw
  <2>6. /\ player.bankroll - amount \in Int
        /\ player.reserved <= player.bankroll - amount
        /\ player.bankroll - amount <= ChipSupply
    BY <1>1, <2>1
  <2> QED
    BY <2>4, <2>5, <2>6 DEF MovesBankroll
<1>7. ASSUME NEW root \in CommandRoots, NEW amount \in Amounts,
             ReserveFunds(root, amount)
      PROVE  MovesReservation
  <2>1. /\ amount \in Int /\ amount > 0
        /\ amount <= player.bankroll - player.reserved
        /\ player.exists /\ root \in Tables /\ player.reservations[root] = 0
    BY <1>2, <1>3, <1>7, AmountsAssumption
    DEF ReserveFunds, CanReserve, HasReservation, Int64
  <2>2. Wrap(player.reserved + amount) = player.reserved - 0 + amount
    BY <1>1, <2>1, WrapExact
  <2>3. player' = applyReserved(player, FundsReserved(player, root, amount))
    BY <1>7, ApplyEvents DEF ReserveFunds
  <2>4. player' = WithReservation(root, amount)
    BY <1>1, <2>1, <2>2, <2>3 DEF applyReserved, FundsReserved, WithReservation
  <2>5. amount \in 0..MaxInt
    BY <1>1, <2>1
  <2> QED
    BY <1>1, <2>1, <2>4, <2>5 DEF MovesReservation
<1>8. ASSUME NEW root \in CommandRoots,
             player' = Apply(player, FundsReleased(player, root))
      PROVE  MovesReservation
  <2>1. root \in Tables /\ player.reservations[root] \in 0..MaxInt
    BY <1>1, <1>3
  <2>2. player.reservations[root] <= player.reserved
    BY <1>1, <2>1, EntryWithinTotal DEF IInv, ReservedIsSum
  <2>3. Wrap(player.reserved - Reservation(player, root))
          = player.reserved - player.reservations[root] + 0
    BY <1>1, <2>1, <2>2, WrapExact DEF Reservation
  <2>4. player' = applyReleased(player, FundsReleased(player, root))
    BY <1>8, ApplyEvents
  <2>5. player' = WithReservation(root, 0)
    BY <2>3, <2>4 DEF applyReleased, FundsReleased, WithReservation
  <2> QED
    BY <1>1, <2>1, <2>2, <2>5, MaxIntAssumption DEF MovesReservation
<1>9. CASE UNCHANGED vars
  BY <1>9 DEF vars
<1> QED
  BY <1>4, <1>5, <1>6, <1>7, <1>8, <1>9
  DEF Next, ReleaseFunds, TableJoinRejected

\* Every step keeps the invariant.
LEMMA NextIInv ==
  ASSUME IInv, [Next]_vars, ChipSupply <= MaxInt, NoRoot \notin CommandRoots
  PROVE  IInv'
<1>1. CASE UNCHANGED player
  BY <1>1 DEF IInv, TypeOK, ReservedIsSum, PartialSums, NeverOvercommitted
<1>2. CASE Registers
  BY <1>2 DEF Registers, PlayerStates, IInv, TypeOK, ReservedIsSum, PartialSums,
              NeverOvercommitted
<1>3. CASE MovesBankroll
  BY <1>3, BankrollStep DEF MovesBankroll
<1>4. CASE MovesReservation
  BY <1>4, ReservationStep DEF MovesReservation
<1> QED
  BY <1>1, <1>2, <1>3, <1>4, StepEffect

--------------------------------------------------------------------------------
\* With balances that fit their type and commands that name their table,
\* every reachable state of the player is well typed.
THEOREM TypeCorrect ==
  ASSUME ChipSupply <= MaxInt, NoRoot \notin CommandRoots
  PROVE  Spec => []TypeOK
<1>1. Init => IInv
  BY InitIInv
<1>2. IInv /\ [Next]_vars => IInv'
  BY NextIInv
<1>3. IInv => TypeOK
  BY DEF IInv
<1> QED
  BY <1>1, <1>2, <1>3, PTL DEF Spec

\* ReservedFunds is always the sum of TableReservations, so no reserved chip
\* is out of the reach of a release.
THEOREM ReservationsAccountedFor ==
  ASSUME ChipSupply <= MaxInt, NoRoot \notin CommandRoots
  PROVE  Spec => []ReservedIsSum
<1>1. Init => IInv
  BY InitIInv
<1>2. IInv /\ [Next]_vars => IInv'
  BY NextIInv
<1>3. IInv => ReservedIsSum
  BY DEF IInv
<1> QED
  BY <1>1, <1>2, <1>3, PTL DEF Spec

\* A player never has more chips committed to tables than in the bankroll,
\* nor a negative commitment.
THEOREM ReservationsBacked ==
  ASSUME ChipSupply <= MaxInt, NoRoot \notin CommandRoots
  PROVE  Spec => []NeverOvercommitted
<1>1. Init => IInv
  BY InitIInv
<1>2. IInv /\ [Next]_vars => IInv'
  BY NextIInv
<1>3. IInv => NeverOvercommitted
  BY DEF IInv
<1> QED
  BY <1>1, <1>2, <1>3, PTL DEF Spec

\* The player aggregate implements the escrow account: every command is a
\* credit, a debit, a lock, an unlock or nothing, and no lock shrinks or
\* grows between the reservation and its release.
THEOREM PlayerImplementsEscrow ==
  ASSUME ChipSupply <= MaxInt, NoRoot \notin CommandRoots
  PROVE  Spec => ImplementsEscrow
<1>1. Init => IInv
  BY InitIInv
<1>2. IInv /\ [Next]_vars => IInv'
  BY NextIInv
<1>3. Init => Escrow!Init
  BY DEF Init, Escrow!Init, NewPlayerState
<1>4. IInv /\ [Next]_vars => [Escrow!Next]_(Escrow!vars)
  <2> SUFFICES ASSUME IInv, [Next]_vars
               PROVE  [Escrow!Next]_(Escrow!vars)
    OBVIOUS
  <2>1. /\ player.bankroll \in 0..MaxInt /\ player.reserved \in 0..MaxInt
        /\ player.reserved <= player.bankroll
        /\ player.bankroll <= ChipSupply
        /\ player.reservations \in [Tables -> 0..MaxInt]
    BY MaxIntAssumption DEF IInv, TypeOK, NeverOvercommitted, Int64
  <2>2. CASE UNCHANGED player
    BY <2>2 DEF Escrow!vars
  <2>3. CASE Registers
    BY <2>3 DEF Registers, Escrow!vars
  <2>4. CASE MovesBankroll
    <3>1. PICK b \in Int : /\ player.reserved <= b
                           /\ player' = [player EXCEPT !.bankroll = b]
      BY <2>4 DEF MovesBankroll
    <3>2. /\ player'.bankroll = b
          /\ player'.reserved = player.reserved
          /\ player'.reservations = player.reservations
      BY <3>1 DEF IInv, TypeOK
    <3>3. CASE b > player.bankroll
      <4>1. Escrow!Credit
        BY <2>1, <3>2, <3>3 DEF Escrow!Credit
      <4> QED
        BY <4>1 DEF Escrow!Next
    <3>4. CASE b < player.bankroll
      <4>1. player.bankroll - b \in 1..(player.bankroll - player.reserved)
        BY <2>1, <3>1, <3>4
      <4>2. Escrow!Debit
        BY <2>1, <3>2, <4>1 DEF Escrow!Debit
      <4> QED
        BY <4>2 DEF Escrow!Next
    <3>5. CASE b = player.bankroll
      BY <3>2, <3>5 DEF Escrow!vars
    <3> QED
      BY <2>1, <3>3, <3>4, <3>5
  <2>5. CASE MovesReservation
    <3>1. PICK t \in Tables, n \in 0..MaxInt :
            /\ n = 0 \/ player.reservations[t] = 0
            /\ player.reserved - player.reservations[t] + n <= player.bankroll
            /\ player' = WithReservation(t, n)
      BY <2>5 DEF MovesReservation
    <3>2. /\ player'.bankroll = player.bankroll
          /\ player'.reserved = player.reserved - player.reservations[t] + n
          /\ player'.reservations =
               [u \in Tables |-> IF u = t THEN n ELSE player.reservations[u]]
      BY <3>1 DEF IInv, TypeOK, WithReservation
    <3>3. player'.reservations = [player.reservations EXCEPT ![t] = n]
      BY <2>1, <3>2
    <3>4. player.reservations[t] \in 0..MaxInt
      BY <2>1
    <3>5. CASE n = player.reservations[t]
      <4>1. player'.reservations = player.reservations
        BY <2>1, <3>3, <3>5
      <4> QED
        BY <2>1, <3>2, <3>4, <3>5, <4>1 DEF Escrow!vars
    <3>6. CASE n # player.reservations[t] /\ player.reservations[t] = 0
      <4>1. Escrow!Lock(t)
        BY <2>1, <3>1, <3>2, <3>3, <3>6 DEF Escrow!Lock
      <4> QED
        BY <4>1 DEF Escrow!Next
    <3>7. CASE n # player.reservations[t] /\ n = 0
      <4>1. Escrow!Unlock(t)
        BY <2>1, <3>2, <3>3, <3>4, <3>7 DEF Escrow!Unlock
      <4> QED
        BY <4>1 DEF Escrow!Next
    <3> QED
      BY <3>1, <3>5, <3>6, <3>7
  <2> QED
    BY <2>2, <2>3, <2>4, <2>5, StepEffect
<1> QED
  BY <1>1, <1>2, <1>3, <1>4, PTL DEF Spec, ImplementsEscrow, Escrow!Spec
================================================================================
