------------------------------ MODULE TableProofs ------------------------------
(***************************************************************************)
(* Theorems about Table and TableMirror, for any players, any number of    *)
(* seats, any amounts and any number of hands, whichever of the two codes  *)
(* handles each command.                                                   *)
(***************************************************************************)
EXTENDS TableMirror, FiniteSetTheorems, TLAPS

--------------------------------------------------------------------------------
(***************************************************************************)
(* Positions in order: what Nth and IndexOf say of a finite set of numbers *)
(***************************************************************************)
Below(S, pos) == {q \in S : q < pos}

\* A position has as many below it as its index, and fewer than there are.
LEMMA IndexInRange ==
  ASSUME NEW S \in SUBSET Int, IsFiniteSet(S), NEW a \in S
  PROVE  /\ Cardinality(S) \in Nat
         /\ IndexOf(S, a) \in 0..(Cardinality(S) - 1)
         /\ IndexOf(S, a) = Cardinality(Below(S, a))
<1>1. Below(S, a) \in SUBSET S /\ a \notin Below(S, a)
  BY DEF Below
<1>2. /\ IsFiniteSet(Below(S, a))
      /\ Cardinality(Below(S, a)) <= Cardinality(S)
      /\ Cardinality(S) # Cardinality(Below(S, a))
  BY <1>1, FS_Subset
<1>3. Cardinality(Below(S, a)) \in Nat /\ Cardinality(S) \in Nat
  BY <1>2, FS_CardinalityType
<1>4. IndexOf(S, a) = Cardinality(Below(S, a))
  BY DEF IndexOf, Below
<1> QED
  BY <1>2, <1>3, <1>4

\* Indices grow with the positions.
LEMMA IndexGrows ==
  ASSUME NEW S \in SUBSET Int, IsFiniteSet(S), NEW a \in S, NEW b \in S, a < b
  PROVE  IndexOf(S, a) < IndexOf(S, b)
<1>1. /\ Below(S, a) \in SUBSET Below(S, b)
      /\ a \in Below(S, b) /\ a \notin Below(S, a)
      /\ Below(S, b) \in SUBSET S
  <2>1. a \in Int /\ b \in Int /\ ~(a < a)
    OBVIOUS
  <2>2. ASSUME NEW q \in S, q < a
        PROVE  q < b
    <3>1. q \in Int
      OBVIOUS
    <3> QED
      BY <2>1, <2>2, <3>1
  <2>3. Below(S, a) \subseteq Below(S, b)
    BY <2>2 DEF Below
  <2> QED
    BY <2>1, <2>3 DEF Below
<1>2. IsFiniteSet(Below(S, b))
  BY <1>1, FS_Subset
<1>3. /\ Cardinality(Below(S, a)) <= Cardinality(Below(S, b))
      /\ Cardinality(Below(S, b)) # Cardinality(Below(S, a))
  BY <1>1, <1>2, FS_Subset
<1>4. /\ IndexOf(S, a) \in Int /\ IndexOf(S, b) \in Int
      /\ IndexOf(S, a) = Cardinality(Below(S, a))
      /\ IndexOf(S, b) = Cardinality(Below(S, b))
  BY IndexInRange
<1> QED
  BY <1>3, <1>4

\* Every index is that of one position, which Nth finds.
LEMMA NthHasIndex ==
  ASSUME NEW S \in SUBSET Int, IsFiniteSet(S), NEW i \in 0..(Cardinality(S) - 1)
  PROVE  Nth(S, i) \in S /\ IndexOf(S, Nth(S, i)) = i
<1> DEFINE n == Cardinality(S)
           index == [a \in S |-> IndexOf(S, a)]
<1>1. n \in Nat
  BY FS_CardinalityType
<1>2. index \in [S -> 0..(n - 1)]
  BY IndexInRange
<1>3. ASSUME NEW a \in S, NEW b \in S, index[a] = index[b]
      PROVE  a = b
  <2>1. IndexOf(S, a) = IndexOf(S, b) /\ IndexOf(S, a) \in Int
    BY <1>3, IndexInRange
  <2>2. ~(a < b) /\ ~(b < a)
    BY <2>1, IndexGrows
  <2> QED
    BY <2>2
<1>4. index \in Injection(S, 0..(n - 1))
  BY <1>2, <1>3 DEF Injection, IsInjective
<1>5. IsFiniteSet(0..(n - 1)) /\ Cardinality(0..(n - 1)) = n
  <2>1. 0 \in Int /\ n - 1 \in Int
    BY <1>1
  <2>2. IsFiniteSet(0..(n - 1)) /\ Cardinality(0..(n - 1)) = IF 0 > n - 1 THEN 0 ELSE n - 1 - 0 + 1
    BY <2>1, FS_Interval
  <2> QED
    BY <1>1, <2>2
<1>6. index \in Surjection(S, 0..(n - 1))
  <2> HIDE DEF index, n
  <2>1. n = Cardinality(S)
    BY DEF n
  <2> QED
    BY <1>4, <1>5, <2>1, FS_Injection
<1>7. PICK a \in S : index[a] = i
  BY <1>6 DEF Surjection
<1>8. Cardinality({q \in S : q < a}) = i
  BY <1>7 DEF IndexOf
<1>9. Nth(S, i) \in S /\ Cardinality({q \in S : q < Nth(S, i)}) = i
  BY <1>8 DEF Nth
<1> QED
  BY <1>9 DEF IndexOf

LEMMA NthOfIndex ==
  ASSUME NEW S \in SUBSET Int, IsFiniteSet(S), NEW a \in S
  PROVE  Nth(S, IndexOf(S, a)) = a
<1>1. IndexOf(S, a) \in 0..(Cardinality(S) - 1)
  BY IndexInRange
<1>2. /\ Nth(S, IndexOf(S, a)) \in S
      /\ IndexOf(S, Nth(S, IndexOf(S, a))) = IndexOf(S, a)
  BY <1>1, NthHasIndex
<1> DEFINE b == Nth(S, IndexOf(S, a))
<1>3. b \in S /\ IndexOf(S, b) = IndexOf(S, a) /\ IndexOf(S, a) \in Int
  BY <1>1, <1>2
<1> HIDE DEF b
<1>4. ~(a < b) /\ ~(b < a)
  BY <1>3, IndexGrows
<1>5. a = b
  BY <1>3, <1>4
<1> QED
  BY <1>5 DEF b

\* Different indices, different positions.
LEMMA NthDistinct ==
  ASSUME NEW S \in SUBSET Int, IsFiniteSet(S),
         NEW i \in 0..(Cardinality(S) - 1), NEW j \in 0..(Cardinality(S) - 1),
         i # j
  PROVE  Nth(S, i) # Nth(S, j)
BY NthHasIndex

\* The first position in order is the least one, and there is no other.
LEMMA LeastIsFirst ==
  ASSUME NEW S \in SUBSET Int, IsFiniteSet(S), S # {}
  PROVE  /\ Nth(S, 0) \in S
         /\ \A q \in S : Nth(S, 0) <= q
         /\ (CHOOSE q \in S : \A r \in S : q <= r) = Nth(S, 0)
<1>1. Cardinality(S) \in Nat /\ Cardinality(S) # 0
  BY FS_CardinalityType, FS_EmptySet
<1>2. 0 \in 0..(Cardinality(S) - 1)
  BY <1>1
<1>3. Nth(S, 0) \in S /\ IndexOf(S, Nth(S, 0)) = 0
  BY <1>2, NthHasIndex
<1> DEFINE first == Nth(S, 0)
<1> HIDE DEF first
<1>4. ASSUME NEW q \in S
      PROVE  first <= q
  <2>1. first \in S /\ IndexOf(S, first) = 0
    BY <1>3 DEF first
  <2>2. first \in Int /\ q \in Int
    BY <2>1
  <2>3. ASSUME q < first
        PROVE  FALSE
    <3>1. IndexOf(S, q) < 0 /\ IndexOf(S, q) \in 0..(Cardinality(S) - 1)
      BY <2>1, <2>3, IndexGrows, IndexInRange
    <3> QED
      BY <1>1, <3>1
  <2> QED
    BY <2>2, <2>3
<1>5. ASSUME NEW a \in S, \A r \in S : a <= r
      PROVE  a = first
  <2>1. first \in S /\ a <= first /\ first <= a
    BY <1>3, <1>4, <1>5 DEF first
  <2>2. first \in Int /\ a \in Int
    BY <2>1
  <2> QED
    BY <2>1, <2>2
<1>6. (CHOOSE q \in S : \A r \in S : q <= r) = first
  <2>1. first \in S /\ \A r \in S : first <= r
    BY <1>3, <1>4 DEF first
  <2> QED
    BY <1>5, <2>1
<1> QED
  BY <1>3, <1>4, <1>6 DEF first

\* Going round: the step after the last index leads to the first.
LEMMA Round ==
  ASSUME NEW n \in Nat, NEW k \in 0..(n - 1)
  PROVE  (k + 1) % n = IF k + 1 = n THEN 0 ELSE k + 1
<1>1. n > 0 /\ k + 1 \in 0..n
  OBVIOUS
<1>2. CASE k + 1 = n
  BY <1>1, <1>2
<1>3. CASE k + 1 < n
  BY <1>1, <1>3
<1> QED
  BY <1>1, <1>2, <1>3

\* Two steps round are one step, and another one.
LEMMA RoundTwice ==
  ASSUME NEW n \in Nat, NEW k \in 0..(n - 1), n >= 3
  PROVE  (k + 2) % n = (((k + 1) % n) + 1) % n
<1>1. k + 2 \in Int /\ 0 <= k + 2 /\ k + 2 < 2 * n
  OBVIOUS
<1>2. CASE k + 2 < n
  <2>1. (k + 2) % n = k + 2
    BY <1>1, <1>2
  <2>2. (k + 1) % n = k + 1 /\ k + 1 \in 0..(n - 1)
    BY <1>2, Round
  <2>3. ((k + 1) + 1) % n = k + 1 + 1
    BY <1>2, <2>2, Round
  <2> QED
    BY <2>1, <2>2, <2>3
<1>3. CASE k + 2 = n
  <2>1. (k + 2) % n = 0
    BY <1>1, <1>3
  <2>2. (k + 1) % n = k + 1 /\ k + 1 \in 0..(n - 1)
    BY <1>3, Round
  <2>3. ((k + 1) + 1) % n = 0
    BY <1>3, <2>2, Round
  <2> QED
    BY <2>1, <2>2, <2>3
<1>4. CASE k + 1 = n
  <2>1. (k + 2) % n = 1
    BY <1>1, <1>4
  <2>2. (k + 1) % n = 0 /\ 0 \in 0..(n - 1)
    BY <1>4, Round
  <2>3. (0 + 1) % n = 0 + 1
    BY <2>2, Round
  <2> QED
    BY <2>1, <2>2, <2>3
<1> QED
  BY <1>1, <1>2, <1>3, <1>4

\* The successor of a position's index is the position that Clockwise finds.
LEMMA NextIsClockwise ==
  ASSUME NEW S \in SUBSET Int, IsFiniteSet(S), NEW i \in 0..(Cardinality(S) - 1)
  PROVE  Clockwise(S, Nth(S, i)) = Nth(S, (i + 1) % Cardinality(S))
<1> DEFINE n == Cardinality(S)
           pos == Nth(S, i)
           after == {q \in S : q > pos}
<1>1. n \in Nat /\ i \in Int /\ 0 <= i /\ i < n
  BY FS_CardinalityType
<1>2. pos \in S /\ IndexOf(S, pos) = i
  BY NthHasIndex
<1>3. Clockwise(S, pos) = IF after # {} THEN Nth(after, 0) ELSE Nth(S, 0)
  <2>1. after \in SUBSET S /\ after \in SUBSET Int /\ IsFiniteSet(after)
    BY FS_Subset
  <2>2. after # {} => (CHOOSE q \in after : \A r \in after : q <= r) = Nth(after, 0)
    BY <2>1, LeastIsFirst
  <2>3. S # {}
    BY <1>2
  <2>4. (CHOOSE q \in S : \A r \in S : q <= r) = Nth(S, 0)
    BY <2>3, LeastIsFirst
  <2> QED
    BY <2>2, <2>4 DEF Clockwise
<1>4. CASE i + 1 = n
  <2>1. after = {}
    <3> SUFFICES ASSUME NEW q \in S, q > pos
                 PROVE  FALSE
      OBVIOUS
    <3> HIDE DEF pos
    <3>1. pos < q
      BY <1>2
    <3>2. IndexOf(S, pos) < IndexOf(S, q) /\ IndexOf(S, q) \in 0..(n - 1)
      BY <1>2, <3>1, IndexGrows, IndexInRange
    <3> QED
      BY <1>1, <1>2, <1>4, <3>2
  <2>2. (i + 1) % n = 0
    BY <1>1, <1>4, Round
  <2> QED
    BY <1>3, <2>1, <2>2
<1>5. CASE i + 1 < n
  <2> DEFINE next == Nth(S, i + 1)
  <2>1. i + 1 \in 0..(n - 1)
    BY <1>1, <1>5
  <2>2. next \in S /\ IndexOf(S, next) = i + 1
    BY <2>1, NthHasIndex
  <2> HIDE DEF next, pos
  <2>3. next > pos
    <3>1. ~(next < pos) /\ next # pos
      BY <1>1, <1>2, <2>2, IndexGrows
    <3>2. next \in Int /\ pos \in Int
      BY <1>2, <2>2
    <3> QED
      BY <3>1, <3>2
  <2>4. after \in SUBSET S /\ after \in SUBSET Int /\ IsFiniteSet(after) /\ next \in after
    BY <2>2, <2>3, FS_Subset
  <2> DEFINE least == Nth(after, 0)
  <2>5. least \in after /\ least <= next
    BY <2>4, LeastIsFirst
  <2> HIDE DEF least
  <2>6. ~(least < next)
    <3> SUFFICES ASSUME least < next
                 PROVE  FALSE
      OBVIOUS
    <3>1. least \in S /\ pos < least
      BY <1>2, <2>5
    <3>2. IndexOf(S, pos) < IndexOf(S, least) /\ IndexOf(S, least) < IndexOf(S, next)
      BY <1>2, <2>2, <3>1, IndexGrows
    <3>3. IndexOf(S, least) \in Int
      BY <3>1, IndexInRange
    <3> QED
      BY <1>1, <1>2, <2>2, <3>2, <3>3
  <2>7. least = next
    <3>1. least \in Int /\ next \in Int
      BY <2>2, <2>5
    <3> QED
      BY <2>5, <2>6, <3>1
  <2>8. (i + 1) % n = i + 1
    BY <1>1, <1>5, Round
  <2>9. Clockwise(S, pos) = next
    BY <1>3, <2>4, <2>7 DEF least
  <2> QED
    BY <2>8, <2>9 DEF next, pos
<1> QED
  BY <1>1, <1>4, <1>5

\* The blinds of any hand of at least two: two different players of it, in
\* their places after the dealer when the dealer plays.
LEMMA Blinds ==
  ASSUME NEW A \in SUBSET Int, IsFiniteSet(A), Cardinality(A) >= 2, NEW d \in Int
  PROVE  /\ smallBlind(A, d) \in A /\ bigBlind(A, d) \in A
         /\ smallBlind(A, d) # bigBlind(A, d)
         /\ d \in A => smallBlind(A, d) = IF Cardinality(A) = 2 THEN d ELSE Clockwise(A, d)
         /\ bigBlind(A, d) = Clockwise(A, smallBlind(A, d))
<1> DEFINE n == Cardinality(A)
           k == IndexOf(A, d)
           j == IF n = 2 THEN k ELSE (k + 1) % n
<1>1. n \in Nat /\ n >= 2
  BY FS_CardinalityType
<1>2. k \in 0..(n - 1)
  BY <1>1, IndexInRange DEF IndexOf
<1>3. (k + 1) % n = IF k + 1 = n THEN 0 ELSE k + 1
  BY <1>1, <1>2, Round
<1>4. j \in 0..(n - 1)
  BY <1>1, <1>2, <1>3
<1>5. (j + 1) % n = IF j + 1 = n THEN 0 ELSE j + 1
  <2> HIDE DEF j
  <2> QED
    BY <1>1, <1>4, Round
<1>6. (j + 1) % n \in 0..(n - 1) /\ (j + 1) % n # j
  BY <1>1, <1>4, <1>5
<1>7. smallBlind(A, d) = Nth(A, j)
  BY DEF smallBlind
<1>8. bigBlind(A, d) = Nth(A, (j + 1) % n)
  <2>1. CASE n = 2
    BY <2>1 DEF bigBlind
  <2>2. CASE n # 2
    <3>1. (k + 2) % n = (((k + 1) % n) + 1) % n
      BY <1>1, <1>2, <2>2, RoundTwice
    <3> QED
      BY <2>2, <3>1 DEF bigBlind
  <2> QED
    BY <2>1, <2>2
<1> HIDE DEF j
<1>9. Nth(A, j) \in A /\ Nth(A, (j + 1) % n) \in A /\ Nth(A, j) # Nth(A, (j + 1) % n)
  BY <1>4, <1>6, NthHasIndex
<1>10. Clockwise(A, Nth(A, j)) = Nth(A, (j + 1) % n)
  BY <1>4, NextIsClockwise
<1>11. ASSUME d \in A
       PROVE  Nth(A, j) = IF n = 2 THEN d ELSE Clockwise(A, d)
  <2>1. Nth(A, k) = d
    BY <1>11, NthOfIndex
  <2>2. Clockwise(A, Nth(A, k)) = Nth(A, (k + 1) % n)
    BY <1>2, NextIsClockwise
  <2> QED
    BY <2>1, <2>2 DEF j
<1> QED
  BY <1>7, <1>8, <1>9, <1>10, <1>11

--------------------------------------------------------------------------------
(***************************************************************************)
(* The inductive invariant: the parts of it that the runs check, that the  *)
(* last hand announced is the last one counted, that all the hands before  *)
(* the one being played have their result, and that nobody sits at a table *)
(* that was not created (CreateTable resets the count, not the seats).     *)
(***************************************************************************)
HandsInOrder ==
  /\ hand.root = handCount
  /\ status = "in_hand" => /\ currentHand = handCount
                           /\ ended = 1..(handCount - 1)
                           /\ exists

NothingBeforeCreation ==
  ~exists => /\ DOMAIN seats = {}
             /\ status = "" /\ handCount = 0 /\ currentHand = NoHand
             /\ hand = NoHandYet

IInv ==
  /\ TypeOK
  /\ OneSeatPerPlayer
  /\ HandPlayersStayPut
  /\ ResultsOncePerHand
  /\ BlindsFollowDealer
  /\ BlindsAreDistinctPlayers
  /\ HandsInOrder
  /\ NothingBeforeCreation

\* The seats as a finite set of positions.
LEMMA SeatsAreFinite ==
  ASSUME TypeOK
  PROVE  /\ DOMAIN seats \in SUBSET Int /\ IsFiniteSet(DOMAIN seats)
         /\ ActivePositions \in SUBSET Int /\ IsFiniteSet(ActivePositions)
         /\ Positions \in SUBSET Int /\ IsFiniteSet(Positions)
         /\ Cardinality(Positions) = MaxPlayers
<1>1. IsFiniteSet(Positions) /\ Cardinality(Positions) = MaxPlayers
  <2>1. 0 \in Int /\ MaxPlayers - 1 \in Int /\ MaxPlayers \in Nat
    BY MaxPlayersAssumption
  <2>2. /\ IsFiniteSet(0..(MaxPlayers - 1))
        /\ Cardinality(0..(MaxPlayers - 1))
             = IF 0 > MaxPlayers - 1 THEN 0 ELSE MaxPlayers - 1 - 0 + 1
    BY <2>1, FS_Interval
  <2> QED
    BY <2>1, <2>2 DEF Positions
<1>2. DOMAIN seats \in SUBSET Positions /\ ActivePositions \in SUBSET Positions
  BY DEF TypeOK, ActivePositions
<1>3. Positions \in SUBSET Int
  BY MaxPlayersAssumption DEF Positions
<1> QED
  BY <1>1, <1>2, <1>3, FS_Subset

\* A table that is not full has a free seat, and the one that a player who
\* prefers none gets is the first.
LEMMA FreeSeat ==
  ASSUME TypeOK, Cardinality(DOMAIN seats) < MaxPlayers
  PROVE  /\ nextAvailableSeat \in Positions \ DOMAIN seats
         /\ \A q \in Positions \ DOMAIN seats : nextAvailableSeat <= q
<1> DEFINE F == Positions \ DOMAIN seats
<1>1. F \in SUBSET Int /\ IsFiniteSet(F)
  BY SeatsAreFinite, FS_Difference
<1>2. F # {}
  <2> SUFFICES ASSUME F = {} PROVE FALSE
    OBVIOUS
  <2>1. DOMAIN seats = Positions
    BY DEF TypeOK
  <2> QED
    BY <2>1, SeatsAreFinite, MaxPlayersAssumption
<1>3. nextAvailableSeat = Nth(F, 0)
  BY <1>1, <1>2, LeastIsFirst DEF nextAvailableSeat
<1> QED
  BY <1>1, <1>2, <1>3, LeastIsFirst

LEMMA SeatsOffered ==
  ASSUME TypeOK, Cardinality(DOMAIN seats) < MaxPlayers,
         NEW preferred \in 0..MaxPlayers
  PROVE  /\ seatFor(preferred) \in Positions \ DOMAIN seats
         /\ SeatGranted(preferred) => /\ MirrorSeat(preferred) \in Positions \ DOMAIN seats
                                      /\ MirrorSeat(preferred) = seatFor(preferred)
<1>1. preferred \in Int /\ 0 <= preferred
  BY MaxPlayersAssumption
<1>2. preferred < MaxPlayers => preferred \in Positions
  BY <1>1, MaxPlayersAssumption DEF Positions
<1>3. /\ nextAvailableSeat \in Positions \ DOMAIN seats
      /\ \A q \in Positions \ DOMAIN seats : nextAvailableSeat <= q
  BY FreeSeat
<1>4. nextAvailableSeat \in Int /\ nextAvailableSeat >= 0
  BY <1>3, MaxPlayersAssumption DEF Positions
<1>5. seatFor(preferred) \in Positions \ DOMAIN seats
  BY <1>2, <1>3 DEF seatFor
<1>6. ASSUME SeatGranted(preferred)
      PROVE  /\ MirrorSeat(preferred) \in Positions \ DOMAIN seats
             /\ MirrorSeat(preferred) = seatFor(preferred)
  <2>1. CASE preferred < MaxPlayers
    <3>1. preferred \in Positions \ DOMAIN seats /\ MirrorSeat(preferred) = preferred
      BY <1>1, <1>2, <1>6, <2>1 DEF SeatGranted, SeatRequested, MirrorSeat
    <3>2. preferred = 0 => nextAvailableSeat = 0
      BY <1>3, <1>4, <3>1
    <3> QED
      BY <1>1, <2>1, <3>1, <3>2 DEF seatFor
  <2>2. CASE ~(preferred < MaxPlayers)
    BY <1>1, <1>3, <2>2 DEF SeatRequested, MirrorSeat, seatFor
  <2> QED
    BY <2>1, <2>2
<1> QED
  BY <1>5, <1>6

--------------------------------------------------------------------------------
(***************************************************************************)
(* What a step can do to the seats: a player who has none takes a free     *)
(* one, a seat is vacated between hands, or the player in it stays, with   *)
(* the same stack while a hand is played.                                  *)
(***************************************************************************)
Occupied(pos, seat) ==
  [q \in DOMAIN seats \cup {pos} |-> IF q = pos THEN seat ELSE seats[q]]

TakesSeat ==
  /\ exists
  /\ \E pos \in Positions \ DOMAIN seats, seat \in Seat :
       /\ \A q \in DOMAIN seats : seats[q].player # seat.player
       /\ seats' = Occupied(pos, seat)
  /\ UNCHANGED <<exists, dealer, handCount, currentHand, status, hand, ended>>

VacatesSeat ==
  /\ exists /\ status # "in_hand"
  /\ \E pos \in DOMAIN seats : seats' = [q \in DOMAIN seats \ {pos} |-> seats[q]]
  /\ UNCHANGED <<exists, dealer, handCount, currentHand, status, hand, ended>>

KeepsSeat ==
  /\ \E pos \in DOMAIN seats, seat \in Seat :
       /\ seat.player = seats[pos].player
       /\ status = "in_hand" => seat.stack = seats[pos].stack
       /\ seats' = [seats EXCEPT ![pos] = seat]
  /\ UNCHANGED <<exists, dealer, handCount, currentHand, status, hand, ended>>

Ends == \E root \in 1..handCount, won \in [Players -> Winnings] : EndHand(root, won)

LEMMA StepEffect ==
  ASSUME IInv, [NextEither]_vars
  PROVE  \/ UNCHANGED vars
         \/ CreateTable
         \/ TakesSeat
         \/ VacatesSeat
         \/ KeepsSeat
         \/ StartHand
         \/ Ends
<1> USE DEF IInv
<1>1. ASSUME NEW p \in Players, NEW buyIn \in Amounts, NEW preferred \in 0..MaxPlayers,
             JoinTable(p, buyIn, preferred) \/ HandleJoinTable(p, buyIn, preferred)
      PROVE  TakesSeat
  <2> DEFINE seat == [player |-> p, stack |-> buyIn, sittingOut |-> FALSE]
  <2>1. CanJoin(p, buyIn)
    BY <1>1 DEF JoinTable, HandleJoinTable
  <2>2. seat \in Seat /\ seat.player = p
    BY AmountsAssumption DEF Seat
  <2>3. PICK pos \in Positions \ DOMAIN seats : seats' = Occupied(pos, seat)
    <3>1. Cardinality(DOMAIN seats) < MaxPlayers
      BY <2>1 DEF CanJoin
    <3>2. CASE JoinTable(p, buyIn, preferred)
      BY <3>1, <3>2, SeatsOffered DEF JoinTable, Occupied
    <3>3. CASE HandleJoinTable(p, buyIn, preferred)
      BY <3>1, <3>3, SeatsOffered DEF HandleJoinTable, Occupied
    <3> QED
      BY <1>1, <3>2, <3>3
  <2>4. \A q \in DOMAIN seats : seats[q].player # p
    BY <2>1 DEF CanJoin, SeatsOf
  <2>5. exists /\ UNCHANGED <<exists, dealer, handCount, currentHand, status, hand, ended>>
    BY <1>1, <2>1 DEF JoinTable, HandleJoinTable, CanJoin
  <2> HIDE DEF seat
  <2> QED
    BY <2>2, <2>3, <2>4, <2>5 DEF TakesSeat
<1>2. ASSUME NEW p \in Players, LeaveTable(p)
      PROVE  VacatesSeat
  BY <1>2 DEF LeaveTable, VacatesSeat, SeatsOf
<1>3. ASSUME NEW p \in Players, NEW amount \in Amounts, AddChips(p, amount)
      PROVE  KeepsSeat
  <2>1. PICK pos \in DOMAIN seats :
               seats' = [seats EXCEPT ![pos].stack = Wrap(@ + amount)]
    BY <1>3 DEF AddChips, SeatsOf
  <2> DEFINE seat == [seats[pos] EXCEPT !.stack = Wrap(@ + amount)]
  <2>2. seats[pos] \in Seat /\ amount \in Int /\ MaxInt \in Int
    <3>1. amount \in Int /\ MaxInt \in Int
      BY AmountsAssumption, BoundsAssumption
    <3> QED
      BY <3>1 DEF TypeOK
  <2>3. Wrap(seats[pos].stack + amount) \in Int
    BY <2>2 DEF Seat, Wrap
  <2>4. seat \in Seat /\ seat.player = seats[pos].player
    BY <2>2, <2>3 DEF Seat
  <2>5. seats' = [seats EXCEPT ![pos] = seat]
    BY <2>1
  <2>6. status # "in_hand" /\ UNCHANGED <<exists, dealer, handCount, currentHand, status, hand, ended>>
    BY <1>3 DEF AddChips
  <2> HIDE DEF seat
  <2> QED
    BY <2>4, <2>5, <2>6 DEF KeepsSeat
<1>4. ASSUME NEW p \in Players, PlayerSatOut(p) \/ PlayerSatIn(p)
      PROVE  KeepsSeat
  <2>1. PICK pos \in DOMAIN seats, out \in BOOLEAN :
               seats' = [seats EXCEPT ![pos].sittingOut = out]
    BY <1>4 DEF PlayerSatOut, PlayerSatIn, SeatsOf
  <2> DEFINE seat == [seats[pos] EXCEPT !.sittingOut = out]
  <2>2. seats[pos] \in Seat
    BY DEF TypeOK
  <2>3. seat \in Seat /\ seat.player = seats[pos].player /\ seat.stack = seats[pos].stack
    BY <2>2 DEF Seat
  <2>4. seats' = [seats EXCEPT ![pos] = seat]
    BY <2>1
  <2>5. UNCHANGED <<exists, dealer, handCount, currentHand, status, hand, ended>>
    BY <1>4 DEF PlayerSatOut, PlayerSatIn
  <2> HIDE DEF seat
  <2> QED
    BY <2>3, <2>4, <2>5 DEF KeepsSeat
<1>5. NextInTests =>
        \/ CreateTable
        \/ \E p \in Players, buyIn \in Amounts, preferred \in 0..MaxPlayers :
             HandleJoinTable(p, buyIn, preferred)
        \/ \E p \in Players : LeaveTable(p)
        \/ StartHand
        \/ Ends
        \/ \E p \in Players : PlayerSatOut(p) \/ PlayerSatIn(p)
  BY DEF NextInTests, HandleCreateTable, HandleLeaveTable, HandleStartHand, HandleEndHand, Ends
<1>6. Next =>
        \/ CreateTable
        \/ \E p \in Players, buyIn \in Amounts, preferred \in 0..MaxPlayers :
             JoinTable(p, buyIn, preferred)
        \/ \E p \in Players : LeaveTable(p)
        \/ StartHand
        \/ \E p \in Players, amount \in Amounts : AddChips(p, amount)
        \/ Ends
        \/ \E p \in Players : PlayerSatOut(p) \/ PlayerSatIn(p)
  BY DEF Next, Ends
<1> HIDE DEF IInv
<1> QED
  BY <1>1, <1>2, <1>3, <1>4, <1>5, <1>6 DEF NextEither

--------------------------------------------------------------------------------
LEMMA InitIInv == Init => IInv
<1> SUFFICES ASSUME Init PROVE IInv
  OBVIOUS
<1>1. /\ exists = FALSE /\ status = "" /\ handCount = 0 /\ currentHand = 0
      /\ dealer = 0 /\ ended = {} /\ hand = NoHandYet
  BY DEF Init, NoHand
<1>2. /\ DOMAIN seats = {} /\ seats \in [{} -> Seat]
      /\ hand.root = 0 /\ DOMAIN hand.players = {}
  <2>0. seats = <<>>
    BY DEF Init
  <2>1. DOMAIN seats = {}
    BY <2>0
  <2>4. seats \in [{} -> Seat]
    BY <2>0
  <2>2. hand.root = 0 /\ hand.players = <<>>
    BY <1>1 DEF NoHandYet, NoHand
  <2>3. DOMAIN hand.players = {}
    BY <2>2
  <2> QED
    BY <2>1, <2>2, <2>3, <2>4
<1>3. MaxHands \in Nat
  BY BoundsAssumption
<1>4. TypeOK
  <2>1. /\ DOMAIN seats \subseteq Positions
        /\ seats \in [DOMAIN seats -> Seat]
        /\ dealer \in Positions \cup {0}
        /\ status \in {"", "waiting", "in_hand"}
    BY <1>1, <1>2
  <2>2. handCount \in 0..MaxHands /\ currentHand \in 0..handCount /\ ended \subseteq 1..handCount
    <3>1. 0 \in 0..MaxHands /\ 0 \in 0..0 /\ {} \subseteq 1..0
      BY <1>3
    <3> QED
      BY <1>1, <3>1
  <2>3. exists \in BOOLEAN
    BY <1>1
  <2> QED
    BY <2>1, <2>2, <2>3 DEF TypeOK
<1>5. ResultsOncePerHand
  <2>1. ended = 1..handCount
    <3>1. 1..0 = {}
      OBVIOUS
    <3> QED
      BY <1>1, <3>1
  <2> QED
    BY <1>1, <2>1 DEF ResultsOncePerHand, NoHand
<1>6. /\ OneSeatPerPlayer /\ HandPlayersStayPut
      /\ BlindsFollowDealer /\ BlindsAreDistinctPlayers
      /\ HandsInOrder /\ NothingBeforeCreation
  BY <1>1, <1>2 DEF OneSeatPerPlayer, HandPlayersStayPut, BlindsFollowDealer,
              BlindsAreDistinctPlayers, HandsInOrder, NothingBeforeCreation, NoHand
<1> QED
  BY <1>4, <1>5, <1>6 DEF IInv

\* The parts that no seat is part of, after a step that only changes seats.
LEMMA HandsUntouched ==
  ASSUME IInv, exists,
         UNCHANGED <<exists, dealer, handCount, currentHand, status, hand, ended>>
  PROVE  /\ ResultsOncePerHand' /\ BlindsFollowDealer' /\ BlindsAreDistinctPlayers'
         /\ HandsInOrder' /\ NothingBeforeCreation'
BY DEF IInv, ResultsOncePerHand, BlindsFollowDealer, BlindsAreDistinctPlayers,
       HandsInOrder, NothingBeforeCreation, Clockwise

LEMMA TakesSeatIInv ==
  ASSUME IInv, TakesSeat
  PROVE  IInv'
<1>1. PICK pos \in Positions \ DOMAIN seats, seat \in Seat :
             /\ \A q \in DOMAIN seats : seats[q].player # seat.player
             /\ seats' = Occupied(pos, seat)
  BY DEF TakesSeat
<1>2. /\ DOMAIN seats' = DOMAIN seats \cup {pos}
      /\ seats'[pos] = seat
      /\ \A q \in DOMAIN seats : seats'[q] = seats[q]
  BY <1>1 DEF Occupied
<1>3. TypeOK'
  <2>1. seats' \in [DOMAIN seats' -> Seat]
    BY <1>1, <1>2 DEF IInv, TypeOK, Occupied
  <2> QED
    BY <1>1, <1>2, <2>1 DEF IInv, TypeOK, TakesSeat
<1>4. OneSeatPerPlayer'
  BY <1>1, <1>2 DEF IInv, OneSeatPerPlayer
<1>5. HandPlayersStayPut'
  BY <1>2 DEF IInv, HandPlayersStayPut, TakesSeat
<1> QED
  BY <1>3, <1>4, <1>5, HandsUntouched DEF IInv, TakesSeat

LEMMA VacatesSeatIInv ==
  ASSUME IInv, VacatesSeat
  PROVE  IInv'
<1>1. PICK pos \in DOMAIN seats : seats' = [q \in DOMAIN seats \ {pos} |-> seats[q]]
  BY DEF VacatesSeat
<1>2. TypeOK'
  BY <1>1 DEF IInv, TypeOK, VacatesSeat
<1>3. OneSeatPerPlayer'
  BY <1>1 DEF IInv, OneSeatPerPlayer
<1>4. HandPlayersStayPut'
  BY DEF HandPlayersStayPut, VacatesSeat
<1> QED
  BY <1>2, <1>3, <1>4, HandsUntouched DEF IInv, VacatesSeat

LEMMA KeepsSeatIInv ==
  ASSUME IInv, KeepsSeat
  PROVE  IInv'
<1>1. PICK pos \in DOMAIN seats, seat \in Seat :
             /\ seat.player = seats[pos].player
             /\ status = "in_hand" => seat.stack = seats[pos].stack
             /\ seats' = [seats EXCEPT ![pos] = seat]
  BY DEF KeepsSeat
<1>2. /\ DOMAIN seats' = DOMAIN seats
      /\ \A q \in DOMAIN seats : seats'[q] = IF q = pos THEN seat ELSE seats[q]
      /\ exists
  BY <1>1 DEF IInv, NothingBeforeCreation, TypeOK
<1>3. TypeOK'
  BY <1>1 DEF IInv, TypeOK, KeepsSeat
<1>4. OneSeatPerPlayer'
  BY <1>1, <1>2 DEF IInv, OneSeatPerPlayer
<1>5. HandPlayersStayPut'
  BY <1>1, <1>2 DEF IInv, HandPlayersStayPut, KeepsSeat
<1> QED
  BY <1>2, <1>3, <1>4, <1>5, HandsUntouched DEF IInv, KeepsSeat

\* The next dealer is someone seated, and another seat than the last one's.
LEMMA ButtonMoves ==
  ASSUME IInv, StartHand
  PROVE  nextDealerPosition \in DOMAIN seats /\ nextDealerPosition # dealer
<1> DEFINE S == DOMAIN seats
           n == Cardinality(S)
           k == IndexOf(S, dealer)
<1>1. /\ S \in SUBSET Int /\ IsFiniteSet(S) /\ ActivePositions \in SUBSET S
      /\ Cardinality(ActivePositions) >= 2
  BY SeatsAreFinite DEF IInv, StartHand, ActivePositions
<1>2. n \in Nat /\ n >= 2
  <2>1. Cardinality(ActivePositions) <= n /\ IsFiniteSet(ActivePositions)
    BY <1>1, FS_Subset
  <2>2. n \in Nat /\ Cardinality(ActivePositions) \in Nat
    BY <1>1, <2>1, FS_CardinalityType
  <2> QED
    BY <1>1, <2>1, <2>2
<1>3. k \in 0..(n - 1)
  BY <1>1, <1>2, IndexInRange DEF IndexOf
<1>4. (k + 1) % n \in 0..(n - 1) /\ (k + 1) % n # k
  BY <1>2, <1>3, Round
<1>5. nextDealerPosition = Nth(S, (k + 1) % n)
  BY DEF nextDealerPosition
<1>6. /\ Nth(S, (k + 1) % n) \in S
      /\ IndexOf(S, Nth(S, (k + 1) % n)) # k
  BY <1>1, <1>4, NthHasIndex
<1> QED
  BY <1>5, <1>6

LEMMA StartHandIInv ==
  ASSUME IInv, StartHand
  PROVE  IInv'
<1> DEFINE A == ActivePositions
           d == nextDealerPosition
<1>1. /\ DOMAIN seats \in SUBSET Int /\ IsFiniteSet(DOMAIN seats)
      /\ A \in SUBSET Int /\ IsFiniteSet(A) /\ Cardinality(A) >= 2
  BY SeatsAreFinite DEF IInv, StartHand
<1>2. d \in DOMAIN seats
  BY ButtonMoves
<1>3. /\ hand'.root = handCount + 1
      /\ hand'.dealer = d
      /\ hand'.sb = smallBlind(A, d)
      /\ hand'.bb = bigBlind(A, d)
      /\ hand'.players = [pos \in A |-> [player |-> seats[pos].player, stack |-> seats[pos].stack]]
      /\ currentHand' = handCount + 1 /\ handCount' = handCount + 1
      /\ dealer' = d /\ status' = "in_hand"
      /\ exists /\ status # "in_hand" /\ handCount < MaxHands
      /\ UNCHANGED <<exists, seats, ended>>
  BY DEF StartHand
<1> HIDE DEF d
<1>4. handCount \in Nat /\ MaxHands \in Nat /\ ended = 1..handCount
  <2>1. MaxHands \in Nat
    BY BoundsAssumption
  <2>2. handCount \in 0..MaxHands
    BY DEF IInv, TypeOK
  <2>3. ended = 1..handCount
    BY <1>3 DEF IInv, ResultsOncePerHand
  <2> QED
    BY <2>1, <2>2, <2>3
<1>5. TypeOK'
  <2>1. dealer' \in Positions \cup {0}
    BY <1>2, <1>3 DEF IInv, TypeOK
  <2>2. handCount' \in 0..MaxHands /\ currentHand' \in 0..handCount' /\ ended' \subseteq 1..handCount'
    BY <1>3, <1>4
  <2> QED
    BY <1>3, <2>1, <2>2 DEF IInv, TypeOK
<1>6. OneSeatPerPlayer'
  BY <1>3 DEF IInv, OneSeatPerPlayer
<1>7. HandPlayersStayPut'
  BY <1>3 DEF HandPlayersStayPut, ActivePositions
<1>8. ResultsOncePerHand'
  BY <1>3, <1>4 DEF ResultsOncePerHand, NoHand
<1>9. /\ smallBlind(A, d) \in A /\ bigBlind(A, d) \in A
      /\ smallBlind(A, d) # bigBlind(A, d)
      /\ d \in A => smallBlind(A, d) = IF Cardinality(A) = 2 THEN d ELSE Clockwise(A, d)
      /\ bigBlind(A, d) = Clockwise(A, smallBlind(A, d))
  BY <1>1, <1>2, Blinds
<1> HIDE DEF A
<1>10. BlindsFollowDealer' /\ BlindsAreDistinctPlayers'
  <2>1. DOMAIN hand'.players = A
    BY <1>3
  <2> QED
    BY <1>3, <1>9, <2>1 DEF BlindsFollowDealer, BlindsAreDistinctPlayers
<1>11. HandsInOrder' /\ NothingBeforeCreation'
  BY <1>3, <1>4 DEF HandsInOrder, NothingBeforeCreation
<1> QED
  BY <1>5, <1>6, <1>7, <1>8, <1>10, <1>11 DEF IInv

LEMMA EndsIInv ==
  ASSUME IInv, Ends
  PROVE  IInv'
<1>1. PICK root \in 1..handCount, won \in [Players -> Winnings] : EndHand(root, won)
  BY DEF Ends
<1>2. /\ exists /\ status = "in_hand" /\ root = handCount
      /\ ended = 1..(handCount - 1)
      /\ handCount \in 0..MaxHands /\ MaxHands \in Nat
  BY <1>1, BoundsAssumption DEF EndHand, CanEndHand, IInv, HandsInOrder, TypeOK
<1>3. /\ currentHand' = NoHand /\ status' = "waiting"
      /\ ended' = 1..handCount
      /\ UNCHANGED <<exists, dealer, handCount, hand>>
  BY <1>1, <1>2 DEF EndHand
<1>4. /\ DOMAIN seats' = DOMAIN seats
      /\ \A pos \in DOMAIN seats : /\ seats'[pos] \in Seat
                                   /\ seats'[pos].player = seats[pos].player
  <2>1. seats' = [pos \in DOMAIN seats |->
                   [seats[pos] EXCEPT !.stack = @ + won[seats[pos].player]]]
    BY <1>1 DEF EndHand
  <2>2. ASSUME NEW pos \in DOMAIN seats
        PROVE  /\ seats'[pos] \in Seat
               /\ seats'[pos].player = seats[pos].player
    <3>1. seats[pos] \in Seat
      BY DEF IInv, TypeOK
    <3>2. won[seats[pos].player] \in Int
      <4>1. seats[pos].player \in Players
        BY <3>1 DEF Seat
      <4>2. won[seats[pos].player] \in Winnings
        BY <4>1
      <4>3. \A w \in Winnings : w \in Int
        BY AmountsAssumption
      <4> QED
        BY <4>2, <4>3
    <3>3. seats'[pos] = [seats[pos] EXCEPT !.stack = @ + won[seats[pos].player]]
      BY <2>1
    <3>4. seats[pos].stack + won[seats[pos].player] \in Int
      BY <3>1, <3>2 DEF Seat
    <3> QED
      BY <3>1, <3>3, <3>4 DEF Seat
  <2> QED
    BY <2>1, <2>2
<1>5. TypeOK'
  <2>1. seats' \in [DOMAIN seats' -> Seat]
    <3>1. seats' = [pos \in DOMAIN seats' |-> seats'[pos]]
      BY <1>1 DEF EndHand
    <3> QED
      BY <1>4, <3>1
  <2>2. currentHand' \in 0..handCount' /\ ended' \subseteq 1..handCount'
    BY <1>2, <1>3 DEF NoHand
  <2> QED
    BY <1>3, <1>4, <2>1, <2>2 DEF IInv, TypeOK
<1>6. OneSeatPerPlayer'
  BY <1>4 DEF IInv, OneSeatPerPlayer
<1>7. HandPlayersStayPut' /\ HandsInOrder' /\ NothingBeforeCreation'
  BY <1>2, <1>3 DEF IInv, HandPlayersStayPut, HandsInOrder, NothingBeforeCreation
<1>8. ResultsOncePerHand'
  BY <1>2, <1>3 DEF ResultsOncePerHand, NoHand
<1>9. BlindsFollowDealer' /\ BlindsAreDistinctPlayers'
  BY <1>3 DEF IInv, BlindsFollowDealer, BlindsAreDistinctPlayers, Clockwise
<1> QED
  BY <1>5, <1>6, <1>7, <1>8, <1>9 DEF IInv

LEMMA NextIInv ==
  ASSUME IInv, [NextEither]_vars
  PROVE  IInv'
<1>1. CASE UNCHANGED vars
  BY <1>1 DEF vars, tableVars, IInv, TypeOK, OneSeatPerPlayer, HandPlayersStayPut, ResultsOncePerHand,
              BlindsFollowDealer, BlindsAreDistinctPlayers, Clockwise,
              HandsInOrder, NothingBeforeCreation
<1>2. CASE CreateTable
  <2>1. /\ exists' /\ ~exists /\ dealer' = 0 /\ handCount' = 0 /\ handCount = 0
        /\ status' = "waiting" /\ status = "" /\ currentHand = NoHand
        /\ hand = NoHandYet
        /\ UNCHANGED <<seats, currentHand, hand, ended>>
    BY <1>2 DEF CreateTable, IInv, NothingBeforeCreation
  <2>2. TypeOK' /\ OneSeatPerPlayer' /\ HandPlayersStayPut' /\ ResultsOncePerHand'
    BY <2>1 DEF IInv, TypeOK, OneSeatPerPlayer, HandPlayersStayPut, ResultsOncePerHand
  <2>3. BlindsFollowDealer' /\ BlindsAreDistinctPlayers'
    BY <2>1 DEF IInv, BlindsFollowDealer, BlindsAreDistinctPlayers, Clockwise
  <2>4. HandsInOrder' /\ NothingBeforeCreation'
    BY <2>1 DEF IInv, HandsInOrder, NothingBeforeCreation
  <2> QED
    BY <2>2, <2>3, <2>4 DEF IInv
<1> QED
  BY <1>1, <1>2, StepEffect, TakesSeatIInv, VacatesSeatIInv, KeepsSeatIInv,
     StartHandIInv, EndsIInv

--------------------------------------------------------------------------------
LEMMA Invariance == SpecEither => []IInv
<1>1. IInv /\ [NextEither]_vars => IInv'
  BY NextIInv
<1> QED
  BY InitIInv, <1>1, PTL DEF SpecEither

\* Every reachable state of the table is well typed, whichever code handles
\* the commands.
THEOREM TypeCorrect == SpecEither => []TypeOK
<1>1. IInv => TypeOK
  BY DEF IInv
<1> QED
  BY Invariance, <1>1, PTL

\* No player ever sits in two seats, so that findSeatByPlayer has one answer.
THEOREM OneAnswer == SpecEither => []OneSeatPerPlayer
<1>1. IInv => OneSeatPerPlayer
  BY DEF IInv
<1> QED
  BY Invariance, <1>1, PTL

\* Nobody who was dealt into the hand being played loses the seat or the
\* stack that HandStarted told, whatever joins, departures and top-ups come.
THEOREM HandIsStable == SpecEither => []HandPlayersStayPut
<1>1. IInv => HandPlayersStayPut
  BY DEF IInv
<1> QED
  BY Invariance, <1>1, PTL

\* However late and often its results arrive, a hand is applied once, and
\* every hand before the one being played has been.
THEOREM ResultsApplied == SpecEither => []ResultsOncePerHand
<1>1. IInv => ResultsOncePerHand
  BY DEF IInv
<1> QED
  BY Invariance, <1>1, PTL

\* The blinds of every hand are two of its players, wherever the button is.
THEOREM BlindsDiffer == SpecEither => []BlindsAreDistinctPlayers
<1>1. IInv => BlindsAreDistinctPlayers
  BY DEF IInv
<1> QED
  BY Invariance, <1>1, PTL

\* The index arithmetic of the blinds, modulo the number of players dealt in
\* and with its case for two, agrees with going round the table from seat to
\* seat.
THEOREM BlindsInPlace == SpecEither => []BlindsFollowDealer
<1>1. IInv => BlindsFollowDealer
  BY DEF IInv
<1> QED
  BY Invariance, <1>1, PTL

\* A join that the functional handler accepts gets at a deployed table the
\* same seat: reading seat 0 as a preference or as none makes no difference,
\* since seat 0, when it is free, is the first that is.
THEOREM MirrorJoins == SpecEither => []MirrorJoinsAreTables
<1>1. IInv => MirrorJoinsAreTables
  <2> SUFFICES ASSUME IInv,
                      NEW p \in Players, NEW buyIn \in Amounts, CanJoin(p, buyIn),
                      NEW preferred \in 0..MaxPlayers
               PROVE  IF SeatGranted(preferred)
                      THEN MirrorSeat(preferred) = seatFor(preferred)
                      ELSE preferred \in DOMAIN seats
    BY DEF MirrorJoinsAreTables
  <2>1. TypeOK /\ Cardinality(DOMAIN seats) < MaxPlayers
    BY DEF IInv, CanJoin
  <2> QED
    BY <2>1, SeatsOffered DEF SeatGranted
<1> QED
  BY Invariance, <1>1, PTL

\* No hand has the button where the last one left it: it is at another seat,
\* of someone seated, although players come and go in between.
THEOREM ButtonAlwaysMoves == SpecEither => ButtonMovesOn
<1>1. IInv /\ [NextEither]_vars =>
        [hand' # hand => dealer' # dealer /\ dealer' \in DOMAIN seats']_vars
  <2> SUFFICES ASSUME IInv, [NextEither]_vars, hand' # hand
               PROVE  dealer' # dealer /\ dealer' \in DOMAIN seats'
    OBVIOUS
  <2>1. StartHand
    BY StepEffect DEF vars, CreateTable, TakesSeat, VacatesSeat, KeepsSeat, Ends, EndHand
  <2>2. dealer' = nextDealerPosition /\ seats' = seats
    BY <2>1 DEF StartHand
  <2> QED
    BY <2>1, <2>2, ButtonMoves
<1> QED
  BY Invariance, <1>1, PTL DEF SpecEither, ButtonMovesOn

\* The steps of the deployed table are among those of SpecEither.
LEMMA DeployedIsEither == Spec => SpecEither
<1>1. [Next]_vars => [NextEither]_vars
  BY DEF NextEither
<1> QED
  BY <1>1, PTL DEF Spec, SpecEither

\* The table as deployed keeps all of these promises, its joins included.
THEOREM DeployedTable ==
  Spec => /\ []OneSeatPerPlayer /\ []HandPlayersStayPut /\ []ResultsOncePerHand
          /\ []BlindsAreDistinctPlayers /\ []BlindsFollowDealer /\ ButtonMovesOn
BY DeployedIsEither, OneAnswer, HandIsStable, ResultsApplied, BlindsDiffer,
   BlindsInPlace, ButtonAlwaysMoves, PTL
================================================================================
