---------------------------- MODULE PlayerLogProofs ----------------------------
(***************************************************************************)
(* Theorems about PlayerLog, for any number of workers, tables and events. *)
(*                                                                         *)
(* Rebuilding is a recursive function on the pages.  The facts about it    *)
(* are proved by induction, stated for a set of numbers.                   *)
(***************************************************************************)
EXTENDS PlayerLog, SequenceTheorems, FiniteSetTheorems, WellFoundedInduction, TLAPS

\* Induction from a to b.
LEMMA Reaches ==
  ASSUME NEW a \in Nat, NEW b \in Nat, NEW S, a \in S,
         \A k \in a..b : k # a /\ k - 1 \in S => k \in S
  PROVE  \A k \in a..b : k \in S
<1> DEFINE F == {k \in a..b : k \notin S}
<1> SUFFICES ASSUME F # {} PROVE FALSE
  OBVIOUS
<1>1. F \subseteq Nat
  OBVIOUS
<1>2. PICK m \in F : \A k \in F : ~(<<k, m>> \in OpToRel(<, Nat))
  <2> HIDE DEF F
  <2> QED
    BY <1>1, NatLessThanWellFounded, WFMin, Zenon
<1>3. m \in a..b /\ m \notin S /\ m # a
  OBVIOUS
<1>4. m - 1 \in a..b /\ m - 1 \in Nat /\ m - 1 < m /\ m \in Nat
  BY <1>3
<1>5. m - 1 \notin F
  BY <1>2, <1>4 DEF OpToRel
<1>6. m - 1 \in S
  BY <1>4, <1>5
<1> QED
  BY <1>3, <1>6

--------------------------------------------------------------------------------
(***************************************************************************)
(* Rebuilding                                                              *)
(***************************************************************************)
IsRun(base, pages, N, g) ==
  g = [n \in 0..N |-> IF n = 0 THEN base ELSE Apply(g[n - 1], pages[n])]

RunOf(base, pages, N) == CHOOSE g : IsRun(base, pages, N, g)

After(base, pages, n) == RunOf(base, pages, n)[n]

LEMMA RebuildIsAfter ==
  ASSUME NEW base, NEW pages
  PROVE  RebuildState(base, pages) = After(base, pages, Len(pages))
BY DEF RebuildState, After, RunOf, IsRun

LEMMA RunStart ==
  ASSUME NEW base, NEW pages, NEW N \in Nat, NEW g, IsRun(base, pages, N, g)
  PROVE  g[0] = base
<1>1. 0 \in 0..N
  OBVIOUS
<1>2. g[0] = IF 0 = 0 THEN base ELSE Apply(g[0 - 1], pages[0])
  BY <1>1, Zenon DEF IsRun
<1> QED
  BY <1>2

LEMMA RunStep ==
  ASSUME NEW base, NEW pages, NEW N \in Nat, NEW g, IsRun(base, pages, N, g),
         NEW n \in 0..N, n # 0
  PROVE  g[n] = Apply(g[n - 1], pages[n])
<1>1. g[n] = IF n = 0 THEN base ELSE Apply(g[n - 1], pages[n])
  BY Zenon DEF IsRun
<1> QED
  BY <1>1

\* Runs agree as long as their pages do.
LEMMA RunsAgree ==
  ASSUME NEW base, NEW p, NEW q, NEW N \in Nat, NEW M \in Nat, NEW g, NEW h,
         IsRun(base, p, N, g), IsRun(base, q, M, h),
         NEW n \in Nat, n <= N, n <= M, \A i \in 1..n : p[i] = q[i]
  PROVE  g[n] = h[n]
<1> DEFINE S == {k \in 0..n : g[k] = h[k]}
<1>1. 0 \in S
  BY RunStart
<1>2. ASSUME NEW k \in 0..n, k # 0, k - 1 \in S
      PROVE  k \in S
  <2>1. k \in 0..N /\ k \in 0..M /\ k \in 1..n
    BY <1>2
  <2>2. g[k] = Apply(g[k - 1], p[k]) /\ h[k] = Apply(h[k - 1], q[k])
    BY <1>2, <2>1, RunStep
  <2>3. p[k] = q[k] /\ g[k - 1] = h[k - 1]
    BY <1>2, <2>1
  <2>4. g[k] = h[k]
    BY ONLY <2>2, <2>3, Zenon
  <2> QED
    BY <2>4
<1>3. \A k \in 0..n : k \in S
  <2> HIDE DEF S
  <2> QED
    BY <1>1, <1>2, Reaches
<1> QED
  BY <1>3

LEMMA RunExists ==
  ASSUME NEW base, NEW pages, NEW N \in Nat
  PROVE  \E g : IsRun(base, pages, N, g)
<1> DEFINE S == {k \in 0..N : \E g : IsRun(base, pages, k, g)}
<1>1. 0 \in S
  <2> DEFINE g == [n \in 0..0 |-> base]
  <2>1. g = [n \in 0..0 |-> IF n = 0 THEN base ELSE Apply(g[n - 1], pages[n])]
    OBVIOUS
  <2>2. IsRun(base, pages, 0, g)
    BY <2>1 DEF IsRun
  <2> QED
    BY <2>2
<1>2. ASSUME NEW k \in 0..N, k # 0, k - 1 \in S
      PROVE  k \in S
  <2>1. PICK g : IsRun(base, pages, k - 1, g)
    BY <1>2
  <2> DEFINE h == [n \in 0..k |-> IF n = k THEN Apply(g[k - 1], pages[k]) ELSE g[n]]
  <2>2. ASSUME NEW n \in 0..k
        PROVE  h[n] = IF n = 0 THEN base ELSE Apply(h[n - 1], pages[n])
    <3>1. CASE n = k
      <4>1. h[k] = Apply(g[k - 1], pages[k]) /\ h[k - 1] = g[k - 1]
        BY <1>2
      <4>2. h[k] = Apply(h[k - 1], pages[k])
        BY ONLY <4>1, Zenon
      <4> QED
        BY <1>2, <3>1, <4>2
    <3>2. CASE n = 0
      <4>1. h[0] = g[0] /\ k - 1 \in Nat
        BY <1>2
      <4>2. g[0] = base
        BY <2>1, <4>1, RunStart
      <4> QED
        BY <3>2, <4>1, <4>2
    <3>3. CASE n # k /\ n # 0
      <4>1. n \in 0..(k - 1) /\ k - 1 \in Nat
        BY <3>3
      <4>2. h[n] = g[n] /\ h[n - 1] = g[n - 1]
        BY <3>3
      <4>3. g[n] = Apply(g[n - 1], pages[n])
        BY <2>1, <3>3, <4>1, RunStep
      <4> QED
        BY <3>3, <4>2, <4>3
    <3> QED
      BY <3>1, <3>2, <3>3
  <2>3. h = [n \in 0..k |-> h[n]]
    OBVIOUS
  <2>4. h = [n \in 0..k |-> IF n = 0 THEN base ELSE Apply(h[n - 1], pages[n])]
    <3> HIDE DEF h
    <3> QED
      BY <2>2, <2>3, Zenon
  <2>5. IsRun(base, pages, k, h)
    BY <2>4 DEF IsRun
  <2> HIDE DEF h
  <2> QED
    BY <2>5
<1>3. \A k \in 0..N : k \in S
  <2> HIDE DEF S
  <2> QED
    BY <1>1, <1>2, Reaches
<1>4. N \in S
  BY <1>3
<1> QED
  BY <1>4

LEMMA RunOfIsRun ==
  ASSUME NEW base, NEW pages, NEW N \in Nat
  PROVE  IsRun(base, pages, N, RunOf(base, pages, N))
BY RunExists DEF RunOf

LEMMA AfterNone ==
  ASSUME NEW base, NEW pages
  PROVE  After(base, pages, 0) = base
BY RunOfIsRun, RunStart DEF After

LEMMA AfterStep ==
  ASSUME NEW base, NEW pages, NEW n \in Nat, n # 0
  PROVE  After(base, pages, n) = Apply(After(base, pages, n - 1), pages[n])
<1> DEFINE g == RunOf(base, pages, n)
           h == RunOf(base, pages, n - 1)
<1>1. n - 1 \in Nat /\ n \in 0..n /\ n - 1 <= n
  OBVIOUS
<1>2. IsRun(base, pages, n, g) /\ IsRun(base, pages, n - 1, h)
  BY <1>1, RunOfIsRun
<1> HIDE DEF g, h
<1>3. g[n] = Apply(g[n - 1], pages[n])
  BY <1>1, <1>2, RunStep
<1>4. g[n - 1] = h[n - 1]
  BY <1>1, <1>2, RunsAgree
<1>5. g[n] = Apply(h[n - 1], pages[n])
  BY ONLY <1>3, <1>4, Zenon
<1> QED
  BY <1>5 DEF After, g, h

LEMMA AfterAgrees ==
  ASSUME NEW base, NEW p, NEW q, NEW n \in Nat, \A i \in 1..n : p[i] = q[i]
  PROVE  After(base, p, n) = After(base, q, n)
<1> DEFINE g == RunOf(base, p, n)
           h == RunOf(base, q, n)
<1>1. IsRun(base, p, n, g) /\ IsRun(base, q, n, h)
  BY RunOfIsRun
<1> HIDE DEF g, h
<1>2. g[n] = h[n]
  BY <1>1, RunsAgree
<1> QED
  BY <1>2 DEF After, g, h

(***************************************************************************)
(* Rebuilding from a part of a log                                         *)
(***************************************************************************)
\* The state after events n + 1 .. m of L on base.
Replay(L, base, n, m) == RebuildState(base, SubSeq(L, n + 1, m))

LEMMA PartOfLog ==
  ASSUME NEW E, NEW L \in Seq(E), NEW n \in Nat, NEW m \in n..Len(L)
  PROVE  /\ Len(SubSeq(L, n + 1, m)) = m - n
         /\ \A i \in 1..(m - n) : SubSeq(L, n + 1, m)[i] = L[n + i]
<1>1. Len(L) \in Nat /\ n + 1 \in Int /\ m \in Int
  OBVIOUS
<1>2. \A i \in (n + 1)..m : L[i] \in E
  <2>1. \A i \in 1..Len(L) : L[i] \in E
    OBVIOUS
  <2> QED
    BY <1>1, <2>1
<1>3. /\ Len(SubSeq(L, n + 1, m)) = IF n + 1 <= m THEN m - (n + 1) + 1 ELSE 0
      /\ \A i \in 1..(m - (n + 1) + 1) : SubSeq(L, n + 1, m)[i] = L[(n + 1) + i - 1]
  BY <1>1, <1>2, SubSeqProperties
<1>4. Len(SubSeq(L, n + 1, m)) = m - n
  BY <1>1, <1>3
<1>5. ASSUME NEW i \in 1..(m - n)
      PROVE  SubSeq(L, n + 1, m)[i] = L[n + i]
  <2>1. i \in 1..(m - (n + 1) + 1) /\ (n + 1) + i - 1 = n + i
    BY <1>1
  <2>2. SubSeq(L, n + 1, m)[i] = L[(n + 1) + i - 1]
    BY <1>3, <2>1
  <2> QED
    BY ONLY <2>1, <2>2, Zenon
<1> QED
  BY <1>4, <1>5

LEMMA ReplayIsAfter ==
  ASSUME NEW E, NEW L \in Seq(E), NEW base, NEW n \in Nat, NEW m \in n..Len(L)
  PROVE  Replay(L, base, n, m) = After(base, SubSeq(L, n + 1, m), m - n)
<1>1. Len(SubSeq(L, n + 1, m)) = m - n
  BY PartOfLog
<1> QED
  BY <1>1, RebuildIsAfter, Zenon DEF Replay

LEMMA ReplayNone ==
  ASSUME NEW E, NEW L \in Seq(E), NEW base, NEW n \in 0..Len(L)
  PROVE  Replay(L, base, n, n) = base
<1>1. n \in Nat /\ n \in n..Len(L) /\ n - n = 0
  OBVIOUS
<1>2. Replay(L, base, n, n) = After(base, SubSeq(L, n + 1, n), n - n)
  BY <1>1, ReplayIsAfter
<1> QED
  BY <1>1, <1>2, AfterNone

LEMMA ReplayStep ==
  ASSUME NEW E, NEW L \in Seq(E), NEW base, NEW n \in Nat, NEW m \in n..Len(L), m # n
  PROVE  Replay(L, base, n, m) = Apply(Replay(L, base, n, m - 1), L[m])
<1> DEFINE p == SubSeq(L, n + 1, m)
           q == SubSeq(L, n + 1, m - 1)
           k == m - n
<1>1. Len(L) \in Nat
  OBVIOUS
<1>2. /\ m - 1 \in n..Len(L) /\ k \in Nat /\ k # 0 /\ k - 1 \in Nat
      /\ (m - 1) - n = k - 1 /\ k \in 1..(m - n) /\ n + k = m
  BY <1>1
<1>3. p[k] = L[m] /\ \A i \in 1..(k - 1) : p[i] = q[i]
  <2>1. \A i \in 1..(m - n) : p[i] = L[n + i]
    BY PartOfLog
  <2>2. \A i \in 1..((m - 1) - n) : q[i] = L[n + i]
    BY <1>2, PartOfLog
  <2>3. p[k] = L[m]
    <3>1. p[k] = L[n + k]
      BY <1>2, <2>1
    <3> QED
      BY ONLY <1>2, <3>1, Zenon
  <2>4. ASSUME NEW i \in 1..(k - 1)
        PROVE  p[i] = q[i]
    <3>1. i \in 1..(m - n) /\ i \in 1..((m - 1) - n)
      BY <1>1
    <3> QED
      BY <2>1, <2>2, <3>1
  <2> QED
    BY <2>3, <2>4
<1>4. Replay(L, base, n, m) = After(base, p, k)
  BY ReplayIsAfter
<1>5. Replay(L, base, n, m - 1) = After(base, q, k - 1)
  <2>1. Replay(L, base, n, m - 1) = After(base, SubSeq(L, n + 1, m - 1), (m - 1) - n)
    BY <1>2, ReplayIsAfter
  <2> QED
    BY <1>2, <2>1, Zenon
<1> HIDE DEF p, q, k
<1>6. After(base, p, k) = Apply(After(base, p, k - 1), p[k])
  BY <1>2, AfterStep
<1>7. After(base, p, k - 1) = After(base, q, k - 1)
  BY <1>2, <1>3, AfterAgrees
<1> QED
  BY ONLY <1>3, <1>4, <1>5, <1>6, <1>7, Zenon

\* What is appended to a log changes nothing of its past.
LEMMA ReplayAgrees ==
  ASSUME NEW E, NEW L \in Seq(E), NEW M \in Seq(E), Len(L) <= Len(M),
         \A i \in 1..Len(L) : M[i] = L[i],
         NEW base, NEW n \in Nat, NEW m \in n..Len(L)
  PROVE  Replay(M, base, n, m) = Replay(L, base, n, m)
<1>1. Len(L) \in Nat /\ Len(M) \in Nat
  OBVIOUS
<1>2. m \in n..Len(M) /\ m - n \in Nat
  BY <1>1
<1>3. \A i \in 1..(m - n) : n + i \in 1..Len(L)
  BY <1>1
<1>4. /\ \A i \in 1..(m - n) : SubSeq(L, n + 1, m)[i] = L[n + i]
      /\ \A i \in 1..(m - n) : SubSeq(M, n + 1, m)[i] = M[n + i]
  BY <1>2, PartOfLog
<1>5. \A i \in 1..(m - n) : SubSeq(M, n + 1, m)[i] = SubSeq(L, n + 1, m)[i]
  BY <1>3, <1>4
<1>6. After(base, SubSeq(M, n + 1, m), m - n) = After(base, SubSeq(L, n + 1, m), m - n)
  BY <1>2, <1>5, AfterAgrees
<1> QED
  BY <1>2, <1>6, ReplayIsAfter

LEMMA ReplayAll ==
  ASSUME NEW E, NEW L \in Seq(E), NEW base
  PROVE  RebuildState(base, L) = Replay(L, base, 0, Len(L))
<1>1. SubSeq(L, 1, Len(L)) = L
  BY SubSeqFull
<1>2. 0 + 1 = 1
  OBVIOUS
<1> QED
  BY <1>1, <1>2, Zenon DEF Replay

--------------------------------------------------------------------------------
(***************************************************************************)
(* Events overwrite                                                        *)
(***************************************************************************)
States ==
  [exists : BOOLEAN, bankroll : Int, reserved : Int, reservations : [Tables -> Int]]

Events ==
  [type : {"PlayerRegistered"}]
    \cup [type : {"FundsDeposited", "FundsWithdrawn"}, newBalance : Int]
    \cup [type : {"FundsReserved"}, root : CommandRoots, amount : Int, newReserved : Int]
    \cup [type : {"FundsReleased"}, root : CommandRoots, newReserved : Int]

LEMMA NewIsState == NewPlayerState \in States
BY DEF NewPlayerState, States

LEMMA Registration ==
  ASSUME NEW s \in States, NEW e, e.type = "PlayerRegistered"
  PROVE  /\ Apply(s, e) \in States
         /\ Apply(s, e).exists = TRUE /\ Apply(s, e).bankroll = 0 /\ Apply(s, e).reserved = 0
         /\ Apply(s, e).reservations = s.reservations
<1> DEFINE a == [s EXCEPT !.exists = TRUE]
           b == [a EXCEPT !.bankroll = 0]
           c == [b EXCEPT !.reserved = 0]
<1>1. a \in States /\ a.exists = TRUE /\ a.reservations = s.reservations
  BY DEF States
<1> HIDE DEF a
<1>2. /\ b \in States /\ b.exists = TRUE /\ b.bankroll = 0
      /\ b.reservations = s.reservations
  BY <1>1 DEF States
<1> HIDE DEF b
<1>3. /\ c \in States /\ c.exists = TRUE /\ c.bankroll = 0 /\ c.reserved = 0
      /\ c.reservations = s.reservations
  BY <1>2 DEF States
<1> HIDE DEF c
<1>4. applyRegistered(s) = c
  BY DEF applyRegistered, a, b, c
<1>5. Apply(s, e) = applyRegistered(s)
  BY DEF Apply
<1> QED
  BY <1>3, <1>4, <1>5

LEMMA NewBalance ==
  ASSUME NEW s \in States, NEW e, e.type \in {"FundsDeposited", "FundsWithdrawn"},
         e.newBalance \in Int
  PROVE  /\ Apply(s, e) \in States
         /\ Apply(s, e).exists = s.exists /\ Apply(s, e).bankroll = e.newBalance
         /\ Apply(s, e).reserved = s.reserved /\ Apply(s, e).reservations = s.reservations
<1>1. Apply(s, e) = [s EXCEPT !.bankroll = e.newBalance]
  BY DEF Apply, applyDeposited, applyWithdrawn
<1> QED
  BY <1>1 DEF States

LEMMA NewReservation ==
  ASSUME NEW s \in States, NEW e, e.type = "FundsReserved",
         e.newReserved \in Int, e.amount \in Int
  PROVE  /\ Apply(s, e) \in States
         /\ Apply(s, e).exists = s.exists /\ Apply(s, e).bankroll = s.bankroll
         /\ Apply(s, e).reserved = e.newReserved
         /\ Apply(s, e).reservations =
              [t \in Tables |-> IF t = e.root THEN e.amount ELSE s.reservations[t]]
<1> DEFINE f == [t \in Tables |-> IF t = e.root THEN e.amount ELSE s.reservations[t]]
           r == [s EXCEPT !.reserved = e.newReserved, !.reservations = f]
<1>1. Apply(s, e) = r
  BY DEF Apply, applyReserved
<1>2. f \in [Tables -> Int]
  BY DEF States
<1> HIDE DEF f
<1>3. /\ r \in States /\ r.exists = s.exists /\ r.bankroll = s.bankroll
      /\ r.reserved = e.newReserved /\ r.reservations = f
  BY <1>2 DEF States
<1> HIDE DEF r
<1> QED
  BY <1>1, <1>3 DEF f

LEMMA NewRelease ==
  ASSUME NEW s \in States, NEW e, e.type = "FundsReleased", e.newReserved \in Int
  PROVE  /\ Apply(s, e) \in States
         /\ Apply(s, e).exists = s.exists /\ Apply(s, e).bankroll = s.bankroll
         /\ Apply(s, e).reserved = e.newReserved
         /\ Apply(s, e).reservations =
              [t \in Tables |-> IF t = e.root THEN 0 ELSE s.reservations[t]]
<1> DEFINE f == [t \in Tables |-> IF t = e.root THEN 0 ELSE s.reservations[t]]
           r == [s EXCEPT !.reserved = e.newReserved, !.reservations = f]
<1>1. Apply(s, e) = r
  BY DEF Apply, applyReleased
<1>2. f \in [Tables -> Int]
  BY DEF States
<1> HIDE DEF f
<1>3. /\ r \in States /\ r.exists = s.exists /\ r.bankroll = s.bankroll
      /\ r.reserved = e.newReserved /\ r.reservations = f
  BY <1>2 DEF States
<1> HIDE DEF r
<1> QED
  BY <1>1, <1>3 DEF f

LEMMA EventKinds ==
  ASSUME NEW e \in Events
  PROVE  \/ e.type = "PlayerRegistered"
         \/ e.type \in {"FundsDeposited", "FundsWithdrawn"} /\ e.newBalance \in Int
         \/ e.type = "FundsReserved" /\ e.newReserved \in Int /\ e.amount \in Int
         \/ e.type = "FundsReleased" /\ e.newReserved \in Int
BY DEF Events

(***************************************************************************)
(* The parts of a state that an event overwrites, or leaves as they are:   *)
(* the tables' reservations have the tables' numbers.                      *)
(***************************************************************************)
Existence == -2
Bankroll == -1
Reserved == 0
Parts == {Existence, Bankroll, Reserved} \cup Tables

SameIn(s, r, c) ==
  /\ c = Existence => s.exists = r.exists
  /\ c = Bankroll => s.bankroll = r.bankroll
  /\ c = Reserved => s.reserved = r.reserved
  /\ c \in Tables => s.reservations[c] = r.reservations[c]

Writes(e, c) ==
  \/ c = Existence /\ e.type = "PlayerRegistered"
  \/ c = Bankroll /\ e.type \in {"PlayerRegistered", "FundsDeposited", "FundsWithdrawn"}
  \/ c = Reserved /\ e.type \in {"PlayerRegistered", "FundsReserved", "FundsReleased"}
  \/ c \in Tables /\ e.type \in {"FundsReserved", "FundsReleased"} /\ e.root = c

LEMMA SameInAll ==
  ASSUME NEW s \in States, NEW r \in States, \A c \in Parts : SameIn(s, r, c)
  PROVE  s = r
<1>1. /\ s.exists = r.exists /\ s.bankroll = r.bankroll /\ s.reserved = r.reserved
      /\ \A t \in Tables : s.reservations[t] = r.reservations[t]
  BY DEF SameIn, Parts
<1>2. s.reservations = r.reservations
  BY <1>1 DEF States
<1> QED
  BY <1>1, <1>2 DEF States

LEMMA SameInBoth ==
  ASSUME NEW c
  PROVE  /\ \A s : SameIn(s, s, c)
         /\ \A s, r : SameIn(s, r, c) => SameIn(r, s, c)
         /\ \A s, r, q : SameIn(s, r, c) /\ SameIn(r, q, c) => SameIn(s, q, c)
<1>1. \A s : SameIn(s, s, c)
  BY Zenon DEF SameIn
<1>2. \A s, r : SameIn(s, r, c) => SameIn(r, s, c)
  BY Zenon DEF SameIn
<1>3. ASSUME NEW s, NEW r, NEW q, SameIn(s, r, c), SameIn(r, q, c) PROVE SameIn(s, q, c)
  <2>1. /\ c = Existence => s.exists = q.exists
        /\ c = Bankroll => s.bankroll = q.bankroll
    BY <1>3, Zenon DEF SameIn
  <2>2. /\ c = Reserved => s.reserved = q.reserved
        /\ c \in Tables => s.reservations[c] = q.reservations[c]
    BY <1>3, Zenon DEF SameIn
  <2> QED
    BY <2>1, <2>2, Zenon DEF SameIn
<1> QED
  BY <1>1, <1>2, <1>3

LEMMA ApplyIsState ==
  ASSUME NEW s \in States, NEW e \in Events
  PROVE  Apply(s, e) \in States
<1>1. CASE e.type = "PlayerRegistered"
  BY <1>1, Registration
<1>2. CASE e.type \in {"FundsDeposited", "FundsWithdrawn"} /\ e.newBalance \in Int
  BY <1>2, NewBalance
<1>3. CASE e.type = "FundsReserved" /\ e.newReserved \in Int /\ e.amount \in Int
  BY <1>3, NewReservation
<1>4. CASE e.type = "FundsReleased" /\ e.newReserved \in Int
  BY <1>4, NewRelease
<1> QED
  BY <1>1, <1>2, <1>3, <1>4, EventKinds

LEMMA PartsApart ==
  ASSUME NEW c \in Tables
  PROVE  c # Existence /\ c # Bankroll /\ c # Reserved
BY NTablesAssumption DEF Tables, Existence, Bankroll, Reserved

\* Both states get the new value in a part written, and keep the old one
\* elsewhere.
Sets(s, r, a, b, c) == SameIn(a, b, c)
Keeps(s, r, a, b, c) == SameIn(a, s, c) /\ SameIn(b, r, c)

LEMMA SetOrKept ==
  ASSUME NEW s \in States, NEW r \in States, NEW e \in Events, NEW c \in Parts
  PROVE  IF Writes(e, c) THEN Sets(s, r, Apply(s, e), Apply(r, e), c)
         ELSE Keeps(s, r, Apply(s, e), Apply(r, e), c)
<1>1. PICK a : a = Apply(s, e)
  OBVIOUS
<1>2. PICK b : b = Apply(r, e)
  OBVIOUS
<1>3. CASE e.type = "PlayerRegistered"
  <2>1. /\ a.exists = TRUE /\ a.bankroll = 0 /\ a.reserved = 0
        /\ a.reservations = s.reservations
        /\ b.exists = TRUE /\ b.bankroll = 0 /\ b.reserved = 0
        /\ b.reservations = r.reservations
    BY <1>1, <1>2, <1>3, Registration
  <2>2. Writes(e, c) <=> c \notin Tables
    BY <1>3, PartsApart DEF Writes, Parts
  <2>3. ASSUME c \in Tables PROVE Keeps(s, r, a, b, c)
    <3>1. c # Existence /\ c # Bankroll /\ c # Reserved
      BY <2>3, PartsApart
    <3>2. a.reservations[c] = s.reservations[c] /\ b.reservations[c] = r.reservations[c]
      BY <2>1
    <3> QED
      BY <3>1, <3>2 DEF SameIn, Keeps
  <2>4. ASSUME c \notin Tables PROVE Sets(s, r, a, b, c)
    <3>1. /\ a.exists = b.exists /\ a.bankroll = b.bankroll
          /\ a.reserved = b.reserved
      BY <2>1
    <3> QED
      BY <2>4, <3>1 DEF SameIn, Sets
  <2> QED
    BY <1>1, <1>2, <2>2, <2>3, <2>4
<1>4. CASE e.type \in {"FundsDeposited", "FundsWithdrawn"} /\ e.newBalance \in Int
  <2>1. /\ a.exists = s.exists /\ a.bankroll = e.newBalance /\ a.reserved = s.reserved
        /\ a.reservations = s.reservations
        /\ b.exists = r.exists /\ b.bankroll = e.newBalance /\ b.reserved = r.reserved
        /\ b.reservations = r.reservations
    BY <1>1, <1>2, <1>4, NewBalance
  <2>2. Writes(e, c) <=> c = Bankroll
    BY <1>4 DEF Writes
  <2>3. ASSUME c # Bankroll PROVE Keeps(s, r, a, b, c)
    <3>1. a.reservations[c] = s.reservations[c] /\ b.reservations[c] = r.reservations[c]
      BY <2>1
    <3> QED
      BY <2>1, <2>3, <3>1 DEF SameIn, Keeps
  <2>4. ASSUME c = Bankroll PROVE Sets(s, r, a, b, c)
    <3>1. c # Existence /\ c # Reserved /\ c \notin Tables
      BY <2>4, PartsApart DEF Existence, Bankroll, Reserved
    <3>2. a.bankroll = b.bankroll
      BY <2>1
    <3> QED
      BY <3>1, <3>2 DEF SameIn, Sets
  <2> QED
    BY <1>1, <1>2, <2>2, <2>3, <2>4
<1>5. ASSUME e.type \in {"FundsReserved", "FundsReleased"}, NEW n,
             /\ a.exists = s.exists /\ a.bankroll = s.bankroll /\ a.reserved = e.newReserved
             /\ a.reservations = [t \in Tables |-> IF t = e.root THEN n ELSE s.reservations[t]]
             /\ b.exists = r.exists /\ b.bankroll = r.bankroll /\ b.reserved = e.newReserved
             /\ b.reservations = [t \in Tables |-> IF t = e.root THEN n ELSE r.reservations[t]]
      PROVE  IF Writes(e, c) THEN Sets(s, r, a, b, c) ELSE Keeps(s, r, a, b, c)
  <2>1. CASE c = Existence \/ c = Bankroll
    <3>1. c # Reserved /\ c \notin Tables
      BY <2>1, PartsApart DEF Existence, Bankroll, Reserved
    <3>2. ~Writes(e, c)
      BY <1>5, <3>1 DEF Writes
    <3>3. Keeps(s, r, a, b, c)
      BY <1>5, <3>1, Zenon DEF SameIn, Keeps
    <3> QED
      BY <3>2, <3>3
  <2>2. CASE c = Reserved
    <3>1. c # Existence /\ c # Bankroll /\ c \notin Tables
      BY <2>2, PartsApart DEF Existence, Bankroll, Reserved
    <3>2. Writes(e, c)
      BY <1>5, <2>2 DEF Writes
    <3>3. Sets(s, r, a, b, c)
      BY <1>5, <3>1, Zenon DEF SameIn, Sets
    <3> QED
      BY <3>2, <3>3
  <2>3. CASE c \in Tables
    <3>1. c # Existence /\ c # Bankroll /\ c # Reserved
      BY <2>3, PartsApart
    <3>2. Writes(e, c) <=> e.root = c
      BY <1>5, <2>3, <3>1 DEF Writes
    <3>3. /\ a.reservations[c] = IF c = e.root THEN n ELSE s.reservations[c]
          /\ b.reservations[c] = IF c = e.root THEN n ELSE r.reservations[c]
      BY <1>5, <2>3
    <3>4. CASE e.root = c
      <4>1. a.reservations[c] = b.reservations[c]
        BY <3>3, <3>4
      <4> QED
        BY <3>1, <3>2, <3>4, <4>1 DEF SameIn, Sets
    <3>5. CASE e.root # c
      <4>1. a.reservations[c] = s.reservations[c] /\ b.reservations[c] = r.reservations[c]
        BY <3>3, <3>5
      <4> QED
        BY <3>1, <3>2, <3>5, <4>1 DEF SameIn, Keeps
    <3> QED
      BY <3>4, <3>5
  <2> QED
    BY <2>1, <2>2, <2>3 DEF Parts
<1>6. CASE e.type = "FundsReserved" /\ e.newReserved \in Int /\ e.amount \in Int
  <2>1. /\ a.exists = s.exists /\ a.bankroll = s.bankroll /\ a.reserved = e.newReserved
        /\ a.reservations =
             [t \in Tables |-> IF t = e.root THEN e.amount ELSE s.reservations[t]]
    BY <1>1, <1>6, NewReservation
  <2>2. /\ b.exists = r.exists /\ b.bankroll = r.bankroll /\ b.reserved = e.newReserved
        /\ b.reservations =
             [t \in Tables |-> IF t = e.root THEN e.amount ELSE r.reservations[t]]
    BY <1>2, <1>6, NewReservation
  <2>3. e.type \in {"FundsReserved", "FundsReleased"}
    BY <1>6
  <2> QED
    BY <1>1, <1>2, <1>5, <2>1, <2>2, <2>3, Zenon
<1>7. CASE e.type = "FundsReleased" /\ e.newReserved \in Int
  <2>1. /\ a.exists = s.exists /\ a.bankroll = s.bankroll /\ a.reserved = e.newReserved
        /\ a.reservations =
             [t \in Tables |-> IF t = e.root THEN 0 ELSE s.reservations[t]]
    BY <1>1, <1>7, NewRelease
  <2>2. /\ b.exists = r.exists /\ b.bankroll = r.bankroll /\ b.reserved = e.newReserved
        /\ b.reservations =
             [t \in Tables |-> IF t = e.root THEN 0 ELSE r.reservations[t]]
    BY <1>2, <1>7, NewRelease
  <2>3. e.type \in {"FundsReserved", "FundsReleased"}
    BY <1>7
  <2> QED
    BY <1>1, <1>2, <1>5, <2>1, <2>2, <2>3, Zenon
<1> QED
  BY <1>3, <1>4, <1>6, <1>7, EventKinds

LEMMA Overwrites ==
  ASSUME NEW s \in States, NEW r \in States, NEW e \in Events, NEW c \in Parts
  PROVE  /\ Writes(e, c) \/ SameIn(s, r, c) => SameIn(Apply(s, e), Apply(r, e), c)
         /\ ~Writes(e, c) => SameIn(Apply(s, e), s, c)
<1>1. PICK a : a = Apply(s, e)
  OBVIOUS
<1>2. PICK b : b = Apply(r, e)
  OBVIOUS
<1>3. IF Writes(e, c) THEN SameIn(a, b, c) ELSE SameIn(a, s, c) /\ SameIn(b, r, c)
  BY <1>1, <1>2, SetOrKept DEF Sets, Keeps
<1>4. SameIn(s, r, c) /\ SameIn(a, s, c) /\ SameIn(b, r, c) => SameIn(a, b, c)
  <2>1. /\ SameIn(b, r, c) => SameIn(r, b, c)
        /\ SameIn(a, s, c) /\ SameIn(s, r, c) => SameIn(a, r, c)
        /\ SameIn(a, r, c) /\ SameIn(r, b, c) => SameIn(a, b, c)
    BY SameInBoth, Zenon
  <2> QED
    BY <2>1
<1> QED
  BY <1>1, <1>2, <1>3, <1>4

(***************************************************************************)
(* Replaying events that a state contains already                          *)
(***************************************************************************)
LEMMA ReplayTyped ==
  ASSUME NEW L \in Seq(Events), NEW base \in States, NEW n \in Nat, NEW m \in n..Len(L)
  PROVE  Replay(L, base, n, m) \in States
<1> DEFINE S == {k \in n..m : Replay(L, base, n, k) \in States}
<1>1. Len(L) \in Nat /\ m \in Nat /\ n \in n..Len(L)
  OBVIOUS
<1>2. n \in S
  <2>1. Replay(L, base, n, n) = base
    BY <1>1, ReplayNone
  <2> QED
    BY <1>1, <2>1
<1>3. ASSUME NEW k \in n..m, k # n, k - 1 \in S
      PROVE  k \in S
  <2>1. k \in n..Len(L) /\ k \in 1..Len(L)
    BY <1>1, <1>3
  <2>2. Replay(L, base, n, k) = Apply(Replay(L, base, n, k - 1), L[k])
    BY <1>1, <1>3, <2>1, ReplayStep
  <2>3. L[k] \in Events
    BY <2>1
  <2>4. Replay(L, base, n, k - 1) \in States
    BY <1>3
  <2>5. Apply(Replay(L, base, n, k - 1), L[k]) \in States
    BY <2>3, <2>4, ApplyIsState
  <2> QED
    BY <1>3, <2>2, <2>5
<1>4. \A k \in n..m : k \in S
  <2> HIDE DEF S
  <2> QED
    BY <1>1, <1>2, <1>3, Reaches
<1>5. m \in S
  BY <1>1, <1>4
<1> QED
  BY <1>5

\* None of the events from + 1 .. k writes part c.
Quiet(L, from, k, c) == \A i \in (from + 1)..k : ~Writes(L[i], c)

LEMMA QuietLess ==
  ASSUME NEW L, NEW from \in Nat, NEW k \in Nat, NEW c, Quiet(L, from, k, c), k # from, from <= k
  PROVE  Quiet(L, from, k - 1, c) /\ ~Writes(L[k], c)
BY DEF Quiet

LEMMA QuietMore ==
  ASSUME NEW L, NEW from \in Nat, NEW k \in Nat, NEW c, k # from, from <= k,
         Quiet(L, from, k - 1, c), ~Writes(L[k], c)
  PROVE  Quiet(L, from, k, c)
BY DEF Quiet

\* A part that nothing wrote is as it was.
LEMMA QuietKeeps ==
  ASSUME NEW L \in Seq(Events), NEW c \in Parts, NEW n \in Nat, NEW m \in n..Len(L),
         NEW from \in 0..n, Quiet(L, from, m, c)
  PROVE  SameIn(Replay(L, NewPlayerState, 0, m), Replay(L, NewPlayerState, 0, n), c)
<1> DEFINE St(k) == Replay(L, NewPlayerState, 0, k)
           S == {k \in n..m : SameIn(St(k), St(n), c)}
<1>1. Len(L) \in Nat /\ m \in Nat /\ n \in n..Len(L)
  OBVIOUS
<1>2. n \in S
  BY <1>1, SameInBoth
<1>3. ASSUME NEW k \in n..m, k # n, k - 1 \in S
      PROVE  k \in S
  <2>1. k \in 0..Len(L) /\ k \in 1..Len(L) /\ k - 1 \in 0..Len(L) /\ k # 0 /\ k \in (from + 1)..m
    BY <1>1, <1>3
  <2>2. St(k) = Apply(St(k - 1), L[k])
    BY <1>1, <2>1, ReplayStep
  <2>3. L[k] \in Events
    BY <2>1
  <2>4. St(k - 1) \in States
    BY <2>1, NewIsState, ReplayTyped
  <2>5. ~Writes(L[k], c)
    BY <2>1 DEF Quiet
  <2>6. SameIn(St(k - 1), St(n), c)
    BY <1>3
  <2> HIDE DEF St
  <2>7. SameIn(Apply(St(k - 1), L[k]), St(k - 1), c)
    BY <2>3, <2>4, <2>5, Overwrites
  <2>8. SameIn(St(k), St(k - 1), c)
    BY ONLY <2>2, <2>7, Zenon
  <2>9. SameIn(St(k), St(n), c)
    BY <2>6, <2>8, SameInBoth
  <2> QED
    BY <1>3, <2>9
<1>4. \A k \in n..m : k \in S
  <2> HIDE DEF S
  <2> QED
    BY <1>1, <1>2, <1>3, Reaches
<1>5. m \in S
  BY <1>1, <1>4
<1> QED
  BY <1>5

(***************************************************************************)
(* Replaying the end of a log on a state that contains it already: a part  *)
(* that one of these events writes has the log's value from that event on, *)
(* and a part that none writes never left the value it has in the end.     *)
(***************************************************************************)
LEMMA ReplayedPart ==
  ASSUME NEW L \in Seq(Events), NEW c \in Parts,
         NEW seen \in 0..Len(L), NEW from \in 0..seen
  PROVE  SameIn(Replay(L, Replay(L, NewPlayerState, 0, seen), from, Len(L)),
                Replay(L, NewPlayerState, 0, Len(L)), c)
<1> DEFINE St(k) == Replay(L, NewPlayerState, 0, k)
           X(k) == Replay(L, St(seen), from, k)
           Done(k) == SameIn(X(k), St(k), c)
           Behind(k) == SameIn(X(k), St(seen), c) /\ Quiet(L, from, k, c)
           S == {k \in from..Len(L) : Done(k) \/ Behind(k)}
<1>1. Len(L) \in Nat /\ from \in Nat /\ from \in from..Len(L) /\ seen \in 0..Len(L)
  OBVIOUS
<1>2. from \in S
  <2>1. X(from) = St(seen)
    BY <1>1, ReplayNone
  <2>2. SameIn(X(from), St(seen), c)
    BY <2>1, SameInBoth
  <2>3. Quiet(L, from, from, c)
    BY <1>1 DEF Quiet
  <2> QED
    BY <1>1, <2>2, <2>3
<1>3. ASSUME NEW k \in from..Len(L), k # from, k - 1 \in S
      PROVE  k \in S
  <2>1. /\ k \in 0..Len(L) /\ k \in 1..Len(L) /\ k - 1 \in 0..Len(L) /\ k # 0
        /\ k - 1 \in from..Len(L) /\ k \in Nat /\ from <= k
    BY <1>1, <1>3
  <2>2. St(k) = Apply(St(k - 1), L[k])
    BY <1>1, <2>1, ReplayStep
  <2>3. X(k) = Apply(X(k - 1), L[k])
    BY <1>1, <1>3, ReplayStep
  <2>4. L[k] \in Events
    BY <2>1
  <2>5. St(k - 1) \in States
    BY <2>1, NewIsState, ReplayTyped
  <2>6. X(k - 1) \in States
    <3>1. St(seen) \in States
      BY <1>1, NewIsState, ReplayTyped
    <3> HIDE DEF St
    <3> QED
      BY <1>1, <2>1, <3>1, ReplayTyped
  <2>7. Done(k - 1) \/ Behind(k - 1)
    BY <1>3
  <2>8. SameIn(X(k), X(k - 1), c) \/ Writes(L[k], c)
    <3> HIDE DEF St, X
    <3>1. Writes(L[k], c) \/ SameIn(Apply(X(k - 1), L[k]), X(k - 1), c)
      BY <2>4, <2>6, Overwrites
    <3> QED
      BY ONLY <2>3, <3>1, Zenon
  <2>9. Done(k - 1) \/ Writes(L[k], c) => Done(k)
    <3> HIDE DEF St, X
    <3>1. Done(k - 1) \/ Writes(L[k], c) => SameIn(Apply(X(k - 1), L[k]), Apply(St(k - 1), L[k]), c)
      BY <2>4, <2>5, <2>6, Overwrites
    <3> QED
      BY ONLY <2>2, <2>3, <3>1, Zenon
  <2>10. ASSUME Behind(k - 1), ~Writes(L[k], c)
         PROVE  Behind(k)
    <3>1. Quiet(L, from, k, c)
      BY <1>1, <1>3, <2>1, <2>10, QuietMore
    <3>2. SameIn(X(k), X(k - 1), c) /\ SameIn(X(k - 1), St(seen), c)
      BY <2>8, <2>10
    <3> HIDE DEF St, X
    <3> QED
      BY <3>1, <3>2, SameInBoth
  <2>11. Done(k) \/ Behind(k)
    <3> HIDE DEF Done, Behind
    <3> QED
      BY <2>7, <2>9, <2>10
  <2> QED
    BY <1>3, <2>11
<1>4. \A k \in from..Len(L) : k \in S
  <2> HIDE DEF S
  <2> QED
    BY <1>1, <1>2, <1>3, Reaches
<1>5. Done(Len(L)) \/ Behind(Len(L))
  <2>1. Len(L) \in S
    BY <1>1, <1>4
  <2> HIDE DEF Done, Behind
  <2> QED
    BY <2>1
<1>6. ASSUME Behind(Len(L)) PROVE Done(Len(L))
  <2>1. Len(L) \in seen..Len(L) /\ seen \in Nat
    BY <1>1
  <2>2. SameIn(St(Len(L)), St(seen), c)
    BY <1>6, <2>1, QuietKeeps
  <2>3. SameIn(X(Len(L)), St(seen), c)
    BY <1>6
  <2> HIDE DEF St, X
  <2> QED
    BY <2>2, <2>3, SameInBoth
<1>7. Done(Len(L))
  <2> HIDE DEF Done, Behind
  <2> QED
    BY <1>5, <1>6
<1> QED
  BY <1>7

LEMMA ReplayAgain ==
  ASSUME NEW L \in Seq(Events), NEW seen \in 0..Len(L), NEW from \in 0..seen
  PROVE  Replay(L, Replay(L, NewPlayerState, 0, seen), from, Len(L))
           = Replay(L, NewPlayerState, 0, Len(L))
<1>1. /\ Len(L) \in Nat /\ from \in Nat /\ Len(L) \in 0..Len(L)
      /\ Len(L) \in from..Len(L)
  OBVIOUS
<1>2. Replay(L, NewPlayerState, 0, seen) \in States
  BY <1>1, NewIsState, ReplayTyped
<1>3. Replay(L, NewPlayerState, 0, Len(L)) \in States
  BY <1>1, NewIsState, ReplayTyped
<1>4. Replay(L, Replay(L, NewPlayerState, 0, seen), from, Len(L)) \in States
  BY <1>1, <1>2, ReplayTyped
<1> QED
  BY <1>3, <1>4, ReplayedPart, SameInAll

--------------------------------------------------------------------------------
(***************************************************************************)
(* Handling                                                                *)
(***************************************************************************)
LEMMA WrapIsInt == \A x \in Int : Wrap(x) \in Int
BY MaxIntAssumption DEF Wrap

\* The ways of Player to move from s to r.
Decision(s, r) ==
  \/ CanRegister(s) /\ r = Apply(s, PlayerRegistered)
  \/ \E amount \in Amounts : /\ CanDeposit(s, amount)
                             /\ s.bankroll + amount <= ChipSupply
                             /\ r = Apply(s, FundsDeposited(s, amount))
  \/ \E amount \in Amounts : /\ CanWithdraw(s, amount)
                             /\ r = Apply(s, FundsWithdrawn(s, amount))
  \/ \E root \in CommandRoots, amount \in Amounts :
       CanReserve(s, root, amount) /\ r = Apply(s, FundsReserved(s, root, amount))
  \/ \E root \in CommandRoots :
       CanRelease(s, root) /\ r = Apply(s, FundsReleased(s, root))
  \/ \E root \in CommandRoots : r = Apply(s, FundsReleased(s, root))

\* At most one event, which takes a player in state s a step of Player on.
Decides(s, events) ==
  /\ events \subseteq Events
  /\ \A e, f \in events : e = f
  /\ \A e \in events : Decision(s, Apply(s, e))

LEMMA OneEvent ==
  ASSUME NEW s, NEW accepted, NEW event, event \in Events,
         accepted => Decision(s, Apply(s, event))
  PROVE  Decides(s, EmitIf(accepted, event))
BY DEF EmitIf, Decides

LEMMA CommandKinds ==
  ASSUME NEW cmd \in Commands
  PROVE  \/ cmd.type = "RegisterPlayer"
         \/ cmd.type = "DepositFunds" /\ cmd.amount \in Amounts
         \/ cmd.type = "WithdrawFunds" /\ cmd.amount \in Amounts
         \/ cmd.type = "ReserveFunds" /\ cmd.root \in CommandRoots /\ cmd.amount \in Amounts
         \/ cmd.type = "ReleaseFunds" /\ cmd.root \in CommandRoots
         \/ cmd.type = "JoinTableRejected" /\ cmd.root \in CommandRoots
BY DEF Commands

LEMMA MovesAreEvents ==
  ASSUME NEW s \in States, NEW amount \in Amounts
  PROVE  FundsDeposited(s, amount) \in Events /\ FundsWithdrawn(s, amount) \in Events
<1>1. amount \in Int /\ s.bankroll \in Int
  BY LogBoundsAssumption, MaxIntAssumption DEF Int64, States
<1>2. s.bankroll + amount \in Int /\ s.bankroll - amount \in Int
  BY <1>1
<1>3. Wrap(s.bankroll + amount) \in Int /\ Wrap(s.bankroll - amount) \in Int
  BY <1>2, WrapIsInt
<1> QED
  BY <1>3 DEF FundsDeposited, FundsWithdrawn, Events

LEMMA ReservationsAreEvents ==
  ASSUME NEW s \in States, NEW root \in CommandRoots
  PROVE  /\ \A amount \in Amounts : FundsReserved(s, root, amount) \in Events
         /\ FundsReleased(s, root) \in Events
<1>1. s.reserved \in Int /\ Reservation(s, root) \in Int /\ Amounts \subseteq Int
  BY LogBoundsAssumption, MaxIntAssumption DEF Int64, States, Reservation
<1>2. s.reserved - Reservation(s, root) \in Int
  BY <1>1
<1>3. Wrap(s.reserved - Reservation(s, root)) \in Int
  BY <1>2, WrapIsInt
<1>4. ASSUME NEW amount \in Amounts
      PROVE  FundsReserved(s, root, amount) \in Events
  <2>1. s.reserved + amount \in Int /\ amount \in Int
    BY <1>1
  <2>2. Wrap(s.reserved + amount) \in Int
    BY <2>1, WrapIsInt
  <2> QED
    BY <2>1, <2>2 DEF FundsReserved, Events
<1>5. FundsReleased(s, root) \in Events
  BY <1>3 DEF FundsReleased, Events
<1> QED
  BY <1>4, <1>5

LEMMA HandleDecides ==
  ASSUME NEW s \in States, NEW cmd \in Commands
  PROVE  Decides(s, Handle(s, cmd))
<1>1. CASE cmd.type = "RegisterPlayer"
  <2>1. Handle(s, cmd) = EmitIf(CanRegister(s), PlayerRegistered)
    BY <1>1 DEF Handle
  <2>2. PlayerRegistered \in Events
    BY DEF PlayerRegistered, Events
  <2>3. CanRegister(s) => Decision(s, Apply(s, PlayerRegistered))
    BY DEF Decision
  <2> QED
    BY <2>1, <2>2, <2>3, OneEvent
<1>2. CASE cmd.type = "DepositFunds" /\ cmd.amount \in Amounts
  <2> DEFINE ok == CanDeposit(s, cmd.amount) /\ s.bankroll + cmd.amount <= ChipSupply
             event == FundsDeposited(s, cmd.amount)
  <2>1. Handle(s, cmd) = EmitIf(ok, event)
    BY <1>2 DEF Handle
  <2>2. event \in Events
    BY <1>2, MovesAreEvents
  <2>3. ok => Decision(s, Apply(s, event))
    BY <1>2, Zenon DEF Decision
  <2> HIDE DEF ok, event
  <2> QED
    BY <2>1, <2>2, <2>3, OneEvent
<1>3. CASE cmd.type = "WithdrawFunds" /\ cmd.amount \in Amounts
  <2> DEFINE ok == CanWithdraw(s, cmd.amount)
             event == FundsWithdrawn(s, cmd.amount)
  <2>1. Handle(s, cmd) = EmitIf(ok, event)
    BY <1>3 DEF Handle
  <2>2. event \in Events
    BY <1>3, MovesAreEvents
  <2>3. ok => Decision(s, Apply(s, event))
    BY <1>3, Zenon DEF Decision
  <2> HIDE DEF ok, event
  <2> QED
    BY <2>1, <2>2, <2>3, OneEvent
<1>4. CASE /\ cmd.type = "ReserveFunds"
           /\ cmd.root \in CommandRoots /\ cmd.amount \in Amounts
  <2> DEFINE ok == CanReserve(s, cmd.root, cmd.amount)
             event == FundsReserved(s, cmd.root, cmd.amount)
  <2>1. Handle(s, cmd) = EmitIf(ok, event)
    BY <1>4 DEF Handle
  <2>2. event \in Events
    BY <1>4, ReservationsAreEvents
  <2>3. ok => Decision(s, Apply(s, event))
    BY <1>4, Zenon DEF Decision
  <2> HIDE DEF ok, event
  <2> QED
    BY <2>1, <2>2, <2>3, OneEvent
<1>5. CASE cmd.type = "ReleaseFunds" /\ cmd.root \in CommandRoots
  <2> DEFINE ok == CanRelease(s, cmd.root)
             event == FundsReleased(s, cmd.root)
  <2>1. Handle(s, cmd) = EmitIf(ok, event)
    BY <1>5 DEF Handle
  <2>2. event \in Events
    BY <1>5, ReservationsAreEvents
  <2>3. ok => Decision(s, Apply(s, event))
    BY <1>5, Zenon DEF Decision
  <2> HIDE DEF ok, event
  <2> QED
    BY <2>1, <2>2, <2>3, OneEvent
<1>6. CASE cmd.type = "JoinTableRejected" /\ cmd.root \in CommandRoots
  <2> DEFINE event == FundsReleased(s, cmd.root)
  <2>1. Handle(s, cmd) = EmitIf(TRUE, event)
    BY <1>6 DEF Handle, EmitIf
  <2>2. event \in Events
    BY <1>6, ReservationsAreEvents
  <2>3. TRUE => Decision(s, Apply(s, event))
    BY <1>6, Zenon DEF Decision
  <2> HIDE DEF event
  <2> QED
    BY <2>1, <2>2, <2>3, OneEvent
<1> QED
  BY <1>1, <1>2, <1>3, <1>4, <1>5, <1>6, CommandKinds

--------------------------------------------------------------------------------
(***************************************************************************)
(* The inductive invariant: the snapshot is the state after the events it  *)
(* counts, and the event a worker holds was decided in the state of the    *)
(* log that it saw.                                                        *)
(***************************************************************************)
StateAt(L, n) == Replay(L, NewPlayerState, 0, n)

Decided(L, j) ==
  \/ j = Idle
  \/ /\ j.next \in 0..Len(L)
     /\ j.events # {}
     /\ Decides(StateAt(L, j.next), j.events)

SnapshotOK(L, snap) ==
  /\ snap \in [state : States, next : Nat]
  /\ snap.next \in 0..Len(L)
  /\ snap.state = StateAt(L, snap.next)

Jobs == [events : SUBSET Events, next : Nat]

LogInv ==
  /\ log \in Seq(Events) /\ Len(log) <= MaxEvents
  /\ SnapshotOK(log, snapshot)
  /\ job \in [Workers -> Jobs]
  /\ \A w \in Workers : Decided(log, job[w])

LEMMA StateAtIsState ==
  ASSUME NEW L \in Seq(Events), NEW n \in 0..Len(L)
  PROVE  StateAt(L, n) \in States
<1>1. n \in Nat /\ 0 \in Nat /\ n \in 0..Len(L)
  OBVIOUS
<1> QED
  BY <1>1, NewIsState, ReplayTyped DEF StateAt

LEMMA CurrentIsStateAt ==
  ASSUME log \in Seq(Events)
  PROVE  CurrentState = StateAt(log, Len(log))
BY ReplayAll DEF CurrentState, StateAt

\* An event appended leaves the states that the log had, and adds one.
LEMMA Grown ==
  ASSUME NEW L \in Seq(Events), NEW e \in Events
  PROVE  /\ Append(L, e) \in Seq(Events) /\ Len(Append(L, e)) = Len(L) + 1
         /\ \A n \in 0..Len(L) : StateAt(Append(L, e), n) = StateAt(L, n)
         /\ RebuildState(NewPlayerState, Append(L, e)) = Apply(StateAt(L, Len(L)), e)
<1>1. PICK M : M = Append(L, e)
  OBVIOUS
<1>2. /\ M \in Seq(Events) /\ Len(M) = Len(L) + 1 /\ Len(L) \in Nat
      /\ \A i \in 1..Len(L) : M[i] = L[i]
      /\ M[Len(L) + 1] = e
  BY <1>1
<1>3. ASSUME NEW n \in 0..Len(L)
      PROVE  StateAt(M, n) = StateAt(L, n)
  <2>1. Len(L) <= Len(M) /\ 0 \in Nat
    BY <1>2
  <2> QED
    BY <1>2, <2>1, ReplayAgrees DEF StateAt
<1>4. RebuildState(NewPlayerState, M) = StateAt(M, Len(M))
  BY <1>2, ReplayAll DEF StateAt
<1>5. StateAt(M, Len(M)) = Apply(StateAt(M, Len(M) - 1), M[Len(M)])
  <2>1. Len(M) \in 0..Len(M) /\ Len(M) # 0 /\ 0 \in Nat
    BY <1>2
  <2> QED
    BY <1>2, <2>1, ReplayStep DEF StateAt
<1>6. Len(M) - 1 = Len(L) /\ M[Len(M)] = e /\ Len(L) \in 0..Len(L)
  BY <1>2
<1>7. StateAt(M, Len(L)) = StateAt(L, Len(L))
  BY <1>3, <1>6
<1>8. RebuildState(NewPlayerState, M) = Apply(StateAt(L, Len(L)), e)
  BY ONLY <1>4, <1>5, <1>6, <1>7, Zenon
<1> QED
  BY <1>1, <1>2, <1>3, <1>8

\* Whichever pages a worker is given on top of the snapshot, it decides in
\* the state of the log.
LEMMA RebuiltIsCurrent ==
  ASSUME NEW L \in Seq(Events), NEW snap, SnapshotOK(L, snap), NEW from \in 0..snap.next
  PROVE  RebuildState(applySnapshot(snap.state), SubSeq(L, from + 1, Len(L)))
           = StateAt(L, Len(L))
<1>1. snap.next \in 0..Len(L) /\ snap.state = Replay(L, NewPlayerState, 0, snap.next)
  BY DEF SnapshotOK, StateAt
<1>2. RebuildState(applySnapshot(snap.state), SubSeq(L, from + 1, Len(L)))
        = Replay(L, Replay(L, NewPlayerState, 0, snap.next), from, Len(L))
  BY <1>1, Zenon DEF applySnapshot, Replay
<1>3. Replay(L, Replay(L, NewPlayerState, 0, snap.next), from, Len(L))
        = Replay(L, NewPlayerState, 0, Len(L))
  BY <1>1, ReplayAgain
<1> QED
  BY <1>2, <1>3 DEF StateAt

LEMMA LogInvInit ==
  ASSUME Init
  PROVE  LogInv
<1>1. log = <<>> /\ snapshot = [state |-> NewPlayerState, next |-> 0]
      /\ job = [w \in Workers |-> Idle]
  BY DEF Init
<1>2. log \in Seq(Events) /\ Len(log) = 0 /\ 0 \in 0..Len(log)
  BY <1>1
<1>3. StateAt(log, 0) = NewPlayerState
  BY <1>2, ReplayNone DEF StateAt
<1>4. SnapshotOK(log, snapshot)
  BY <1>1, <1>2, <1>3, NewIsState DEF SnapshotOK
<1>5. Idle \in Jobs
  BY DEF Idle, Jobs
<1>6. job \in [Workers -> Jobs] /\ \A w \in Workers : Decided(log, job[w])
  BY <1>1, <1>5 DEF Decided
<1> QED
  BY <1>2, <1>4, <1>6, LogBoundsAssumption DEF LogInv

LEMMA RunKeeps ==
  ASSUME LogInv, NEW w \in Workers, NEW cmd \in Commands,
         NEW from \in 0..snapshot.next, Run(w, cmd, from)
  PROVE  LogInv'
<1>1. log' = log /\ snapshot' = snapshot
  BY DEF Run
<1>2. PICK j : j = [events |-> Handle(StateAt(log, Len(log)), cmd), next |-> Len(log)]
  OBVIOUS
<1>3. log \in Seq(Events) /\ SnapshotOK(log, snapshot) /\ job \in [Workers -> Jobs]
  BY DEF LogInv
<1>4. RebuildState(applySnapshot(snapshot.state), Pages(from)) = StateAt(log, Len(log))
  BY <1>3, RebuiltIsCurrent DEF Pages
<1>5. job' = [job EXCEPT ![w] = j] /\ j.events # {}
  <2>1. /\ Handle(StateAt(log, Len(log)), cmd) # {}
        /\ job' = [job EXCEPT ![w] = [events |-> Handle(StateAt(log, Len(log)), cmd),
                                      next |-> Len(log)]]
    BY <1>4, Zenon DEF Run
  <2> QED
    BY <1>2, <2>1
<1>6. /\ j.events = Handle(StateAt(log, Len(log)), cmd) /\ j.next = Len(log)
      /\ Len(log) \in Nat /\ Len(log) \in 0..Len(log)
  BY <1>2, <1>3
<1>7. Decides(StateAt(log, Len(log)), j.events)
  BY <1>3, <1>6, StateAtIsState, HandleDecides
<1>8. Decided(log, j) /\ j \in Jobs
  <2>1. Decides(StateAt(log, j.next), j.events)
    BY ONLY <1>6, <1>7, Zenon
  <2>2. j.events \in SUBSET Events
    BY <1>7 DEF Decides
  <2> QED
    BY <1>2, <1>5, <1>6, <2>1, <2>2 DEF Decided, Jobs
<1>9. job' \in [Workers -> Jobs] /\ \A v \in Workers : Decided(log, job'[v])
  BY <1>3, <1>5, <1>8 DEF LogInv
<1> QED
  BY <1>1, <1>9 DEF LogInv

LEMMA PersistKeeps ==
  ASSUME LogInv, NEW w \in Workers, Persist(w)
  PROVE  LogInv' /\ Decision(CurrentState, CurrentState')
<1>1. /\ log \in Seq(Events) /\ SnapshotOK(log, snapshot) /\ job \in [Workers -> Jobs]
      /\ \A v \in Workers : Decided(log, job[v])
      /\ Len(log) \in Nat
  BY DEF LogInv
<1>2. PICK e \in job[w].events : log' = Append(log, e)
  BY DEF Persist
<1>3. /\ job' = [job EXCEPT ![w] = Idle] /\ snapshot' = snapshot
      /\ job[w] # Idle /\ job[w].next = Len(log) /\ Len(log) < MaxEvents
  BY DEF Persist
<1>4. Decides(StateAt(log, Len(log)), job[w].events)
  <2>1. Decides(StateAt(log, job[w].next), job[w].events)
    BY <1>1, <1>3 DEF Decided
  <2> QED
    BY ONLY <1>3, <2>1, Zenon
<1>5. e \in Events /\ Decision(StateAt(log, Len(log)), Apply(StateAt(log, Len(log)), e))
  BY <1>2, <1>4 DEF Decides
<1>6. /\ log' \in Seq(Events) /\ Len(log') = Len(log) + 1
      /\ \A n \in 0..Len(log) : StateAt(log', n) = StateAt(log, n)
      /\ RebuildState(NewPlayerState, log') = Apply(StateAt(log, Len(log)), e)
  BY <1>1, <1>2, <1>5, Grown
<1>7. Len(log') <= MaxEvents
  BY <1>1, <1>3, <1>6, LogBoundsAssumption
<1>8. SnapshotOK(log', snapshot')
  <2>1. snapshot.next \in 0..Len(log) /\ snapshot.next \in 0..Len(log')
    BY <1>1, <1>6 DEF SnapshotOK
  <2>2. StateAt(log', snapshot.next) = StateAt(log, snapshot.next)
    BY <1>6, <2>1
  <2> QED
    BY <1>1, <1>3, <2>1, <2>2 DEF SnapshotOK
<1>9. job' \in [Workers -> Jobs]
  <2>1. Idle \in Jobs
    BY DEF Idle, Jobs
  <2> QED
    BY <1>1, <1>3, <2>1
<1>10. ASSUME NEW v \in Workers
       PROVE  Decided(log', job'[v])
  <2>1. CASE v = w
    BY <1>1, <1>3, <2>1 DEF Decided
  <2>2. CASE v # w
    <3>1. job'[v] = job[v] /\ Decided(log, job[v])
      BY <1>1, <1>3, <2>2
    <3>2. CASE job[v] = Idle
      BY <3>1, <3>2 DEF Decided
    <3>3. CASE job[v] # Idle
      <4>1. /\ job[v].next \in 0..Len(log) /\ job[v].events # {}
            /\ Decides(StateAt(log, job[v].next), job[v].events)
        BY <3>1, <3>3 DEF Decided
      <4>2. job[v].next \in 0..Len(log')
        BY <1>1, <1>6, <4>1
      <4>3. StateAt(log', job[v].next) = StateAt(log, job[v].next)
        BY <1>6, <4>1
      <4>4. Decides(StateAt(log', job[v].next), job[v].events)
        BY ONLY <4>1, <4>3, Zenon
      <4> QED
        BY <3>1, <4>1, <4>2, <4>4, Zenon DEF Decided
    <3> QED
      BY <3>2, <3>3
  <2> QED
    BY <2>1, <2>2
<1>11. Decision(CurrentState, CurrentState')
  <2>1. CurrentState = StateAt(log, Len(log))
    BY <1>1, CurrentIsStateAt
  <2>2. CurrentState' = RebuildState(NewPlayerState, log')
    BY DEF CurrentState
  <2> QED
    BY ONLY <1>5, <1>6, <2>1, <2>2, Zenon
<1> QED
  BY <1>6, <1>7, <1>8, <1>9, <1>10, <1>11 DEF LogInv

LEMMA LoseKeeps ==
  ASSUME LogInv, NEW w \in Workers, Lose(w)
  PROVE  LogInv'
<1>1. log' = log /\ snapshot' = snapshot /\ job' = [job EXCEPT ![w] = Idle]
  BY DEF Lose
<1>2. Idle \in Jobs /\ Decided(log, Idle)
  BY DEF Idle, Jobs, Decided
<1>3. job' \in [Workers -> Jobs] /\ \A v \in Workers : Decided(log, job'[v])
  BY <1>1, <1>2 DEF LogInv
<1> QED
  BY <1>1, <1>3 DEF LogInv

LEMMA TakeSnapshotKeeps ==
  ASSUME LogInv, TakeSnapshot
  PROVE  LogInv'
<1>1. /\ log' = log /\ job' = job
      /\ snapshot' = [state |-> CurrentState, next |-> Len(log)]
  BY DEF TakeSnapshot
<1>2. log \in Seq(Events) /\ Len(log) \in Nat /\ Len(log) \in 0..Len(log)
  BY DEF LogInv
<1>3. CurrentState = StateAt(log, Len(log)) /\ CurrentState \in States
  BY <1>2, CurrentIsStateAt, StateAtIsState
<1>4. SnapshotOK(log, snapshot')
  BY <1>1, <1>2, <1>3 DEF SnapshotOK
<1> QED
  BY <1>1, <1>4 DEF LogInv

LEMMA NextKeeps ==
  ASSUME LogInv, [Next]_vars
  PROVE  LogInv' /\ (Decision(CurrentState, CurrentState') \/ CurrentState' = CurrentState)
<1>1. CASE Next
  <2>1. ASSUME NEW w \in Workers, NEW cmd \in Commands,
               NEW from \in 0..snapshot.next, Run(w, cmd, from)
        PROVE  LogInv' /\ CurrentState' = CurrentState
    BY <2>1, RunKeeps DEF Run, CurrentState
  <2>2. ASSUME NEW w \in Workers, Persist(w)
        PROVE  LogInv' /\ Decision(CurrentState, CurrentState')
    BY <2>2, PersistKeeps
  <2>3. ASSUME NEW w \in Workers, Lose(w)
        PROVE  LogInv' /\ CurrentState' = CurrentState
    BY <2>3, LoseKeeps DEF Lose, CurrentState
  <2>4. ASSUME TakeSnapshot
        PROVE  LogInv' /\ CurrentState' = CurrentState
    BY <2>4, TakeSnapshotKeeps DEF TakeSnapshot, CurrentState
  <2> QED
    BY <1>1, <2>1, <2>2, <2>3, <2>4 DEF Next
<1>2. CASE UNCHANGED vars
  <2>1. log' = log /\ snapshot' = snapshot /\ job' = job
    BY <1>2 DEF vars
  <2> QED
    BY <2>1 DEF LogInv, CurrentState
<1> QED
  BY <1>1, <1>2

\* The inductive invariant of PlayerLog holds in every reachable state.
THEOREM LogInvHolds == Spec => []LogInv
<1>1. LogInv /\ [Next]_vars => LogInv'
  BY NextKeeps
<1> QED
  BY <1>1, LogInvInit, PTL DEF Spec

\* Jobs and the snapshot never run ahead of the log, and a handler emits at
\* most one event.
THEOREM TypeCorrect == Spec => []TypeOK
<1>1. ASSUME LogInv PROVE TypeOK
  <2>1. log \in Seq(Events) /\ Len(log) <= MaxEvents /\ Len(log) \in Nat
    BY <1>1 DEF LogInv
  <2>2. snapshot.next \in 0..Len(log)
    BY <1>1 DEF LogInv, SnapshotOK
  <2>3. ASSUME NEW w \in Workers
        PROVE  job[w].next \in 0..Len(log) /\ Cardinality(job[w].events) <= 1
    <3>1. Decided(log, job[w])
      BY <1>1 DEF LogInv
    <3>2. CASE job[w] = Idle
      <4>1. job[w].next = 0 /\ job[w].events = {}
        BY <3>2 DEF Idle
      <4> QED
        BY <2>1, <4>1, FS_EmptySet
    <3>3. CASE job[w] # Idle
      <4>1. /\ job[w].next \in 0..Len(log) /\ job[w].events # {}
            /\ \A e, f \in job[w].events : e = f
        BY <3>1, <3>3 DEF Decided, Decides
      <4>2. PICK e : job[w].events = {e}
        BY <4>1
      <4>3. Cardinality(job[w].events) = 1
        BY <4>2, FS_Singleton
      <4> QED
        BY <4>1, <4>3
    <3> QED
      BY <3>2, <3>3
  <2> QED
    BY <2>1, <2>2, <2>3 DEF TypeOK
<1> QED
  BY <1>1, LogInvHolds, PTL

\* The promise of state.go:71: whatever pages are applied again on a state
\* that contains them already, the state is the log's.
THEOREM ReplayIsHarmless == Spec => []ReplayIsIdempotent
<1>1. ASSUME LogInv PROVE ReplayIsIdempotent
  <2>1. log \in Seq(Events)
    BY <1>1 DEF LogInv
  <2>2. ASSUME NEW seen \in 0..Len(log), NEW from \in 0..seen
        PROVE  RebuildState(RebuildState(NewPlayerState, SubSeq(log, 1, seen)), Pages(from))
                 = CurrentState
    <3>1. 0 + 1 = 1
      OBVIOUS
    <3>2. RebuildState(RebuildState(NewPlayerState, SubSeq(log, 1, seen)), Pages(from))
            = Replay(log, Replay(log, NewPlayerState, 0, seen), from, Len(log))
      BY <3>1, Zenon DEF Pages, Replay
    <3>3. CurrentState = Replay(log, NewPlayerState, 0, Len(log))
      BY <2>1, CurrentIsStateAt DEF StateAt
    <3>4. Replay(log, Replay(log, NewPlayerState, 0, seen), from, Len(log))
            = Replay(log, NewPlayerState, 0, Len(log))
      BY <2>1, ReplayAgain
    <3> QED
      BY <3>2, <3>3, <3>4
  <2> QED
    BY <2>2 DEF ReplayIsIdempotent
<1> QED
  BY <1>1, LogInvHolds, PTL

--------------------------------------------------------------------------------
(***************************************************************************)
(* The log implements the sequential player                                *)
(***************************************************************************)
LEMMA DecisionIsNext ==
  Decision(CurrentState, CurrentState') <=> Sequential!Next
BY Zenon
   DEF Decision, Sequential!Next, Sequential!RegisterPlayer, Sequential!DepositFunds,
       Sequential!WithdrawFunds, Sequential!ReserveFunds, Sequential!ReleaseFunds,
       Sequential!TableJoinRejected,
       Apply, applyRegistered, applyDeposited, applyWithdrawn, applyReserved, applyReleased,
       CanRegister, CanDeposit, CanWithdraw, CanReserve, CanRelease, HasReservation,
       Reservation, AvailableBalance, Wrap, Tables, NoRoot,
       PlayerRegistered, FundsDeposited, FundsWithdrawn, FundsReserved, FundsReleased,
       Sequential!Apply, Sequential!applyRegistered, Sequential!applyDeposited,
       Sequential!applyWithdrawn, Sequential!applyReserved, Sequential!applyReleased,
       Sequential!CanRegister, Sequential!CanDeposit, Sequential!CanWithdraw,
       Sequential!CanReserve, Sequential!CanRelease, Sequential!HasReservation,
       Sequential!Reservation, Sequential!AvailableBalance, Sequential!Wrap,
       Sequential!Tables, Sequential!NoRoot, Sequential!PlayerRegistered,
       Sequential!FundsDeposited, Sequential!FundsWithdrawn, Sequential!FundsReserved,
       Sequential!FundsReleased

\* Commands in flight together, workers lost, snapshots and pages that overlap
\* do not show: the state that the log rebuilds moves as the player that
\* handles one command at a time.
THEOREM LogImplementsPlayer == Spec => ImplementsPlayer
<1>1. Init => Sequential!Init
  <2>1. ASSUME Init PROVE CurrentState = NewPlayerState
    <3>1. log \in Seq(Events) /\ Len(log) = 0 /\ 0 \in 0..Len(log)
      BY <2>1 DEF Init
    <3>2. CurrentState = Replay(log, NewPlayerState, 0, 0)
      BY <3>1, CurrentIsStateAt DEF StateAt
    <3> QED
      BY <3>1, <3>2, ReplayNone
  <2>2. NewPlayerState = Sequential!NewPlayerState
    BY DEF NewPlayerState, Tables, Sequential!NewPlayerState, Sequential!Tables
  <2> QED
    BY <2>1, <2>2 DEF Sequential!Init
<1>2. LogInv /\ [Next]_vars => [Sequential!Next]_CurrentState
  BY NextKeeps, DecisionIsNext
<1>3. [Sequential!Next]_CurrentState <=> [Sequential!Next]_Sequential!vars
  BY DEF Sequential!vars
<1>4. Spec => Sequential!Init /\ [][Sequential!Next]_Sequential!vars
  BY <1>1, <1>2, <1>3, LogInvHolds, PTL DEF Spec
<1> QED
  BY <1>4 DEF ImplementsPlayer, Sequential!Spec

\* What is proved of the player holds of the log as well.
Alone == INSTANCE PlayerProofs WITH player <- CurrentState

LEMMA DecisionIsAlone ==
  Decision(CurrentState, CurrentState') <=> Alone!Next
BY Zenon
   DEF Decision, Alone!Next, Alone!RegisterPlayer, Alone!DepositFunds,
       Alone!WithdrawFunds, Alone!ReserveFunds, Alone!ReleaseFunds,
       Alone!TableJoinRejected,
       Apply, applyRegistered, applyDeposited, applyWithdrawn, applyReserved, applyReleased,
       CanRegister, CanDeposit, CanWithdraw, CanReserve, CanRelease, HasReservation,
       Reservation, AvailableBalance, Wrap, Tables, NoRoot,
       PlayerRegistered, FundsDeposited, FundsWithdrawn, FundsReserved, FundsReleased,
       Alone!Apply, Alone!applyRegistered, Alone!applyDeposited,
       Alone!applyWithdrawn, Alone!applyReserved, Alone!applyReleased,
       Alone!CanRegister, Alone!CanDeposit, Alone!CanWithdraw,
       Alone!CanReserve, Alone!CanRelease, Alone!HasReservation,
       Alone!Reservation, Alone!AvailableBalance, Alone!Wrap,
       Alone!Tables, Alone!NoRoot, Alone!PlayerRegistered,
       Alone!FundsDeposited, Alone!FundsWithdrawn, Alone!FundsReserved,
       Alone!FundsReleased

\* Whatever the order in which concurrent commands are persisted, no more
\* chips are committed to tables than the bankroll holds.
THEOREM LogBacksReservations ==
  ASSUME ChipSupply \in 0..MaxInt, CommandRoots \subseteq Tables
  PROVE  Spec => []Sequential!NeverOvercommitted
<1>1. /\ ChipSupply \in Nat /\ ChipSupply <= MaxInt
      /\ Alone!NoRoot \notin CommandRoots
      /\ CommandRoots \subseteq Alone!Tables \cup {Alone!NoRoot}
      /\ Amounts \subseteq Alone!Int64
  BY NTablesAssumption, MaxIntAssumption, LogBoundsAssumption
     DEF Tables, Alone!Tables, Alone!NoRoot, Int64, Alone!Int64
<1>2. Alone!Spec => []Alone!NeverOvercommitted
  BY <1>1, NTablesAssumption, MaxIntAssumption, Alone!ReservationsBacked
<1>3. Sequential!Init => Alone!Init
  BY DEF Sequential!Init, Alone!Init, Sequential!NewPlayerState, Alone!NewPlayerState,
         Sequential!Tables, Alone!Tables
<1>4. [Sequential!Next]_Sequential!vars => [Alone!Next]_Alone!vars
  BY DecisionIsNext, DecisionIsAlone DEF Sequential!vars, Alone!vars
<1>5. Alone!NeverOvercommitted => Sequential!NeverOvercommitted
  BY DEF Alone!NeverOvercommitted, Sequential!NeverOvercommitted
<1> QED
  BY <1>2, <1>3, <1>4, <1>5, LogImplementsPlayer, PTL
     DEF ImplementsPlayer, Sequential!Spec, Alone!Spec
================================================================================
