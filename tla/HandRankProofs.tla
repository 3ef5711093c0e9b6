----------------------------- MODULE HandRankProofs -----------------------------
(***************************************************************************)
(* Theorems about HandRank and HandRankMirror, for any deck whose ranks    *)
(* are among 2..14 and that has no more than four suits.                   *)
(***************************************************************************)
EXTENDS HandRankMirror, ChipsProofs

\* The number of cards of h that have rank r.
Count(h, r) == Cardinality({c \in h : c.rank = r})

\* The ranks that h holds n times.
Times(h, n) == {r \in RanksOf(h) : Count(h, r) = n}

--------------------------------------------------------------------------------
(***************************************************************************)
(* Counting cards                                                          *)
(***************************************************************************)
LEMMA ImageSize ==
  ASSUME NEW S, IsFiniteSet(S), NEW f, DOMAIN f = S, f = [x \in S |-> f[x]]
  PROVE  LET T == {f[x] : x \in S}
         IN  /\ IsFiniteSet(T) /\ Cardinality(T) <= Cardinality(S)
             /\ (\A x, y \in S : f[x] = f[y] => x = y) <=> Cardinality(T) = Cardinality(S)
<1> DEFINE T == {f[x] : x \in S}
<1>1. f \in Surjection(S, T)
  BY DEF Surjection
<1>2. (\A x, y \in S : f[x] = f[y] => x = y) <=> f \in Injection(S, T)
  BY <1>1 DEF Surjection, Injection, IsInjective
<1> HIDE DEF T
<1>3. /\ IsFiniteSet(T) /\ Cardinality(T) <= Cardinality(S)
      /\ Cardinality(T) = Cardinality(S) <=> f \in Injection(S, T)
  BY <1>1, FS_Surjection
<1>4. /\ IsFiniteSet(T) /\ Cardinality(T) <= Cardinality(S)
      /\ (\A x, y \in S : f[x] = f[y] => x = y) <=> Cardinality(T) = Cardinality(S)
  BY <1>2, <1>3
<1> QED
  BY <1>4 DEF T

LEMMA RanksAreFinite ==
  ASSUME NEW h, h \in SUBSET Card, IsFiniteSet(h)
  PROVE  /\ RanksOf(h) \subseteq 2..14 /\ IsFiniteSet(RanksOf(h))
         /\ Cardinality(RanksOf(h)) <= Cardinality(h)
         /\ Cardinality(RanksOf(h)) \in Nat /\ Cardinality(h) \in Nat
         /\ (\A c, d \in h : c.rank = d.rank => c = d) => Cardinality(RanksOf(h)) = Cardinality(h)
<1> DEFINE f == [c \in h |-> c.rank]
<1>1. RanksOf(h) = {f[c] : c \in h}
  BY DEF RanksOf
<1>2. RanksOf(h) \subseteq 2..14
  BY RankAssumption DEF RanksOf, Card, Ace
<1>3. /\ IsFiniteSet(RanksOf(h)) /\ Cardinality(RanksOf(h)) <= Cardinality(h)
      /\ (\A x, y \in h : f[x] = f[y] => x = y) => Cardinality(RanksOf(h)) = Cardinality(h)
  <2>1. DOMAIN f = h /\ f = [x \in h |-> f[x]]
    OBVIOUS
  <2> HIDE DEF f
  <2> QED
    BY <1>1, <2>1, ImageSize
<1>4. \A x, y \in h : f[x] = f[y] <=> x.rank = y.rank
  OBVIOUS
<1> HIDE DEF f
<1> QED
  BY <1>2, <1>3, <1>4, FS_CardinalityType

\* A rank is held once at least, and no more often than there are suits.
LEMMA CountBounds ==
  ASSUME NEW h, h \in SUBSET Card, IsFiniteSet(h), NEW r \in RanksOf(h)
  PROVE  /\ IsFiniteSet({c \in h : c.rank = r})
         /\ Count(h, r) \in Nat /\ 1 <= Count(h, r) /\ Count(h, r) <= Cardinality(Suits)
<1> DEFINE F == {c \in h : c.rank = r}
           f == [c \in F |-> c.suit]
<1>1. F \subseteq h /\ F # {} /\ \A c, d \in F : c.suit = d.suit => c = d
  BY DEF RanksOf, Card
<1>2. /\ {f[c] : c \in F} \subseteq Suits
      /\ \A c, d \in F : f[c] = f[d] => c = d
      /\ DOMAIN f = F /\ f = [x \in F |-> f[x]]
  BY <1>1 DEF Card
<1> HIDE DEF F, f
<1>3. IsFiniteSet(F) /\ Cardinality(F) \in Nat /\ Cardinality(F) # 0
  BY <1>1, FS_Subset, FS_CardinalityType, FS_EmptySet
<1>4. Cardinality({f[c] : c \in F}) = Cardinality(F)
  BY <1>2, <1>3, ImageSize
<1>5. Cardinality({f[c] : c \in F}) <= Cardinality(Suits)
  BY <1>2, RankAssumption, FS_Subset
<1>6. Cardinality(Suits) \in Nat
  BY RankAssumption, FS_CardinalityType
<1>7. 1 <= Cardinality(F) /\ Cardinality(F) <= Cardinality(Suits)
  BY <1>3, <1>4, <1>5, <1>6
<1> QED
  BY <1>3, <1>7 DEF F, Count

\* The cards whose rank is in a set of ranks that are held n times each.
LEMMA CardsOfRanks ==
  ASSUME NEW h, h \in SUBSET Card, IsFiniteSet(h), NEW n \in Nat,
         NEW R \in SUBSET Times(h, n)
  PROVE  Cardinality({c \in h : c.rank \in R}) = n * Cardinality(R)
<1> DEFINE Of(S) == {c \in h : c.rank \in S}
           F == {S \in SUBSET R : Cardinality(Of(S)) # n * Cardinality(S)}
<1> SUFFICES ASSUME F # {} PROVE FALSE
  OBVIOUS
<1>1. IsFiniteSet(R)
  <2>1. R \in SUBSET RanksOf(h) /\ IsFiniteSet(RanksOf(h))
    BY RanksAreFinite DEF Times
  <2> QED
    BY <2>1, FS_Subset
<1>2. PICK S \in F : \A T \in F : T \subseteq S => T = S
  <2>1. F \subseteq SUBSET R
    OBVIOUS
  <2> HIDE DEF F
  <2> QED
    BY <1>1, <2>1, SmallestSet
<1>3. IsFiniteSet(S) /\ Cardinality(S) \in Nat
  BY <1>1, <1>2, FS_Subset, FS_CardinalityType
<1>4. S # {}
  <2>1. Of({}) = {}
    OBVIOUS
  <2>2. Cardinality(Of({})) = n * Cardinality({})
    <3>1. n * 0 = 0
      OBVIOUS
    <3> QED
      BY <2>1, <3>1, FS_EmptySet, Zenon
  <2> QED
    BY <1>2, <2>2
<1>5. PICK r : r \in S
  BY <1>4
<1> DEFINE T == S \ {r}
           C == {c \in h : c.rank = r}
<1>6. T \in SUBSET R /\ T \notin F
  BY <1>2, <1>5
<1>7. Cardinality(Of(T)) = n * Cardinality(T)
  BY <1>6
<1>8. Cardinality(T) = Cardinality(S) - 1
  BY <1>3, <1>5, FS_RemoveElement
<1>9. Of(S) = Of(T) \cup C /\ Of(T) \cap C = {} /\ Of(T) \subseteq h /\ C \subseteq h
  BY <1>5
<1>10. Cardinality(C) = n
  BY <1>2, <1>5 DEF Times, Count
<1> HIDE DEF Of, C, T
<1>11. IsFiniteSet(Of(T)) /\ IsFiniteSet(C)
  BY <1>9, FS_Subset
<1>12. Cardinality(Of(S)) = Cardinality(Of(T)) + Cardinality(C) - 0
  BY <1>9, <1>11, FS_Union, FS_EmptySet
<1>13. n * (Cardinality(S) - 1) + n = n * Cardinality(S)
  <2>1. \A x, y \in Nat : x * (y - 1) + x = x * y
    OBVIOUS
  <2> QED
    BY <1>3, <2>1
<1>14. Cardinality(Of(S)) = n * Cardinality(S)
  <2>1. Cardinality(Of(T)) = n * (Cardinality(S) - 1)
    BY ONLY <1>7, <1>8, Zenon
  <2>2. Cardinality(Of(S)) = n * (Cardinality(S) - 1) + n
    <3>1. n * (Cardinality(S) - 1) \in Int
      <4>1. \A x, y \in Nat : x * (y - 1) \in Int
        OBVIOUS
      <4> QED
        BY <1>3, <4>1
    <3> QED
      BY <1>10, <1>12, <2>1, <3>1
  <2> QED
    BY ONLY <1>13, <2>2, Zenon
<1> QED
  BY <1>2, <1>14

FiveCards(h) == h \in SUBSET Card /\ IsFiniteSet(h) /\ Cardinality(h) = 5

\* How many ranks a hand holds once, twice, three and four times: what
\* patternOf matches.
Shape(h) == [n \in 1..4 |-> Cardinality(Times(h, n))]

LEMMA TwoApart ==
  ASSUME NEW A, NEW B, IsFiniteSet(A), IsFiniteSet(B), A \cap B = {}
  PROVE  /\ IsFiniteSet(A \cup B)
         /\ Cardinality(A \cup B) = Cardinality(A) + Cardinality(B)
         /\ Cardinality(A) \in Nat /\ Cardinality(B) \in Nat
<1>1. Cardinality(A) \in Nat /\ Cardinality(B) \in Nat
  BY FS_CardinalityType
<1>2. Cardinality(A \cap B) = 0
  <2>1. Cardinality({}) = 0
    BY FS_EmptySet
  <2> QED
    BY ONLY <2>1, A \cap B = {}, Zenon
<1>3. /\ IsFiniteSet(A \cup B)
      /\ Cardinality(A \cup B) = Cardinality(A) + Cardinality(B) - Cardinality(A \cap B)
  BY FS_Union
<1> QED
  BY ONLY <1>1, <1>2, <1>3

\* The sizes of four sets apart add up.
LEMMA FourApart ==
  ASSUME NEW A, NEW B, NEW C, NEW D,
         IsFiniteSet(A), IsFiniteSet(B), IsFiniteSet(C), IsFiniteSet(D),
         A \cap B = {}, (A \cup B) \cap C = {}, (A \cup B \cup C) \cap D = {}
  PROVE  Cardinality(A \cup B \cup C \cup D)
           = Cardinality(A) + Cardinality(B) + Cardinality(C) + Cardinality(D)
<1>1. PICK E : E = A \cup B
  OBVIOUS
<1>2. PICK F : F = E \cup C
  OBVIOUS
<1>3. E \cap C = {} /\ F \cap D = {} /\ F \cup D = A \cup B \cup C \cup D
  BY <1>1, <1>2
<1>4. IsFiniteSet(E) /\ Cardinality(E) = Cardinality(A) + Cardinality(B)
  BY <1>1, TwoApart
<1>5. IsFiniteSet(F) /\ Cardinality(F) = Cardinality(E) + Cardinality(C)
  BY <1>2, <1>3, <1>4, TwoApart
<1>6. Cardinality(F \cup D) = Cardinality(F) + Cardinality(D)
  BY <1>3, <1>5, TwoApart
<1>7. /\ Cardinality(A) \in Nat /\ Cardinality(B) \in Nat
      /\ Cardinality(C) \in Nat /\ Cardinality(D) \in Nat
  BY FS_CardinalityType
<1>8. Cardinality(F \cup D)
        = Cardinality(A) + Cardinality(B) + Cardinality(C) + Cardinality(D)
  BY <1>4, <1>5, <1>6, <1>7
<1> QED
  BY ONLY <1>3, <1>8, Zenon

LEMMA TimesAreFinite ==
  ASSUME NEW h, FiveCards(h), NEW n
  PROVE  /\ Times(h, n) \subseteq RanksOf(h) /\ Times(h, n) \subseteq 2..14
         /\ IsFiniteSet(Times(h, n)) /\ Cardinality(Times(h, n)) \in Nat
<1>1. Times(h, n) \in SUBSET RanksOf(h)
  BY DEF Times
<1> QED
  BY <1>1, RanksAreFinite, FS_Subset, FS_CardinalityType DEF FiveCards

LEMMA ShapeAdds ==
  ASSUME NEW h, FiveCards(h)
  PROVE  /\ \A n \in 1..4 : Cardinality(Times(h, n)) \in Nat
         /\ Cardinality(Times(h, 1)) + 2 * Cardinality(Times(h, 2))
              + 3 * Cardinality(Times(h, 3)) + 4 * Cardinality(Times(h, 4)) = 5
         /\ Cardinality(RanksOf(h)) =
              Cardinality(Times(h, 1)) + Cardinality(Times(h, 2))
                + Cardinality(Times(h, 3)) + Cardinality(Times(h, 4))
<1> DEFINE Of(n) == {c \in h : c.rank \in Times(h, n)}
<1>1. h \in SUBSET Card /\ IsFiniteSet(h) /\ Cardinality(h) = 5
  BY DEF FiveCards
<1>2. ASSUME NEW r \in RanksOf(h)
      PROVE  Count(h, r) \in 1..4
  <2>1. Cardinality(Suits) \in Nat
    BY RankAssumption, FS_CardinalityType
  <2>2. Count(h, r) \in Nat /\ 1 <= Count(h, r) /\ Count(h, r) <= Cardinality(Suits)
    BY <1>1, CountBounds
  <2> QED
    BY <2>1, <2>2, RankAssumption
<1>3. \A c \in h : c.rank \in RanksOf(h)
  BY DEF RanksOf
<1>4. /\ RanksOf(h) = Times(h, 1) \cup Times(h, 2) \cup Times(h, 3) \cup Times(h, 4)
      /\ Times(h, 1) \cap Times(h, 2) = {}
      /\ (Times(h, 1) \cup Times(h, 2)) \cap Times(h, 3) = {}
      /\ (Times(h, 1) \cup Times(h, 2) \cup Times(h, 3)) \cap Times(h, 4) = {}
  BY <1>2 DEF Times
<1>5. /\ h = Of(1) \cup Of(2) \cup Of(3) \cup Of(4)
      /\ Of(1) \cap Of(2) = {}
      /\ (Of(1) \cup Of(2)) \cap Of(3) = {}
      /\ (Of(1) \cup Of(2) \cup Of(3)) \cap Of(4) = {}
  BY <1>3, <1>4
<1>6. ASSUME NEW n \in 1..4
      PROVE  IsFiniteSet(Of(n)) /\ Cardinality(Of(n)) = n * Cardinality(Times(h, n))
  <2>1. Of(n) \in SUBSET h /\ n \in Nat /\ Times(h, n) \in SUBSET Times(h, n)
    OBVIOUS
  <2> QED
    BY <1>1, <2>1, CardsOfRanks, FS_Subset
<1>7. \A n : IsFiniteSet(Times(h, n)) /\ Cardinality(Times(h, n)) \in Nat
  BY TimesAreFinite
<1>8. Cardinality(h) = Cardinality(Of(1)) + Cardinality(Of(2)) + Cardinality(Of(3)) + Cardinality(Of(4))
  <2>1. IsFiniteSet(Of(1)) /\ IsFiniteSet(Of(2)) /\ IsFiniteSet(Of(3)) /\ IsFiniteSet(Of(4))
    BY <1>6
  <2> HIDE DEF Of
  <2> QED
    BY <1>5, <2>1, FourApart
<1>9. /\ Cardinality(Of(1)) = 1 * Cardinality(Times(h, 1))
      /\ Cardinality(Of(2)) = 2 * Cardinality(Times(h, 2))
      /\ Cardinality(Of(3)) = 3 * Cardinality(Times(h, 3))
      /\ Cardinality(Of(4)) = 4 * Cardinality(Times(h, 4))
  BY <1>6
<1>10. Cardinality(RanksOf(h)) =
         Cardinality(Times(h, 1)) + Cardinality(Times(h, 2))
           + Cardinality(Times(h, 3)) + Cardinality(Times(h, 4))
  BY <1>4, <1>7, FourApart
<1> HIDE DEF Of
<1> QED
  BY <1>1, <1>7, <1>8, <1>9, <1>10

--------------------------------------------------------------------------------
(***************************************************************************)
(* The tables of patterns                                                  *)
(***************************************************************************)
Weights == 0..10000

\* An entry of a table for a pattern whose hand has the given place in
\* RankTypes and n ranks.
IsEntry(p, pattern, place, n) ==
  /\ p.pattern = pattern
  /\ p.type = RankTypes[place] /\ p.base = place * Million
  /\ \A i \in 1..n : p.weights[i] \in Weights

Entries(p) ==
  \/ IsEntry(p, <<1, 0, 0, 1>>, 8, 2)
  \/ IsEntry(p, <<0, 1, 1, 0>>, 7, 2)
  \/ IsEntry(p, <<2, 0, 1, 0>>, 4, 3)
  \/ IsEntry(p, <<1, 2, 0, 0>>, 3, 3)
  \/ IsEntry(p, <<3, 1, 0, 0>>, 2, 4)
  \/ IsEntry(p, <<5, 0, 0, 0>>, 1, 5)

Patterns ==
  {<<1, 0, 0, 1>>, <<0, 1, 1, 0>>, <<2, 0, 1, 0>>, <<1, 2, 0, 0>>, <<3, 1, 0, 0>>,
   <<5, 0, 0, 0>>}

IsTable(table) ==
  /\ \A p \in table : Entries(p)
  /\ \A pattern \in Patterns : \E p \in table : p.pattern = pattern

LEMMA DeployedTable ==
  /\ IsTable(Patterned)
  /\ \A p \in Patterned : p = [pattern |-> p.pattern, type |-> p.type, base |-> p.base,
                              weights |-> p.weights]
<1>1. ASSUME NEW p \in Patterned
      PROVE  Entries(p)
  <2>1. ASSUME p.type = "FOUR_OF_A_KIND" PROVE IsEntry(p, <<1, 0, 0, 1>>, 8, 2)
    <3>1. p.pattern = <<1, 0, 0, 1>> /\ p.weights = <<100, 1>>
      BY <2>1, SMT DEF Patterned
    <3>2. p.type = RankTypes[8] /\ p.base = 8 * Million
      BY <2>1, SMT DEF Patterned, RankTypes
    <3> QED
      BY <3>1, <3>2, SMT DEF IsEntry, Weights
  <2>2. ASSUME p.type = "FULL_HOUSE" PROVE IsEntry(p, <<0, 1, 1, 0>>, 7, 2)
    <3>1. p.pattern = <<0, 1, 1, 0>> /\ p.weights = <<100, 1>>
      BY <2>2, SMT DEF Patterned
    <3>2. p.type = RankTypes[7] /\ p.base = 7 * Million
      BY <2>2, SMT DEF Patterned, RankTypes
    <3> QED
      BY <3>1, <3>2, SMT DEF IsEntry, Weights
  <2>3. ASSUME p.type = "THREE_OF_A_KIND" PROVE IsEntry(p, <<2, 0, 1, 0>>, 4, 3)
    <3>1. p.pattern = <<2, 0, 1, 0>> /\ p.weights = <<1000, 50, 1>>
      BY <2>3, SMT DEF Patterned
    <3>2. p.type = RankTypes[4] /\ p.base = 4 * Million
      BY <2>3, SMT DEF Patterned, RankTypes
    <3> QED
      BY <3>1, <3>2, SMT DEF IsEntry, Weights
  <2>4. ASSUME p.type = "TWO_PAIR" PROVE IsEntry(p, <<1, 2, 0, 0>>, 3, 3)
    <3>1. p.pattern = <<1, 2, 0, 0>> /\ p.weights = <<1000, 50, 1>>
      BY <2>4, SMT DEF Patterned
    <3>2. p.type = RankTypes[3] /\ p.base = 3 * Million
      BY <2>4, SMT DEF Patterned, RankTypes
    <3> QED
      BY <3>1, <3>2, SMT DEF IsEntry, Weights
  <2>5. ASSUME p.type = "PAIR" PROVE IsEntry(p, <<3, 1, 0, 0>>, 2, 4)
    <3>1. p.pattern = <<3, 1, 0, 0>> /\ p.weights = <<10000, 1000, 50, 1>>
      BY <2>5, SMT DEF Patterned
    <3>2. p.type = RankTypes[2] /\ p.base = 2 * Million
      BY <2>5, SMT DEF Patterned, RankTypes
    <3> QED
      BY <3>1, <3>2, SMT DEF IsEntry, Weights
  <2>6. ASSUME p.type = "HIGH_CARD" PROVE IsEntry(p, <<5, 0, 0, 0>>, 1, 5)
    <3>1. p.pattern = <<5, 0, 0, 0>> /\ p.weights = <<10000, 666, 44, 2, 0>>
      BY <2>6, SMT DEF Patterned
    <3>2. p.type = RankTypes[1] /\ p.base = 1 * Million
      BY <2>6, SMT DEF Patterned, RankTypes
    <3> QED
      BY <3>1, <3>2, SMT DEF IsEntry, Weights
  <2>7. p.type \in {"FOUR_OF_A_KIND", "FULL_HOUSE", "THREE_OF_A_KIND", "TWO_PAIR", "PAIR",
                    "HIGH_CARD"}
    BY SMT DEF Patterned
  <2> QED
    BY <2>1, <2>2, <2>3, <2>4, <2>5, <2>6, <2>7 DEF Entries
<1>2. \A pattern \in Patterns : \E p \in Patterned : p.pattern = pattern
  BY SMT DEF Patterned, Patterns
<1>3. \A p \in Patterned : p = [pattern |-> p.pattern, type |-> p.type, base |-> p.base,
                              weights |-> p.weights]
  BY SMT DEF Patterned
<1> QED
  BY <1>1, <1>2, <1>3 DEF IsTable

\* The tests' table has other weights for two patterns.
LEMMA MirrorTable == IsTable(MirrorPatterned)
<1>1. ASSUME NEW p \in Patterned
      PROVE  Entries(MirrorWeights(p)) /\ MirrorWeights(p).pattern = p.pattern
  <2> DEFINE q == MirrorWeights(p)
  <2>1. Entries(p)
    BY DeployedTable DEF IsTable
  <2>2. p = [pattern |-> p.pattern, type |-> p.type, base |-> p.base, weights |-> p.weights]
    BY DeployedTable
  <2>3. /\ q.pattern = p.pattern /\ q.type = p.type /\ q.base = p.base
        /\ \/ q.weights = p.weights
           \/ p.type = "THREE_OF_A_KIND" /\ q.weights = <<1000, 0, 0>>
           \/ p.type = "PAIR" /\ q.weights = <<10000, 0, 0, 0>>
    BY <2>2, SMT DEF MirrorWeights
  <2>4. /\ "THREE_OF_A_KIND" # "PAIR"
        /\ RankTypes[8] \notin {"THREE_OF_A_KIND", "PAIR"}
        /\ RankTypes[7] \notin {"THREE_OF_A_KIND", "PAIR"}
        /\ RankTypes[4] = "THREE_OF_A_KIND" /\ RankTypes[2] = "PAIR"
        /\ RankTypes[3] \notin {"THREE_OF_A_KIND", "PAIR"}
        /\ RankTypes[1] \notin {"THREE_OF_A_KIND", "PAIR"}
    BY SMT DEF RankTypes
  <2> HIDE DEF q
  <2>5. ASSUME NEW pattern, NEW place, NEW n, IsEntry(p, pattern, place, n),
               q.weights = p.weights
        PROVE  IsEntry(q, pattern, place, n)
    <3>1. /\ p.pattern = pattern /\ p.type = RankTypes[place] /\ p.base = place * Million
          /\ \A i \in 1..n : p.weights[i] \in Weights
      BY <2>5, Zenon DEF IsEntry
    <3>2. q.pattern = pattern /\ q.type = RankTypes[place] /\ q.base = place * Million
      <4>1. q.pattern = p.pattern /\ q.type = p.type /\ q.base = p.base
        BY ONLY <2>3, SMT
      <4> QED
        BY ONLY <3>1, <4>1, Zenon
    <3>3. \A i \in 1..n : q.weights[i] \in Weights
      BY ONLY <2>5, <3>1, Zenon
    <3> QED
      BY ONLY <3>2, <3>3, Zenon DEF IsEntry
  <2>6. ASSUME IsEntry(p, <<1, 0, 0, 1>>, 8, 2)
        PROVE  IsEntry(q, <<1, 0, 0, 1>>, 8, 2)
    <3>1. p.type = RankTypes[8]
      BY <2>6 DEF IsEntry
    <3>2. q.weights = p.weights
      BY <2>3, <2>4, <3>1
    <3> QED
      BY ONLY <2>5, <2>6, <3>2, Zenon
  <2>7. ASSUME IsEntry(p, <<0, 1, 1, 0>>, 7, 2)
        PROVE  IsEntry(q, <<0, 1, 1, 0>>, 7, 2)
    <3>1. p.type = RankTypes[7]
      BY <2>7 DEF IsEntry
    <3>2. q.weights = p.weights
      BY <2>3, <2>4, <3>1
    <3> QED
      BY ONLY <2>5, <2>7, <3>2, Zenon
  <2>8. ASSUME IsEntry(p, <<2, 0, 1, 0>>, 4, 3)
        PROVE  IsEntry(q, <<2, 0, 1, 0>>, 4, 3)
    <3>1. p.type = RankTypes[4]
      BY <2>8 DEF IsEntry
    <3>2. q.weights = p.weights \/ q.weights = <<1000, 0, 0>>
      BY ONLY <2>3, <2>4, <3>1, SMT
    <3>3. ASSUME q.weights # p.weights PROVE IsEntry(q, <<2, 0, 1, 0>>, 4, 3)
      <4>1. q.weights = <<1000, 0, 0>>
        BY ONLY <3>2, <3>3, SMT
      <4>2. \A i \in 1..3 : q.weights[i] \in Weights
        <5>1. /\ q.weights[1] \in Weights /\ q.weights[2] \in Weights /\ q.weights[3] \in Weights
          BY ONLY <4>1, SMT DEF Weights
        <5> QED
          BY ONLY <5>1, SMT
      <4>3. q.pattern = p.pattern /\ q.type = p.type /\ q.base = p.base
        BY <2>3
      <4> QED
        BY ONLY <2>8, <4>2, <4>3, Zenon DEF IsEntry
    <3>4. ASSUME q.weights = p.weights PROVE IsEntry(q, <<2, 0, 1, 0>>, 4, 3)
      BY ONLY <2>5, <2>8, <3>4, Zenon
    <3> QED
      BY ONLY <3>3, <3>4, Zenon
  <2>9. ASSUME IsEntry(p, <<1, 2, 0, 0>>, 3, 3)
        PROVE  IsEntry(q, <<1, 2, 0, 0>>, 3, 3)
    <3>1. p.type = RankTypes[3]
      BY <2>9 DEF IsEntry
    <3>2. q.weights = p.weights
      BY <2>3, <2>4, <3>1
    <3> QED
      BY ONLY <2>5, <2>9, <3>2, Zenon
  <2>10. ASSUME IsEntry(p, <<3, 1, 0, 0>>, 2, 4)
        PROVE  IsEntry(q, <<3, 1, 0, 0>>, 2, 4)
    <3>1. p.type = RankTypes[2]
      BY <2>10 DEF IsEntry
    <3>2. q.weights = p.weights \/ q.weights = <<10000, 0, 0, 0>>
      BY ONLY <2>3, <2>4, <3>1, SMT
    <3>3. ASSUME q.weights # p.weights PROVE IsEntry(q, <<3, 1, 0, 0>>, 2, 4)
      <4>1. q.weights = <<10000, 0, 0, 0>>
        BY ONLY <3>2, <3>3, SMT
      <4>2. \A i \in 1..4 : q.weights[i] \in Weights
        <5>1. /\ q.weights[1] \in Weights /\ q.weights[2] \in Weights /\ q.weights[3] \in Weights
            /\ q.weights[4] \in Weights
          BY ONLY <4>1, SMT DEF Weights
        <5> QED
          BY ONLY <5>1, SMT
      <4>3. q.pattern = p.pattern /\ q.type = p.type /\ q.base = p.base
        BY <2>3
      <4> QED
        BY ONLY <2>10, <4>2, <4>3, Zenon DEF IsEntry
    <3>4. ASSUME q.weights = p.weights PROVE IsEntry(q, <<3, 1, 0, 0>>, 2, 4)
      BY ONLY <2>5, <2>10, <3>4, Zenon
    <3> QED
      BY ONLY <3>3, <3>4, Zenon
  <2>11. ASSUME IsEntry(p, <<5, 0, 0, 0>>, 1, 5)
        PROVE  IsEntry(q, <<5, 0, 0, 0>>, 1, 5)
    <3>1. p.type = RankTypes[1]
      BY <2>11 DEF IsEntry
    <3>2. q.weights = p.weights
      BY <2>3, <2>4, <3>1
    <3> QED
      BY ONLY <2>5, <2>11, <3>2, Zenon
  <2>12. Entries(q)
    BY <2>1, <2>6, <2>7, <2>8, <2>9, <2>10, <2>11 DEF Entries
  <2> QED
    BY <2>3, <2>12 DEF q
<1>2. \A pattern \in Patterns : \E p \in MirrorPatterned : p.pattern = pattern
  <2>1. \A pattern \in Patterns : \E p \in Patterned : p.pattern = pattern
    BY DeployedTable DEF IsTable
  <2> QED
    BY <1>1, <2>1, Zenon DEF MirrorPatterned
<1>3. \A p \in MirrorPatterned : Entries(p)
  BY <1>1, Zenon DEF MirrorPatterned
<1> QED
  BY <1>2, <1>3 DEF IsTable

LEMMA CountedSizes ==
  ASSUME NEW h, FiveCards(h)
  PROVE  /\ IsFiniteSet(rankCount(h))
         /\ Cardinality(rankCount(h)) = Cardinality(RanksOf(h))
         /\ \A n \in 1..4 : Cardinality({a \in rankCount(h) : a.count = n})
                              = Cardinality(Times(h, n))
         /\ \A a \in rankCount(h) : a.rank \in 2..14 /\ a.count \in Nat
<1>1. RanksOf(h) \subseteq 2..14 /\ IsFiniteSet(RanksOf(h))
  BY RanksAreFinite DEF FiveCards
<1>2. rankCount(h) = {[rank |-> r, count |-> Count(h, r)] : r \in RanksOf(h)}
  BY DEF rankCount, Count
<1>3. IsFiniteSet(rankCount(h)) /\ Cardinality(rankCount(h)) = Cardinality(RanksOf(h))
  <2> DEFINE f == [r \in RanksOf(h) |-> [rank |-> r, count |-> Count(h, r)]]
  <2>1. /\ rankCount(h) = {f[r] : r \in RanksOf(h)}
        /\ DOMAIN f = RanksOf(h) /\ f = [r \in RanksOf(h) |-> f[r]]
        /\ \A r, s \in RanksOf(h) : f[r] = f[s] => r = s
    BY <1>2
  <2> HIDE DEF f
  <2> QED
    BY <1>1, <2>1, ImageSize
<1>4. ASSUME NEW n \in 1..4
      PROVE  Cardinality({a \in rankCount(h) : a.count = n}) = Cardinality(Times(h, n))
  <2> DEFINE f == [r \in Times(h, n) |-> [rank |-> r, count |-> n]]
  <2>1. /\ {a \in rankCount(h) : a.count = n} = {f[r] : r \in Times(h, n)}
        /\ DOMAIN f = Times(h, n) /\ f = [r \in Times(h, n) |-> f[r]]
        /\ \A r, s \in Times(h, n) : f[r] = f[s] => r = s
    BY <1>2 DEF Times
  <2>2. IsFiniteSet(Times(h, n))
    BY TimesAreFinite
  <2> HIDE DEF f
  <2> QED
    BY <2>1, <2>2, ImageSize
<1>5. \A a \in rankCount(h) : a.rank \in 2..14 /\ a.count \in Nat
  <2>1. \A r \in RanksOf(h) : Count(h, r) \in Nat
    BY CountBounds DEF FiveCards
  <2> QED
    BY <1>1, <1>2, <2>1
<1> QED
  BY <1>3, <1>4, <1>5

\* Every hand has one of the six patterns.
LEMMA ShapeIsPattern ==
  ASSUME NEW h, FiveCards(h)
  PROVE  Shape(h) \in Patterns
<1> DEFINE N(n) == Cardinality(Times(h, n))
<1>1. N(1) \in Nat /\ N(2) \in Nat /\ N(3) \in Nat /\ N(4) \in Nat
  BY ShapeAdds
<1>2. N(1) + 2 * N(2) + 3 * N(3) + 4 * N(4) = 5
  BY ShapeAdds
<1>3. Shape(h) = <<N(1), N(2), N(3), N(4)>>
  BY DEF Shape
<1> HIDE DEF N
<1>4. \/ N(1) = 1 /\ N(2) = 0 /\ N(3) = 0 /\ N(4) = 1
      \/ N(1) = 0 /\ N(2) = 1 /\ N(3) = 1 /\ N(4) = 0
      \/ N(1) = 2 /\ N(2) = 0 /\ N(3) = 1 /\ N(4) = 0
      \/ N(1) = 1 /\ N(2) = 2 /\ N(3) = 0 /\ N(4) = 0
      \/ N(1) = 3 /\ N(2) = 1 /\ N(3) = 0 /\ N(4) = 0
      \/ N(1) = 5 /\ N(2) = 0 /\ N(3) = 0 /\ N(4) = 0
  <2>1. PICK a \in Nat, b \in Nat, c \in Nat, d \in Nat :
          a = N(1) /\ b = N(2) /\ c = N(3) /\ d = N(4)
    BY <1>1
  <2>2. a + 2 * b + 3 * c + 4 * d = 5
    BY <1>2, <2>1
  <2>3. d \in 0..1 /\ c \in 0..1 /\ b \in 0..2 /\ (d = 1 => b = 0 /\ c = 0) /\ (c = 1 => b \in 0..1)
    BY <2>2
  <2>4. a = 5 - 2 * b - 3 * c - 4 * d
    BY <2>2
  <2>5. \/ a = 1 /\ b = 0 /\ c = 0 /\ d = 1
        \/ a = 0 /\ b = 1 /\ c = 1 /\ d = 0
        \/ a = 2 /\ b = 0 /\ c = 1 /\ d = 0
        \/ a = 1 /\ b = 2 /\ c = 0 /\ d = 0
        \/ a = 3 /\ b = 1 /\ c = 0 /\ d = 0
        \/ a = 5 /\ b = 0 /\ c = 0 /\ d = 0
    BY <2>3, <2>4
  <2> QED
    BY <2>1, <2>5
<1> QED
  BY <1>3, <1>4 DEF Patterns

LEMMA PatternFound ==
  ASSUME NEW h, FiveCards(h), NEW table, IsTable(table)
  PROVE  /\ patternOf(table, rankCount(h)) \in table
         /\ patternOf(table, rankCount(h)).pattern = Shape(h)
<1>1. [n \in 1..4 |-> Cardinality({a \in rankCount(h) : a.count = n})] = Shape(h)
  BY CountedSizes DEF Shape
<1>2. patternOf(table, rankCount(h)) = CHOOSE p \in table : p.pattern = Shape(h)
  BY <1>1, Zenon DEF patternOf
<1>3. \E p \in table : p.pattern = Shape(h)
  BY ShapeIsPattern DEF IsTable
<1> QED
  BY <1>2, <1>3

--------------------------------------------------------------------------------
(***************************************************************************)
(* What the cards add to a score                                           *)
(***************************************************************************)
LEMMA MaxIs ==
  ASSUME NEW S \in SUBSET Int, NEW m \in S, \A y \in S : y <= m
  PROVE  Max(S) = m
<1>1. m \in S /\ \A y \in S : m >= y
  OBVIOUS
<1>2. \A x \in S : (\A y \in S : x >= y) => x = m
  OBVIOUS
<1> QED
  BY <1>1, <1>2 DEF Max

\* What a hand can be called that holds b ranks twice, c three and d four times.
Called(b, c, d) ==
  {1} \cup (IF b = 1 THEN {2} ELSE {}) \cup (IF b = 2 THEN {3} ELSE {})
    \cup (IF c # 0 THEN {4} ELSE {}) \cup (IF c # 0 /\ b = 1 THEN {7} ELSE {})
    \cup (IF d # 0 THEN {8} ELSE {})

Place(h) ==
  Max(Called(Cardinality(Times(h, 2)), Cardinality(Times(h, 3)), Cardinality(Times(h, 4))))

LEMMA CalledHighest ==
  /\ Max(Called(0, 0, 1)) = 8 /\ Max(Called(1, 1, 0)) = 7 /\ Max(Called(0, 1, 0)) = 4
  /\ Max(Called(2, 0, 0)) = 3 /\ Max(Called(1, 0, 0)) = 2 /\ Max(Called(0, 0, 0)) = 1
<1>1. /\ Called(0, 0, 1) = {1, 8} /\ Called(1, 1, 0) = {1, 2, 4, 7} /\ Called(0, 1, 0) = {1, 4}
      /\ Called(2, 0, 0) = {1, 3} /\ Called(1, 0, 0) = {1, 2} /\ Called(0, 0, 0) = {1}
  BY DEF Called
<1>2. /\ Max({1, 8}) = 8 /\ Max({1, 2, 4, 7}) = 7 /\ Max({1, 4}) = 4
      /\ Max({1, 3}) = 3 /\ Max({1, 2}) = 2 /\ Max({1}) = 1
  BY MaxIs
<1> QED
  BY ONLY <1>1, <1>2, Zenon

\* The entry found for a hand is the one for its place, and weighs all of its
\* ranks.
LEMMA EntryOfHand ==
  ASSUME NEW h, FiveCards(h), NEW table, IsTable(table)
  PROVE  /\ IsEntry(patternOf(table, rankCount(h)), Shape(h), Place(h), Cardinality(RanksOf(h)))
         /\ Place(h) \in {1, 2, 3, 4, 7, 8}
<1> DEFINE p == patternOf(table, rankCount(h))
           N(n) == Cardinality(Times(h, n))
           Found == /\ IsEntry(p, Shape(h), Place(h), Cardinality(RanksOf(h)))
                    /\ Place(h) \in {1, 2, 3, 4, 7, 8}
<1>1. p \in table /\ p.pattern = Shape(h)
  BY PatternFound
<1>2. Entries(p)
  BY <1>1 DEF IsTable
<1>3. Shape(h) = <<N(1), N(2), N(3), N(4)>> /\ Place(h) = Max(Called(N(2), N(3), N(4)))
  BY DEF Shape, Place
<1>4. Cardinality(RanksOf(h)) = N(1) + N(2) + N(3) + N(4)
  BY ShapeAdds
<1> HIDE DEF p, N
<1>5. ASSUME NEW a \in Nat, NEW b \in Nat, NEW c \in Nat, NEW d \in Nat, NEW place \in {1, 2, 3, 4, 7, 8}, NEW n,
             IsEntry(p, <<a, b, c, d>>, place, n), a + b + c + d = n,
             Max(Called(b, c, d)) = place
      PROVE  Found
  <2>1. <<a, b, c, d>> = Shape(h)
    BY <1>1, <1>5, Zenon DEF IsEntry
  <2>2. a = N(1) /\ b = N(2) /\ c = N(3) /\ d = N(4)
    BY ONLY <1>3, <2>1
  <2>3. Cardinality(RanksOf(h)) = n
    BY ONLY <1>4, <1>5, <2>2, Zenon
  <2>4. Place(h) = place
    BY ONLY <1>3, <1>5, <2>2, Zenon
  <2> QED
    BY ONLY <1>5, <2>1, <2>3, <2>4, place \in {1, 2, 3, 4, 7, 8}, Zenon
<1>6. Found
  <2> HIDE DEF Found
  <2>1. CASE IsEntry(p, <<1, 0, 0, 1>>, 8, 2)
    BY <1>5, <2>1, CalledHighest
  <2>2. CASE IsEntry(p, <<0, 1, 1, 0>>, 7, 2)
    BY <1>5, <2>2, CalledHighest
  <2>3. CASE IsEntry(p, <<2, 0, 1, 0>>, 4, 3)
    BY <1>5, <2>3, CalledHighest
  <2>4. CASE IsEntry(p, <<1, 2, 0, 0>>, 3, 3)
    BY <1>5, <2>4, CalledHighest
  <2>5. CASE IsEntry(p, <<3, 1, 0, 0>>, 2, 4)
    BY <1>5, <2>5, CalledHighest
  <2>6. CASE IsEntry(p, <<5, 0, 0, 0>>, 1, 5)
    BY <1>5, <2>6, CalledHighest
  <2> QED
    BY <1>2, <2>1, <2>2, <2>3, <2>4, <2>5, <2>6 DEF Entries
<1> QED
  BY <1>6 DEF p

\* A sum of numbers none of which is above k.
LEMMA TotalAtMost ==
  ASSUME NEW D, IsFiniteSet(D), NEW k \in Nat, NEW f \in [D -> 0..k]
  PROVE  Total(f) \in Nat /\ Total(f) <= k * Cardinality(D)
<1> DEFINE F == {r \in SUBSET D : ~ (TotalOn(f, r) \in Nat
                                       /\ TotalOn(f, r) <= k * Cardinality(r))}
<1>1. F = {}
  <2> SUFFICES ASSUME F # {} PROVE FALSE
    OBVIOUS
  <2>1. PICK r \in F : \A q \in F : q \subseteq r => q = r
    <3>1. F \subseteq SUBSET D
      OBVIOUS
    <3> HIDE DEF F
    <3> QED
      BY <3>1, SmallestSet
  <2>2. IsFiniteSet(r) /\ r \subseteq D /\ Cardinality(r) \in Nat
    BY FS_Subset, FS_CardinalityType
  <2>3. TotalOn(f, r) = IF r = {} THEN 0 ELSE f[Some(r)] + TotalOn(f, r \ {Some(r)})
    BY <2>2, TotalOnStep
  <2>4. r # {}
    <3> SUFFICES ASSUME r = {} PROVE FALSE
      OBVIOUS
    <3>1. Cardinality(r) = 0
      BY FS_EmptySet
    <3>2. k * Cardinality(r) = 0
      BY <3>1
    <3> QED
      BY <2>1, <2>3, <3>2
  <2> DEFINE q == r \ {Some(r)}
  <2>5. Some(r) \in r /\ q \in SUBSET r /\ q # r
    BY <2>4, SomeIsIn
  <2>6. TotalOn(f, q) \in Nat /\ TotalOn(f, q) <= k * Cardinality(q)
    BY <2>1, <2>2, <2>5
  <2>7. f[Some(r)] \in 0..k
    BY <2>2, <2>5
  <2>8. Cardinality(q) = Cardinality(r) - 1
    BY <2>2, <2>5, FS_RemoveElement
  <2>9. \A x, y \in Nat : x * (y - 1) + x = x * y /\ x * (y - 1) \in Int /\ x * y \in Int
    OBVIOUS
  <2> HIDE DEF q
  <2>10. TotalOn(f, q) <= k * (Cardinality(r) - 1)
    BY ONLY <2>6, <2>8, Zenon
  <2>11. TotalOn(f, r) = f[Some(r)] + TotalOn(f, q)
    BY <2>3, <2>4 DEF q
  <2>12. TotalOn(f, r) \in Nat /\ TotalOn(f, r) <= k * (Cardinality(r) - 1) + k
    BY <2>2, <2>6, <2>7, <2>9, <2>10, <2>11
  <2>13. TotalOn(f, r) \in Nat /\ TotalOn(f, r) <= k * Cardinality(r)
    BY ONLY <2>2, <2>9, <2>12, k \in Nat, Zenon
  <2> QED
    BY <2>1, <2>13
<1>2. D \in SUBSET D /\ D \notin F
  BY <1>1
<1>3. TotalOn(f, D) \in Nat /\ TotalOn(f, D) <= k * Cardinality(D)
  BY <1>2
<1> QED
  BY <1>3, TotalIsOnDomain

LEMMA PlaceInRange ==
  ASSUME NEW counted, IsFiniteSet(counted),
         \A b \in counted : b.rank \in 2..14 /\ b.count \in Nat,
         NEW a \in counted
  PROVE  placeOf(a, counted) \in 1..Cardinality(counted)
<1> DEFINE above == {b \in counted :
                       b.count > a.count \/ (b.count = a.count /\ b.rank > a.rank)}
<1>1. above \subseteq counted \ {a}
  OBVIOUS
<1>2. placeOf(a, counted) = 1 + Cardinality(above)
  BY DEF placeOf
<1> HIDE DEF above
<1>3. /\ IsFiniteSet(counted \ {a})
      /\ Cardinality(counted \ {a}) = Cardinality(counted) - 1
  BY FS_RemoveElement
<1>4. /\ Cardinality(above) \in Nat /\ Cardinality(counted) \in Nat
      /\ Cardinality(above) <= Cardinality(counted) - 1
  BY <1>1, <1>3, FS_Subset, FS_CardinalityType
<1> QED
  BY <1>2, <1>4

\* Whatever a hand's cards add to the score, they do not reach the next rank.
Little(w) == w \in Nat /\ w < Million

LEMMA WeightedBound ==
  ASSUME NEW h, FiveCards(h), NEW table, IsTable(table)
  PROVE  Little(weighted(patternOf(table, rankCount(h)), rankCount(h)))
<1> DEFINE p == patternOf(table, rankCount(h))
           counted == rankCount(h)
           n == Cardinality(counted)
           f == [a \in counted |-> p.weights[placeOf(a, counted)] * a.rank]
<1>1. /\ IsFiniteSet(counted) /\ n = Cardinality(RanksOf(h))
      /\ \A a \in counted : a.rank \in 2..14 /\ a.count \in Nat
  BY CountedSizes
<1>2. n \in Nat /\ n <= 5
  BY <1>1, RanksAreFinite DEF FiveCards
<1>3. \A i \in 1..n : p.weights[i] \in Weights
  BY <1>1, EntryOfHand DEF IsEntry
<1>4. \A a \in counted : placeOf(a, counted) \in 1..n
  BY <1>1, PlaceInRange
<1>5. weighted(p, counted) = Total(f)
  BY DEF weighted
<1>6. PICK k \in Nat : k = 140000
  BY SMT
<1>7. \A x \in Weights, y \in 2..14 : x * y \in 0..k
  <2>1. \A x, y, u \in Nat : x <= u /\ y <= 14 => x * y <= 14 * u /\ x * y \in Nat
    <3>1. ASSUME NEW x \in Nat, NEW y \in Nat, NEW u \in Nat, x <= u, y <= 14
          PROVE  x * y <= 14 * u /\ x * y \in Nat
      <4>1. x * y \in Nat /\ x * y <= x * 14
        BY <3>1, SMT
      <4> QED
        BY <3>1, <4>1, SMT
    <3> QED
      BY <3>1
  <2>2. ASSUME NEW x \in Weights, NEW y \in 2..14
        PROVE  x * y \in 0..k
    <3>1. PICK u \in Nat : u = 10000
      BY SMT
    <3>2. x \in Nat /\ x <= u /\ y \in Nat /\ y <= 14
      BY <3>1, SMT DEF Weights
    <3>3. x * y <= 14 * u /\ x * y \in Nat
      BY <2>1, <3>2
    <3>4. 14 * u = k
      BY <1>6, <3>1, SMT
    <3>5. \A z \in Nat : z <= k => z \in 0..k
      BY k \in Nat
    <3> QED
      BY ONLY <3>3, <3>4, <3>5, Zenon
  <2> QED
    BY <2>2
<1> HIDE DEF p, counted, n
<1>8. f \in [counted -> 0..k]
  BY <1>1, <1>3, <1>4, <1>7
<1> HIDE DEF f
<1>9. Total(f) \in Nat /\ Total(f) <= k * n
  BY <1>1, <1>8, TotalAtMost DEF n
<1>10. k * n \in Nat /\ k * n < Million
  BY <1>2, <1>6, SMT DEF Million
<1>11. Million \in Nat
  BY SMT DEF Million
<1>12. Little(Total(f))
  <2>1. \A x, y, z \in Nat : x <= y /\ y < z => x < z
    OBVIOUS
  <2> QED
    BY ONLY <1>9, <1>10, <1>11, <2>1, Zenon DEF Little
<1> QED
  BY <1>5, <1>12 DEF p, counted

--------------------------------------------------------------------------------
(***************************************************************************)
(* Straights and flushes                                                   *)
(***************************************************************************)
\* A finite set of integers has a highest and a lowest member.
LEMMA Extremes ==
  ASSUME NEW S, S \subseteq Int, IsFiniteSet(S), S # {}
  PROVE  /\ Max(S) \in S /\ \A y \in S : y <= Max(S)
         /\ Min(S) \in S /\ \A y \in S : Min(S) <= y
<1> DEFINE Above(x) == {y \in S : y >= x}
           Below(x) == {y \in S : y <= x}
<1>1. \E x \in S : \A y \in S : x >= y
  <2>1. PICK F : F = {Above(x) : x \in S}
    OBVIOUS
  <2>2. PICK s \in F : \A r \in F : r \subseteq s => r = s
    <3>1. F \subseteq SUBSET S /\ F # {}
      BY <2>1
    <3> QED
      BY ONLY IsFiniteSet(S), <3>1, SmallestSet
  <2>3. PICK x \in S : s = Above(x)
    BY <2>1
  <2>4. ASSUME NEW y \in S, y > x PROVE FALSE
    <3>1. Above(y) \in F
      BY <2>1
    <3>2. x \in Int /\ y \in Int /\ \A z \in Above(y) : z \in Int
      OBVIOUS
    <3>3. Above(y) \subseteq Above(x)
      <4>1. \A z \in Above(y) : z >= x
        BY <2>4, <3>2
      <4> QED
        BY <4>1
    <3>4. x \in Above(x) /\ x \notin Above(y)
      BY <2>4, <3>2
    <3> HIDE DEF Above
    <3> QED
      BY ONLY <2>2, <2>3, <3>1, <3>3, <3>4
  <2> QED
    BY <2>4
<1>2. \E x \in S : \A y \in S : x =< y
  <2>1. PICK F : F = {Below(x) : x \in S}
    OBVIOUS
  <2>2. PICK s \in F : \A r \in F : r \subseteq s => r = s
    <3>1. F \subseteq SUBSET S /\ F # {}
      BY <2>1
    <3> QED
      BY ONLY IsFiniteSet(S), <3>1, SmallestSet
  <2>3. PICK x \in S : s = Below(x)
    BY <2>1
  <2>4. ASSUME NEW y \in S, y < x PROVE FALSE
    <3>1. Below(y) \in F
      BY <2>1
    <3>2. x \in Int /\ y \in Int /\ \A z \in Below(y) : z \in Int
      OBVIOUS
    <3>3. Below(y) \subseteq Below(x)
      <4>1. \A z \in Below(y) : z <= x
        BY <2>4, <3>2
      <4> QED
        BY <4>1
    <3>4. x \in Below(x) /\ x \notin Below(y)
      BY <2>4, <3>2
    <3> HIDE DEF Below
    <3> QED
      BY ONLY <2>2, <2>3, <3>1, <3>3, <3>4
  <2> QED
    BY <2>4
<1>3. Max(S) \in S /\ \A y \in S : Max(S) >= y
  BY <1>1 DEF Max
<1>4. Min(S) \in S /\ \A y \in S : Min(S) <= y
  BY <1>2 DEF Min
<1> QED
  BY <1>3, <1>4

\* A finite set has an element at which f is highest.
LEMMA HighestOf ==
  ASSUME NEW S, IsFiniteSet(S), S # {}, NEW f, DOMAIN f = S, f = [x \in S |-> f[x]],
         \A x \in S : f[x] \in Int
  PROVE  \E x \in S : \A y \in S : f[y] <= f[x]
<1> DEFINE T == {f[x] : x \in S}
<1>1. T \subseteq Int /\ IsFiniteSet(T) /\ T # {}
  BY ImageSize
<1>2. Max(T) \in T /\ \A y \in T : y <= Max(T)
  <2> HIDE DEF T
  <2> QED
    BY <1>1, Extremes
<1> QED
  BY <1>2

\* Five values in a row.
Five(S) == \E m \in Int : S = m..(m + 4)

LEMMA FiveInARow ==
  ASSUME NEW S \in SUBSET Int, IsFiniteSet(S), S # {}
  PROVE  Cardinality(S) = 5 /\ Max(S) - Min(S) = 4 <=> Five(S)
<1>1. /\ Max(S) \in S /\ \A y \in S : y <= Max(S)
      /\ Min(S) \in S /\ \A y \in S : Min(S) <= y
  BY Extremes
<1>2. ASSUME Cardinality(S) = 5, Max(S) - Min(S) = 4 PROVE Five(S)
  <2>1. PICK m \in Int : m = Min(S) /\ m + 4 = Max(S)
    <3>1. Min(S) \in Int /\ Max(S) \in Int
      BY Extremes
    <3>2. Min(S) + 4 = Max(S)
      BY <1>2, <3>1
    <3> QED
      BY <3>1, <3>2
  <2>2. S \subseteq m..(m + 4)
    BY <1>1, <2>1
  <2>3. IsFiniteSet(m..(m + 4)) /\ Cardinality(m..(m + 4)) = 5
    BY FS_Interval
  <2> QED
    BY <1>2, <2>2, <2>3, FS_Subset DEF Five
<1>3. ASSUME Five(S) PROVE Cardinality(S) = 5 /\ Max(S) - Min(S) = 4
  <2>1. PICK m \in Int : S = m..(m + 4)
    BY <1>3 DEF Five
  <2>2. Cardinality(S) = 5
    BY <2>1, FS_Interval
  <2>3. m \in S /\ m + 4 \in S
    BY <2>1
  <2>4. Max(S) = m + 4 /\ Min(S) = m
    BY <1>1, <2>1, <2>3
  <2> QED
    BY <2>2, <2>4
<1> QED
  BY <1>2, <1>3

LEMMA HandIsNotEmpty ==
  ASSUME NEW h, FiveCards(h)
  PROVE  /\ h # {} /\ RanksOf(h) # {} /\ RanksOf(h) \in SUBSET (2..14)
         /\ RanksOf(h) \in SUBSET Int /\ IsFiniteSet(RanksOf(h))
         /\ Cardinality(RanksOf(h)) <= 5 /\ Cardinality(RanksOf(h)) \in Nat
<1>1. h # {}
  BY FS_EmptySet DEF FiveCards
<1>2. /\ RanksOf(h) \in SUBSET (2..14) /\ IsFiniteSet(RanksOf(h))
      /\ Cardinality(RanksOf(h)) <= 5 /\ Cardinality(RanksOf(h)) \in Nat
  BY RanksAreFinite DEF FiveCards
<1>3. RanksOf(h) # {}
  BY <1>1 DEF RanksOf
<1> QED
  BY <1>1, <1>2, <1>3

\* checkStraight finds the straights in which the ace is high or absent.
LEMMA StraightIsFive ==
  ASSUME NEW h, FiveCards(h)
  PROVE  checkStraight(h) <=> Five(RanksOf(h))
<1> DEFINE R == RanksOf(h)
<1>1. R \in SUBSET Int /\ IsFiniteSet(R) /\ R # {} /\ Cardinality(R) <= 5 /\ Cardinality(R) \in Nat
  BY HandIsNotEmpty
<1>2. checkStraight(h) <=> \A i \in 1..4 : Max(R) - i \in R
  BY DEF checkStraight
<1> HIDE DEF R
<1>3. ASSUME \A i \in 1..4 : Max(R) - i \in R PROVE Five(R)
  <2>1. PICK M \in R : M = Max(R)
    BY <1>1, Extremes
  <2>2. M - 1 \in R /\ M - 2 \in R /\ M - 3 \in R /\ M - 4 \in R
    BY <1>3, <2>1
  <2>3. PICK m \in Int : m = M - 4
    BY <1>1
  <2>4. m..(m + 4) \subseteq R
    BY <1>1, <2>2, <2>3
  <2>5. IsFiniteSet(m..(m + 4)) /\ Cardinality(m..(m + 4)) = 5
    BY FS_Interval
  <2>6. 5 <= Cardinality(R)
    BY <1>1, <2>4, <2>5, FS_Subset
  <2>7. Cardinality(R) = 5
    BY <1>1, <2>6
  <2> QED
    BY <1>1, <2>4, <2>5, <2>7, FS_Subset DEF Five
<1>4. ASSUME Five(R) PROVE \A i \in 1..4 : Max(R) - i \in R
  <2>1. PICK m \in Int : R = m..(m + 4)
    BY <1>4 DEF Five
  <2>2. Max(R) = m + 4
    <3>1. Max(R) \in R /\ \A y \in R : y <= Max(R)
      BY <1>1, Extremes
    <3>2. m + 4 \in R
      BY <2>1
    <3> QED
      BY <2>1, <3>1, <3>2
  <2> QED
    BY <2>1, <2>2
<1> QED
  BY <1>2, <1>3, <1>4 DEF R

Values(h, ace) == {Value(c, ace) : c \in h}

LEMMA RowIsFive ==
  ASSUME NEW h, FiveCards(h), NEW ace \in Int
  PROVE  /\ Values(h, ace) = {v \in RanksOf(h) : v # Ace} \cup (IF Ace \in RanksOf(h) THEN {ace} ELSE {})
         /\ InARow(h, ace) <=> Five(Values(h, ace))
<1> DEFINE V == Values(h, ace)
           R == RanksOf(h)
<1>1. V = {v \in R : v # Ace} \cup (IF Ace \in R THEN {ace} ELSE {})
  BY DEF Values, Value, RanksOf
<1>2. R \in SUBSET Int /\ IsFiniteSet(R) /\ h # {}
  BY HandIsNotEmpty
<1>3. V # {}
  BY <1>2 DEF Values
<1>4. InARow(h, ace) <=> Cardinality(V) = 5 /\ Max(V) - Min(V) = 4
  BY DEF InARow, Values
<1> HIDE DEF V, R
<1>5. V \in SUBSET Int /\ IsFiniteSet(V)
  <2>1. V \subseteq R \cup {ace} /\ IsFiniteSet(R \cup {ace})
    BY <1>1, <1>2, FS_AddElement
  <2> QED
    BY <1>2, <2>1, FS_Subset
<1>6. InARow(h, ace) <=> Five(V)
  BY <1>3, <1>4, <1>5, FiveInARow
<1> QED
  BY <1>1, <1>6 DEF V, R

\* The two tests of the code find what the rules call cards in a row.
LEMMA StraightsFound ==
  ASSUME NEW h, FiveCards(h)
  PROVE  /\ InARow(h, Ace) <=> checkStraight(h)
         /\ InARow(h, 1) \/ InARow(h, Ace) <=> checkStraight(h) \/ checkWheel(h)
         /\ ~ (checkWheel(h) /\ checkStraight(h))
         /\ ~ checkWheel(h) => Values(h, AceOf(h)) = RanksOf(h)
<1> DEFINE R == RanksOf(h)
           low == {v \in R : v # Ace} \cup (IF Ace \in R THEN {1} ELSE {})
<1>1. R \in SUBSET (2..14)
  BY HandIsNotEmpty
<1>2. Values(h, Ace) = R /\ (InARow(h, Ace) <=> Five(R))
  BY RowIsFive DEF Ace
<1>3. Values(h, 1) = low /\ (InARow(h, 1) <=> Five(low))
  BY RowIsFive
<1>4. checkStraight(h) <=> Five(R)
  BY StraightIsFive
<1>5. checkWheel(h) <=> R = {2, 3, 4, 5, 14}
  BY DEF checkWheel, Ace
<1> HIDE DEF R
<1>6. ASSUME R = {2, 3, 4, 5, 14} PROVE Five(low) /\ ~ Five(R)
  <2>1. low = 1..5
    BY <1>6 DEF Ace
  <2>2. 1..5 = 1..(1 + 4)
    OBVIOUS
  <2>3. ASSUME NEW m \in Int, R = m..(m + 4) PROVE FALSE
    <3>1. 2 \in R /\ 14 \in R
      BY <1>6
    <3> QED
      BY <2>3, <3>1
  <2>4. Five(low)
    <3>1. 1 \in Int /\ low = 1..(1 + 4)
      BY <2>1, <2>2
    <3> HIDE DEF low
    <3> QED
      BY <3>1 DEF Five
  <2>5. ~ Five(R)
    BY <2>3 DEF Five
  <2> QED
    BY <2>4, <2>5
<1>7. ASSUME Five(low), Ace \in R PROVE R = {2, 3, 4, 5, 14}
  <2>1. PICK m \in Int : low = m..(m + 4)
    BY <1>7 DEF Five
  <2>2. 1 \in low /\ \A v \in low : v >= 1 /\ v < 14
    BY <1>1, <1>7 DEF Ace
  <2>3. m = 1
    <3>1. m \in low
      BY <2>1
    <3>2. m >= 1 /\ 1 >= m
      BY <2>1, <2>2, <3>1
    <3> QED
      BY <3>2
  <2>4. \A v : v \in R <=> v = 14 \/ (v \in low /\ v # 1)
    BY <1>1, <1>7 DEF Ace
  <2>5. low = {1, 2, 3, 4, 5}
    BY <2>1, <2>3
  <2> HIDE DEF low
  <2> QED
    BY <2>4, <2>5
<1>8. Ace \notin R => low = R
  OBVIOUS
<1>9. R # {2, 3, 4, 5, 14} => Values(h, AceOf(h)) = R
  <2> HIDE DEF low
  <2> QED
    BY <1>2, <1>3, <1>7, <1>8, Zenon DEF AceOf
<1> HIDE DEF low
<1>10. Five(low) \/ Five(R) <=> Five(R) \/ R = {2, 3, 4, 5, 14}
  BY <1>6, <1>7, <1>8, Zenon
<1> QED
  BY <1>2, <1>3, <1>4, <1>5, <1>6, <1>9, <1>10, Zenon DEF R

LEMMA FlushFound ==
  ASSUME NEW h, FiveCards(h)
  PROVE  isFlush(h) <=> \E s \in Suits : \A c \in h : c.suit = s
<1> DEFINE f == [c \in h |-> c.suit]
           T == {f[c] : c \in h}
<1>1. h \in SUBSET Card /\ IsFiniteSet(h) /\ h # {}
  BY HandIsNotEmpty DEF FiveCards
<1>2. isFlush(h) <=> Cardinality(T) = 1
  BY DEF isFlush
<1>3. \A c \in h : f[c] = c.suit /\ c.suit \in Suits
  BY <1>1 DEF Card
<1>4. DOMAIN f = h /\ f = [x \in h |-> f[x]]
  OBVIOUS
<1> HIDE DEF f
<1>5. IsFiniteSet(T)
  BY <1>1, <1>4, ImageSize
<1>6. Cardinality(T) = 1 <=> \E s : T = {s}
  BY <1>5, FS_Singleton
<1>7. (\E s : T = {s}) <=> \E s \in Suits : \A c \in h : c.suit = s
  <2>1. ASSUME NEW s, T = {s} PROVE s \in Suits /\ \A c \in h : c.suit = s
    <3>1. \A c \in h : f[c] = s
      BY <2>1
    <3> QED
      BY <1>1, <1>3, <3>1
  <2>2. ASSUME NEW s \in Suits, \A c \in h : c.suit = s PROVE T = {s}
    <3>1. \A c \in h : f[c] = s
      BY <1>3, <2>2
    <3> QED
      BY <1>1, <3>1
  <2> HIDE DEF T
  <2> QED
    BY <2>1, <2>2
<1> QED
  BY <1>2, <1>6, <1>7

--------------------------------------------------------------------------------
(***************************************************************************)
(* What a hand is called                                                   *)
(***************************************************************************)
Row(h) == InARow(h, 1) \/ InARow(h, Ace)
OneSuit(h) == \E s \in Suits : \A c \in h : c.suit = s
Royal(h) == InARow(h, Ace) /\ Ace \in RanksOf(h)

\* What a hand can be called that is in a row or of one suit.
RowOrSuit(h) ==
  (IF Row(h) THEN {5} ELSE {}) \cup (IF OneSuit(h) THEN {6} ELSE {})
    \cup (IF Row(h) /\ OneSuit(h) THEN {9} ELSE {})
    \cup (IF OneSuit(h) /\ InARow(h, Ace) /\ Ace \in RanksOf(h) THEN {10} ELSE {})

LEMMA HeldIsTimes ==
  ASSUME NEW h, FiveCards(h), ~ InARow(h, 1), NEW n
  PROVE  Held(h, n) = Times(h, n)
<1>1. AceOf(h) = Ace
  BY DEF AceOf
<1>2. \A c \in h : Value(c, Ace) = c.rank
  BY DEF Value
<1>3. {Value(c, Ace) : c \in h} = RanksOf(h)
  BY <1>2 DEF RanksOf
<1>4. \A v : {c \in h : Value(c, Ace) = v} = {c \in h : c.rank = v}
  BY <1>2
<1>5. Held(h, n) = {v \in {Value(c, Ace) : c \in h} :
                      Cardinality({c \in h : Value(c, Ace) = v}) = n}
  BY <1>1, Zenon DEF Held
<1> QED
  BY <1>3, <1>4, <1>5, Zenon DEF Times, Count

LEMMA CategoryOfHand ==
  ASSUME NEW h, FiveCards(h)
  PROVE  /\ Row(h) /\ OneSuit(h) => Category(h) = IF Royal(h) THEN 10 ELSE 9
         /\ Row(h) /\ ~ OneSuit(h) => Category(h) = 5
         /\ ~ Row(h) /\ OneSuit(h) => Category(h) = 6
         /\ ~ Row(h) /\ ~ OneSuit(h) => Category(h) = Place(h)
<1>1. Row(h) \/ OneSuit(h) => Category(h) = Max(RowOrSuit(h))
  BY DEF Category, RowOrSuit, Row, OneSuit
<1>2. ~ Row(h) /\ ~ OneSuit(h) =>
        Category(h) =
          Max({1} \cup (IF Cardinality(Held(h, 2)) = 1 THEN {2} ELSE {})
                \cup (IF Cardinality(Held(h, 2)) = 2 THEN {3} ELSE {})
                \cup (IF Held(h, 3) # {} THEN {4} ELSE {})
                \cup (IF Held(h, 3) # {} /\ Cardinality(Held(h, 2)) = 1 THEN {7} ELSE {})
                \cup (IF Held(h, 4) # {} THEN {8} ELSE {}))
  BY DEF Category, Row, OneSuit
<1>3. Royal(h) => Row(h)
  BY DEF Royal, Row
<1>4. ASSUME Row(h), OneSuit(h) PROVE Category(h) = IF Royal(h) THEN 10 ELSE 9
  <2>1. CASE Royal(h)
    <3>1. RowOrSuit(h) = {5, 6, 9, 10}
      BY <1>4, <2>1 DEF RowOrSuit, Royal
    <3>2. Max({5, 6, 9, 10}) = 10
      BY MaxIs
    <3> QED
      BY <1>1, <1>4, <2>1, <3>1, <3>2
  <2>2. CASE ~ Royal(h)
    <3>1. RowOrSuit(h) = {5, 6, 9}
      BY <1>4, <2>2 DEF RowOrSuit, Royal
    <3>2. Max({5, 6, 9}) = 9
      BY MaxIs
    <3> QED
      BY <1>1, <1>4, <2>2, <3>1, <3>2
  <2> QED
    BY <2>1, <2>2
<1>5. ASSUME Row(h), ~ OneSuit(h) PROVE Category(h) = 5
  <2>1. RowOrSuit(h) = {5}
    BY <1>5 DEF RowOrSuit
  <2>2. Max({5}) = 5
    BY MaxIs
  <2> QED
    BY <1>1, <1>5, <2>1, <2>2
<1>6. ASSUME ~ Row(h), OneSuit(h) PROVE Category(h) = 6
  <2>1. RowOrSuit(h) = {6}
    BY <1>3, <1>6 DEF RowOrSuit, Royal
  <2>2. Max({6}) = 6
    BY MaxIs
  <2> QED
    BY <1>1, <1>6, <2>1, <2>2
<1>7. ASSUME ~ Row(h), ~ OneSuit(h) PROVE Category(h) = Place(h)
  <2>1. \A n : Held(h, n) = Times(h, n)
    BY <1>7, HeldIsTimes DEF Row
  <2>2. \A n : Times(h, n) # {} <=> Cardinality(Times(h, n)) # 0
    BY TimesAreFinite, FS_EmptySet
  <2> QED
    BY <1>2, <1>7, <2>1, <2>2 DEF Place, Called
<1> QED
  BY <1>4, <1>5, <1>6, <1>7

--------------------------------------------------------------------------------
(***************************************************************************)
(* Scores                                                                  *)
(***************************************************************************)
LEMMA ScoreTells ==
  ASSUME NEW k \in 1..10, NEW w, Little(w)
  PROVE  /\ (k * Million + w) \div Million = k
         /\ k * Million + w \in Nat
BY SMT DEF Million, Little

HighOf(h) == IF checkWheel(h) THEN 5 ELSE Max(RanksOf(h))

\* The cases of evaluateFive in the terms of the rules.
LEMMA Evaluated ==
  ASSUME NEW h, FiveCards(h), NEW table
  PROVE  LET p == patternOf(table, rankCount(h))
             w == weighted(p, rankCount(h))
             e == evaluateWith(table, h)
         IN /\ HighOf(h) \in 2..14
            /\ Row(h) => (HighOf(h) = Ace <=> Royal(h))
            /\ Row(h) /\ OneSuit(h) /\ Royal(h) => e = Made("ROYAL_FLUSH", 10 * Million)
            /\ Row(h) /\ OneSuit(h) /\ ~ Royal(h) =>
                 e = Made("STRAIGHT_FLUSH", 9 * Million + HighOf(h))
            /\ Row(h) /\ ~ OneSuit(h) => e = Made("STRAIGHT", 5 * Million + HighOf(h))
            /\ ~ Row(h) /\ OneSuit(h) => e = Made("FLUSH", 6 * Million + w)
            /\ ~ Row(h) /\ ~ OneSuit(h) => e = Made(p.type, p.base + w)
<1> DEFINE p == patternOf(table, rankCount(h))
           w == weighted(p, rankCount(h))
           e == evaluateWith(table, h)
<1>1. Row(h) <=> checkStraight(h) \/ checkWheel(h)
  BY StraightsFound DEF Row
<1>2. OneSuit(h) <=> isFlush(h)
  BY FlushFound DEF OneSuit
<1>3. /\ RanksOf(h) \subseteq 2..14
      /\ Max(RanksOf(h)) \in RanksOf(h) /\ \A y \in RanksOf(h) : y <= Max(RanksOf(h))
  <2>1. RanksOf(h) \subseteq 2..14 /\ RanksOf(h) \subseteq Int
        /\ IsFiniteSet(RanksOf(h)) /\ RanksOf(h) # {}
    BY HandIsNotEmpty
  <2> QED
    BY <2>1, Extremes
<1>4. HighOf(h) \in 2..14
  BY <1>3 DEF HighOf
<1>5. ASSUME Row(h) PROVE HighOf(h) = Ace <=> Royal(h)
  <2>1. Max(RanksOf(h)) = Ace <=> Ace \in RanksOf(h)
    BY <1>3 DEF Ace
  <2>2. InARow(h, Ace) <=> checkStraight(h) /\ ~ checkWheel(h)
    BY StraightsFound
  <2> QED
    BY <1>1, <1>5, <2>1, <2>2 DEF Royal, Ace, HighOf
<1>6. /\ Row(h) /\ OneSuit(h) /\ HighOf(h) = Ace => e = Made("ROYAL_FLUSH", 10 * Million)
      /\ Row(h) /\ OneSuit(h) /\ HighOf(h) # Ace =>
           e = Made("STRAIGHT_FLUSH", 9 * Million + HighOf(h))
      /\ Row(h) /\ ~ OneSuit(h) => e = Made("STRAIGHT", 5 * Million + HighOf(h))
      /\ ~ Row(h) /\ OneSuit(h) => e = Made("FLUSH", 6 * Million + w)
      /\ ~ Row(h) /\ ~ OneSuit(h) => e = Made(p.type, p.base + w)
  BY <1>1, <1>2, Zenon DEF evaluateWith, HighOf
<1> HIDE DEF p, w, e
<1>7. /\ Row(h) /\ OneSuit(h) /\ Royal(h) => e = Made("ROYAL_FLUSH", 10 * Million)
      /\ Row(h) /\ OneSuit(h) /\ ~ Royal(h) =>
           e = Made("STRAIGHT_FLUSH", 9 * Million + HighOf(h))
  BY <1>5, <1>6, Zenon
<1> QED
  BY <1>4, <1>5, <1>6, <1>7, Zenon DEF p, w, e

\* Whichever of the two tables is used, a hand is called what the rules call
\* it and its score tells its rank.
LEMMA EvaluationFollowsRules ==
  ASSUME NEW h, FiveCards(h), NEW table, IsTable(table)
  PROVE  /\ Category(h) \in 1..10
         /\ evaluateWith(table, h).type = RankTypes[Category(h)]
         /\ evaluateWith(table, h).score \in Nat
         /\ evaluateWith(table, h).score \div Million = Category(h)
<1> DEFINE p == patternOf(table, rankCount(h))
           w == weighted(p, rankCount(h))
           high == HighOf(h)
           e == evaluateWith(table, h)
<1>1. Little(w)
  BY WeightedBound
<1>2. p.type = RankTypes[Place(h)] /\ p.base = Place(h) * Million /\ Place(h) \in 1..8
  BY EntryOfHand DEF IsEntry
<1>3. high \in 2..14
  BY Evaluated
<1>4. /\ Row(h) /\ OneSuit(h) /\ Royal(h) => e = Made("ROYAL_FLUSH", 10 * Million)
      /\ Row(h) /\ OneSuit(h) /\ ~ Royal(h) =>
           e = Made("STRAIGHT_FLUSH", 9 * Million + high)
      /\ Row(h) /\ ~ OneSuit(h) => e = Made("STRAIGHT", 5 * Million + high)
      /\ ~ Row(h) /\ OneSuit(h) => e = Made("FLUSH", 6 * Million + w)
      /\ ~ Row(h) /\ ~ OneSuit(h) => e = Made(p.type, p.base + w)
  BY Evaluated, Zenon
<1>5. Little(high) /\ Little(0) /\ 10 * Million + 0 = 10 * Million
  BY <1>3, SMT DEF Million, Little
<1>6. ASSUME NEW k \in 1..10, NEW x, Little(x),
             Category(h) = k, e = Made(RankTypes[k], k * Million + x)
      PROVE  /\ Category(h) \in 1..10 /\ e.type = RankTypes[Category(h)]
             /\ e.score \in Nat /\ e.score \div Million = Category(h)
  <2>1. e.type = RankTypes[k] /\ e.score = k * Million + x
    BY <1>6 DEF Made
  <2> QED
    BY <1>6, <2>1, ScoreTells, Zenon
<1>7. /\ RankTypes[10] = "ROYAL_FLUSH" /\ RankTypes[9] = "STRAIGHT_FLUSH"
       /\ RankTypes[5] = "STRAIGHT" /\ RankTypes[6] = "FLUSH"
  BY DEF RankTypes
<1> HIDE DEF p, w, high, e
<1> DEFINE Right == /\ Category(h) \in 1..10 /\ e.type = RankTypes[Category(h)]
                    /\ e.score \in Nat /\ e.score \div Million = Category(h)
<1>8. Right
  <2> HIDE DEF Right
  <2>1. \A k \in 1..10 : \A x :
          Little(x) /\ Category(h) = k /\ e = Made(RankTypes[k], k * Million + x) => Right
    BY <1>6 DEF Right
  <2>2. CASE Row(h) /\ OneSuit(h) /\ Royal(h)
    <3>1. Category(h) = 10 /\ e = Made("ROYAL_FLUSH", 10 * Million + 0)
      BY <1>4, <1>5, <2>2, CategoryOfHand
    <3>2. 10 \in 1..10
      OBVIOUS
    <3> QED
      BY <1>5, <1>7, <2>1, <3>1, <3>2, Zenon
  <2>3. CASE Row(h) /\ OneSuit(h) /\ ~ Royal(h)
    <3>1. Category(h) = 9 /\ e = Made("STRAIGHT_FLUSH", 9 * Million + high)
      BY <1>4, <2>3, CategoryOfHand
    <3>2. 9 \in 1..10
      OBVIOUS
    <3> QED
      BY <1>5, <1>7, <2>1, <3>1, <3>2, Zenon
  <2>4. CASE Row(h) /\ ~ OneSuit(h)
    <3>1. Category(h) = 5 /\ e = Made("STRAIGHT", 5 * Million + high)
      BY <1>4, <2>4, CategoryOfHand
    <3>2. 5 \in 1..10
      OBVIOUS
    <3> QED
      BY <1>5, <1>7, <2>1, <3>1, <3>2, Zenon
  <2>5. CASE ~ Row(h) /\ OneSuit(h)
    <3>1. Category(h) = 6 /\ e = Made("FLUSH", 6 * Million + w)
      BY <1>4, <2>5, CategoryOfHand
    <3>2. 6 \in 1..10
      OBVIOUS
    <3> QED
      BY <1>1, <1>7, <2>1, <3>1, <3>2, Zenon
  <2>6. CASE ~ Row(h) /\ ~ OneSuit(h)
    <3>1. Category(h) = Place(h) /\ e = Made(p.type, p.base + w)
      BY <1>4, <2>6, CategoryOfHand
    <3>2. Place(h) \in 1..10
      BY <1>2
    <3>3. e = Made(RankTypes[Place(h)], Place(h) * Million + w)
      BY <1>2, <3>1, Zenon
    <3> QED
      BY <1>1, <2>1, <3>1, <3>2, <3>3, Zenon
  <2> QED
    BY <2>2, <2>3, <2>4, <2>5, <2>6
<1> QED
  BY <1>8 DEF e

--------------------------------------------------------------------------------
(***************************************************************************)
(* The best five of a player's cards                                       *)
(***************************************************************************)
LEMMA FivesExist ==
  ASSUME NEW S, S \subseteq Card, IsFiniteSet(S), Cardinality(S) >= 5
  PROVE  /\ Fives(S) # {} /\ IsFiniteSet(Fives(S))
         /\ \A h \in Fives(S) : FiveCards(h)
<1>1. Fives(S) \subseteq SUBSET S /\ IsFiniteSet(SUBSET S)
  BY FS_SUBSET DEF Fives
<1>2. IsFiniteSet(Fives(S))
  BY <1>1, FS_Subset
<1>3. \A h \in Fives(S) : FiveCards(h)
  <2>1. ASSUME NEW h \in Fives(S) PROVE FiveCards(h)
    <3>1. h \in SUBSET S /\ Cardinality(h) = 5
      BY DEF Fives
    <3> QED
      BY <3>1, FS_Subset DEF FiveCards
  <2> QED
    BY <2>1
<1>4. PICK F : F = {T \in SUBSET S : Cardinality(T) >= 5}
  OBVIOUS
<1>5. PICK T \in F : \A U \in F : U \subseteq T => U = T
  <2>1. F \subseteq SUBSET S /\ S \in F
    BY <1>4
  <2>2. F # {}
    BY <2>1
  <2> QED
    BY ONLY IsFiniteSet(S), <2>1, <2>2, SmallestSet
<1>6. /\ T \in SUBSET S /\ IsFiniteSet(T) /\ Cardinality(T) \in Nat /\ Cardinality(T) >= 5
  BY <1>4, FS_Subset, FS_CardinalityType
<1>7. Cardinality(T) = 5
  <2>1. T # {}
    BY <1>6, FS_EmptySet
  <2>2. PICK c : c \in T
    BY <2>1
  <2>3. Cardinality(T \ {c}) = Cardinality(T) - 1
    BY <1>6, <2>2, FS_RemoveElement
  <2>4. T \ {c} \notin F
    BY <1>5, <2>2
  <2>5. ~ (Cardinality(T \ {c}) >= 5)
    BY <1>4, <1>6, <2>4
  <2> QED
    BY <1>6, <2>3, <2>5
<1>8. T \in Fives(S)
  BY <1>6, <1>7 DEF Fives
<1> QED
  BY <1>2, <1>3, <1>8

Best(table, S) ==
  LET made == {evaluateWith(table, h) : h \in Fives(S)}
  IN CHOOSE best \in made : \A m \in made : m.score <= best.score

\* A combination with the highest score exists.
LEMMA BestScores ==
  ASSUME NEW S, S \subseteq Card, IsFiniteSet(S), Cardinality(S) >= 5,
         NEW table, IsTable(table)
  PROVE  /\ \E h \in Fives(S) : Best(table, S) = evaluateWith(table, h)
         /\ \A h \in Fives(S) : evaluateWith(table, h).score <= Best(table, S).score
<1> DEFINE e == [h \in Fives(S) |-> evaluateWith(table, h).score]
           made == {evaluateWith(table, h) : h \in Fives(S)}
<1>1. /\ Fives(S) # {} /\ IsFiniteSet(Fives(S))
      /\ \A h \in Fives(S) : FiveCards(h)
  BY FivesExist
<1>2. \A h \in Fives(S) : evaluateWith(table, h).score \in Nat
  BY <1>1, EvaluationFollowsRules
<1>3. DOMAIN e = Fives(S) /\ e = [x \in Fives(S) |-> e[x]]
  OBVIOUS
<1>4. \A h \in Fives(S) : e[h] = evaluateWith(table, h).score
  OBVIOUS
<1> HIDE DEF e
<1>5. PICK h \in Fives(S) : \A g \in Fives(S) : e[g] <= e[h]
  BY <1>1, <1>2, <1>3, <1>4, HighestOf
<1>6. \A g \in Fives(S) : evaluateWith(table, g).score <= evaluateWith(table, h).score
  BY <1>4, <1>5
<1>7. \E best \in made : \A m \in made : m.score <= best.score
  BY <1>6
<1>8. Best(table, S) \in made /\ \A m \in made : m.score <= Best(table, S).score
  <2>1. Best(table, S) = CHOOSE best \in made : \A m \in made : m.score <= best.score
    BY DEF Best
  <2> HIDE DEF made
  <2> QED
    BY <1>7, <2>1
<1> QED
  BY <1>8

\* The combination with the highest score is one of the highest rank.
LEMMA BestIsHighest ==
  ASSUME NEW S, S \subseteq Card, IsFiniteSet(S), Cardinality(S) >= 5,
         NEW table, IsTable(table),
         NEW h \in Fives(S), Best(table, S) = evaluateWith(table, h)
  PROVE  /\ Best(table, S).type = RankTypes[Category(h)]
         /\ \A g \in Fives(S) : Category(g) <= Category(h)
<1>1. \A g \in Fives(S) :
        /\ Category(g) \in 1..10
        /\ evaluateWith(table, g).type = RankTypes[Category(g)]
        /\ evaluateWith(table, g).score \in Nat
        /\ evaluateWith(table, g).score \div Million = Category(g)
  BY FivesExist, EvaluationFollowsRules
<1>2. ASSUME NEW g \in Fives(S) PROVE Category(g) <= Category(h)
  <2>1. evaluateWith(table, g).score <= evaluateWith(table, h).score
    BY BestScores
  <2>2. \A x, y \in Nat : x <= y => x \div Million <= y \div Million
    BY SMT DEF Million
  <2>3. /\ evaluateWith(table, g).score \in Nat /\ evaluateWith(table, h).score \in Nat
        /\ evaluateWith(table, g).score \div Million = Category(g)
        /\ evaluateWith(table, h).score \div Million = Category(h)
    BY <1>1
  <2>4. evaluateWith(table, g).score \div Million <= evaluateWith(table, h).score \div Million
    BY ONLY <2>1, <2>2, <2>3, Zenon
  <2> QED
    BY ONLY <2>3, <2>4, Zenon
<1> QED
  BY <1>1, <1>2

--------------------------------------------------------------------------------
(***************************************************************************)
(* The places of the ranks of a hand                                       *)
(***************************************************************************)
Higher(b, a) == b.count > a.count \/ (b.count = a.count /\ b.rank > a.rank)
Above(a, counted) == {b \in counted : Higher(b, a)}

\* A record of counts, as rankCount gives.
IsCount(a) == /\ a = [rank |-> a.rank, count |-> a.count]
              /\ a.rank \in 2..14 /\ a.count \in 1..4

LEMMA Counted ==
  ASSUME NEW h, FiveCards(h)
  PROVE  /\ \A a \in rankCount(h) : IsCount(a)
         /\ \A a : IsCount(a) => (a \in rankCount(h) <=> a.rank \in Times(h, a.count))
         /\ \A n \in 1..4 : \A x \in Times(h, n) :
              /\ [rank |-> x, count |-> n] \in rankCount(h)
              /\ IsCount([rank |-> x, count |-> n])
<1>1. RanksOf(h) \subseteq 2..14
  BY RanksAreFinite DEF FiveCards
<1>2. rankCount(h) = {[rank |-> r, count |-> Count(h, r)] : r \in RanksOf(h)}
  BY DEF rankCount, Count
<1>3. ASSUME NEW r \in RanksOf(h)
      PROVE  Count(h, r) \in 1..4
  <2>1. Cardinality(Suits) \in Nat
    BY RankAssumption, FS_CardinalityType
  <2>2. Count(h, r) \in Nat /\ 1 <= Count(h, r) /\ Count(h, r) <= Cardinality(Suits)
    BY CountBounds DEF FiveCards
  <2> QED
    BY <2>1, <2>2, RankAssumption
<1>4. \A a \in rankCount(h) : IsCount(a)
  BY <1>1, <1>2, <1>3 DEF IsCount
<1>5. ASSUME NEW a, IsCount(a)
      PROVE  a \in rankCount(h) <=> a.rank \in Times(h, a.count)
  <2>1. a = [rank |-> a.rank, count |-> a.count]
    BY <1>5 DEF IsCount
  <2>2. ASSUME a.rank \in Times(h, a.count) PROVE a \in rankCount(h)
    <3>1. a.rank \in RanksOf(h) /\ Count(h, a.rank) = a.count
      BY <2>2 DEF Times
    <3> QED
      BY <1>2, <2>1, <3>1, Zenon
  <2>3. ASSUME a \in rankCount(h) PROVE a.rank \in Times(h, a.count)
    <3>1. PICK r \in RanksOf(h) : a = [rank |-> r, count |-> Count(h, r)]
      BY <1>2, <2>3
    <3>2. a.rank = r /\ a.count = Count(h, r)
      BY <3>1
    <3> QED
      BY <3>2 DEF Times
  <2> QED
    BY <2>2, <2>3
<1>6. \A n \in 1..4 : \A x \in Times(h, n) :
              /\ [rank |-> x, count |-> n] \in rankCount(h)
              /\ IsCount([rank |-> x, count |-> n])
  <2>1. ASSUME NEW n \in 1..4, NEW x \in Times(h, n)
        PROVE  /\ [rank |-> x, count |-> n] \in rankCount(h)
               /\ IsCount([rank |-> x, count |-> n])
    <3>1. x \in 2..14
      BY TimesAreFinite
    <3>2. IsCount([rank |-> x, count |-> n])
      BY <3>1 DEF IsCount
    <3> QED
      BY <1>5, <3>2
  <2> QED
    BY <2>1
<1> QED
  BY <1>4, <1>5, <1>6

\* Higher orders records of counts.
LEMMA HigherOrders ==
  /\ \A a : IsCount(a) => ~ Higher(a, a)
  /\ \A a, b : IsCount(a) /\ IsCount(b) /\ a # b => Higher(a, b) \/ Higher(b, a)
  /\ \A a, b, c : IsCount(a) /\ IsCount(b) /\ IsCount(c) /\ Higher(c, b) /\ Higher(b, a)
        => Higher(c, a)
<1>1. \A a : IsCount(a) => a.rank \in Int /\ a.count \in Int
  BY DEF IsCount
<1>2. \A a, b : IsCount(a) /\ IsCount(b) /\ a.rank = b.rank /\ a.count = b.count => a = b
  BY Zenon DEF IsCount
<1> QED
  BY <1>1, <1>2 DEF Higher

LEMMA PlaceCounts ==
  ASSUME NEW a, NEW counted
  PROVE  placeOf(a, counted) = 1 + Cardinality(Above(a, counted))
BY DEF placeOf, Above, Higher

\* A higher record has a lower place.
LEMMA PlaceOrders ==
  ASSUME NEW C, IsFiniteSet(C), \A a \in C : IsCount(a), NEW a \in C, NEW b \in C
  PROVE  /\ Higher(b, a) <=> placeOf(b, C) < placeOf(a, C)
         /\ placeOf(a, C) = placeOf(b, C) => a = b
         /\ placeOf(a, C) \in 1..Cardinality(C)
<1>1. ASSUME NEW c \in C, NEW d \in C, Higher(d, c)
      PROVE  placeOf(d, C) < placeOf(c, C)
  <2>1. Above(d, C) \subseteq Above(c, C) \ {d} /\ d \in Above(c, C)
    BY <1>1, HigherOrders DEF Above
  <2>2. IsFiniteSet(Above(c, C)) /\ Cardinality(Above(c, C)) \in Nat
    <3>1. Above(c, C) \subseteq C
      BY DEF Above
    <3> QED
      BY <3>1, FS_Subset, FS_CardinalityType
  <2>3. /\ IsFiniteSet(Above(c, C) \ {d})
        /\ Cardinality(Above(c, C) \ {d}) = Cardinality(Above(c, C)) - 1
    BY <2>1, <2>2, FS_RemoveElement
  <2>4. /\ Cardinality(Above(d, C)) <= Cardinality(Above(c, C)) - 1
        /\ Cardinality(Above(d, C)) \in Nat
    BY <2>1, <2>3, FS_Subset, FS_CardinalityType
  <2> QED
    BY <2>2, <2>4, PlaceCounts
<1>2. \A c \in C : placeOf(c, C) \in 1..Cardinality(C)
  <2>1. \A c \in C : c.rank \in 2..14 /\ c.count \in Nat
    BY DEF IsCount
  <2> QED
    BY <2>1, PlaceInRange
<1>3. placeOf(a, C) \in Int /\ placeOf(b, C) \in Int
  <2>1. Cardinality(C) \in Nat
    BY FS_CardinalityType
  <2> QED
    BY <1>2, <2>1
<1>4. /\ Higher(b, a) => placeOf(b, C) < placeOf(a, C)
      /\ Higher(a, b) => placeOf(a, C) < placeOf(b, C)
  BY <1>1
<1>5. a # b => Higher(a, b) \/ Higher(b, a)
  BY HigherOrders
<1>6. a = b => ~ Higher(b, a)
  BY HigherOrders
<1> QED
  BY <1>2, <1>3, <1>4, <1>5, <1>6

At(h, i) == CHOOSE a \in rankCount(h) : placeOf(a, rankCount(h)) = i
RankAt(h, i) == At(h, i).rank
Size(h) == Cardinality(RanksOf(h))

\* Every place up to the number of ranks is that of one of them.
LEMMA Placed ==
  ASSUME NEW h, FiveCards(h)
  PROVE  /\ Size(h) \in 0..5
         /\ \A i \in 1..Size(h) : /\ At(h, i) \in rankCount(h) /\ IsCount(At(h, i))
                                  /\ placeOf(At(h, i), rankCount(h)) = i
                                  /\ RankAt(h, i) \in 2..14
         /\ \A a \in rankCount(h) : /\ placeOf(a, rankCount(h)) \in 1..Size(h)
                                    /\ At(h, placeOf(a, rankCount(h))) = a
<1> DEFINE C == rankCount(h)
           f == [a \in C |-> placeOf(a, C)]
           T == {f[a] : a \in C}
<1>1. /\ IsFiniteSet(C) /\ Cardinality(C) = Size(h)
      /\ \A a \in C : IsCount(a)
  BY CountedSizes, Counted DEF Size
<1>2. Size(h) \in 0..5
  BY HandIsNotEmpty DEF Size
<1>3. \A a, b \in C : placeOf(a, C) = placeOf(b, C) => a = b
  BY <1>1, PlaceOrders
<1>4. \A a \in C : placeOf(a, C) \in 1..Size(h)
  <2> HIDE DEF C
  <2> QED
    BY <1>1, PlaceOrders
<1>5. \A a \in C : f[a] = placeOf(a, C)
  OBVIOUS
<1>6. DOMAIN f = C /\ f = [x \in C |-> f[x]]
  OBVIOUS
<1> HIDE DEF f
<1>7. IsFiniteSet(T) /\ Cardinality(T) = Size(h)
  <2> HIDE DEF C
  <2> QED
    BY <1>1, <1>3, <1>5, <1>6, ImageSize
<1>8. T \subseteq 1..Size(h)
  BY <1>4, <1>5
<1>9. IsFiniteSet(1..Size(h)) /\ Cardinality(1..Size(h)) = Size(h)
  BY <1>2, FS_Interval
<1>10. T = 1..Size(h)
  <2> HIDE DEF T
  <2> QED
    BY <1>7, <1>8, <1>9, FS_Subset
<1>11. \A i \in 1..Size(h) : \E a \in C : placeOf(a, C) = i
  BY <1>5, <1>10
<1>12. \A i \in 1..Size(h) : At(h, i) \in C /\ placeOf(At(h, i), C) = i
  BY <1>11 DEF At
<1>13. \A i \in 1..Size(h) : IsCount(At(h, i)) /\ RankAt(h, i) \in 2..14
  <2>1. \A i \in 1..Size(h) : IsCount(At(h, i))
    BY <1>1, <1>12
  <2> QED
    BY <2>1 DEF RankAt, IsCount
<1>14. \A a \in C : At(h, placeOf(a, C)) = a
  BY <1>3, <1>4, <1>12
<1> HIDE DEF C
<1> QED
  BY <1>2, <1>4, <1>12, <1>13, <1>14 DEF C

\* What the rank at a place adds to the score.
Worth(p, h, i) == IF i <= Size(h) THEN p.weights[i] * RankAt(h, i) ELSE 0

LEMMA WeightedIsSum ==
  ASSUME NEW h, FiveCards(h), NEW p, \A i \in 1..Size(h) : p.weights[i] \in Nat
  PROVE  /\ \A i \in 1..5 : Worth(p, h, i) \in Int
         /\ weighted(p, rankCount(h)) =
              Worth(p, h, 1) + Worth(p, h, 2) + Worth(p, h, 3) + Worth(p, h, 4) + Worth(p, h, 5)
<1> DEFINE C == rankCount(h)
           f == [a \in C |-> p.weights[placeOf(a, C)] * a.rank]
           UpTo(k) == {a \in C : placeOf(a, C) <= k}
<1>1. IsFiniteSet(C) /\ Size(h) \in 0..5
  BY CountedSizes, Placed
<1>2. /\ \A i \in 1..Size(h) : /\ At(h, i) \in C /\ placeOf(At(h, i), C) = i
                               /\ RankAt(h, i) \in 2..14 /\ RankAt(h, i) = At(h, i).rank
      /\ \A a \in C : /\ placeOf(a, C) \in 1..Size(h) /\ At(h, placeOf(a, C)) = a
                      /\ a.rank \in 2..14
  BY Placed, CountedSizes DEF RankAt
<1>3. weighted(p, C) = Total(f)
  BY DEF weighted
<1>4. \A x \in Nat, y \in 2..14 : x * y \in Int
  OBVIOUS
<1> HIDE DEF C
<1>5. \A i \in 1..5 : Worth(p, h, i) \in Int
  <2>1. ASSUME NEW i \in 1..5 PROVE Worth(p, h, i) \in Int
    <3>1. CASE i <= Size(h)
      <4>1. i \in 1..Size(h)
        BY <1>1, <3>1
      <4>2. p.weights[i] * RankAt(h, i) \in Int
        BY <1>2, <1>4, <4>1
      <4> QED
        BY <3>1, <4>2, Zenon DEF Worth
    <3>2. CASE ~ (i <= Size(h))
      BY <3>2 DEF Worth
    <3> QED
      BY <3>1, <3>2
  <2> QED
    BY <2>1
<1>6. f \in [C -> Int]
  BY <1>2, <1>4
<1>7. \A i \in 1..Size(h) : f[At(h, i)] = p.weights[i] * RankAt(h, i)
  BY <1>2, Zenon
<1> HIDE DEF f
<1>8. ASSUME NEW k \in 1..5
      PROVE  /\ TotalOn(f, UpTo(k)) = Worth(p, h, k) + TotalOn(f, UpTo(k - 1))
             /\ TotalOn(f, UpTo(k - 1)) \in Int
  <2>1. UpTo(k) \in SUBSET C /\ UpTo(k - 1) \in SUBSET C
    OBVIOUS
  <2>2. TotalOn(f, UpTo(k - 1)) \in Int
    <3> HIDE DEF UpTo
    <3> QED
      BY <1>1, <1>6, <2>1, TotalOnInt
  <2>3. CASE k <= Size(h)
    <3>1. k \in 1..Size(h)
      BY <1>1, <2>3
    <3>2. At(h, k) \in UpTo(k)
      BY <1>2, <3>1
    <3>3. \A a \in C : placeOf(a, C) \in Int /\ (placeOf(a, C) = k <=> a = At(h, k))
      BY <1>1, <1>2, <3>1
    <3>4. UpTo(k) \ {At(h, k)} = UpTo(k - 1)
      BY <3>3
    <3>5. TotalOn(f, UpTo(k)) = f[At(h, k)] + TotalOn(f, UpTo(k) \ {At(h, k)})
      <4> HIDE DEF UpTo
      <4> QED
        BY <1>1, <1>6, <2>1, <3>2, AnyOrder
    <3>6. f[At(h, k)] = Worth(p, h, k)
      BY <1>7, <2>3, <3>1 DEF Worth
    <3> QED
      BY ONLY <2>2, <3>4, <3>5, <3>6, Zenon
  <2>4. CASE ~ (k <= Size(h))
    <3>1. \A a \in C : placeOf(a, C) \in Int /\ placeOf(a, C) <= k - 1
      BY <1>1, <1>2, <2>4
    <3>2. UpTo(k) = UpTo(k - 1)
      BY <3>1
    <3>3. Worth(p, h, k) = 0
      BY <2>4 DEF Worth
    <3> HIDE DEF UpTo
    <3>4. TotalOn(f, UpTo(k)) = TotalOn(f, UpTo(k - 1))
      BY ONLY <3>2, Zenon
    <3> QED
      BY <2>2, <3>3, <3>4
  <2> QED
    BY <2>3, <2>4
<1>9. UpTo(5) = C /\ UpTo(0) = {}
  BY <1>1, <1>2
<1>10. TotalOn(f, UpTo(5)) = Total(f) /\ TotalOn(f, UpTo(0)) = 0
  <2>1. DOMAIN f = C
    BY <1>6
  <2>2. Total(f) = TotalOn(f, C)
    BY <2>1, TotalIsOnDomain, Zenon
  <2>3. TotalOn(f, {}) = 0
    BY TotalOnStep, FS_EmptySet
  <2> QED
    BY ONLY <1>9, <2>2, <2>3, Zenon
<1> HIDE DEF UpTo
<1>11. /\ TotalOn(f, UpTo(1)) = Worth(p, h, 1) + TotalOn(f, UpTo(0))
       /\ TotalOn(f, UpTo(2)) = Worth(p, h, 2) + TotalOn(f, UpTo(1))
       /\ TotalOn(f, UpTo(3)) = Worth(p, h, 3) + TotalOn(f, UpTo(2))
       /\ TotalOn(f, UpTo(4)) = Worth(p, h, 4) + TotalOn(f, UpTo(3))
       /\ TotalOn(f, UpTo(5)) = Worth(p, h, 5) + TotalOn(f, UpTo(4))
  <2>1. \A k \in 1..5 : TotalOn(f, UpTo(k)) = Worth(p, h, k) + TotalOn(f, UpTo(k - 1))
    BY <1>8
  <2> QED
    BY <2>1
<1>12. Total(f) =
         Worth(p, h, 1) + Worth(p, h, 2) + Worth(p, h, 3) + Worth(p, h, 4) + Worth(p, h, 5)
  BY <1>5, <1>10, <1>11
<1> QED
  BY <1>3, <1>5, <1>12 DEF C

--------------------------------------------------------------------------------
(***************************************************************************)
(* The first place at which two hands of one pattern differ                *)
(***************************************************************************)
AtLeast(h, k) == {a \in rankCount(h) : a.count >= k}

LEMMA AtLeastSizes ==
  ASSUME NEW h, FiveCards(h)
  PROVE  /\ \A k \in 1..4 : IsFiniteSet(AtLeast(h, k)) /\ Cardinality(AtLeast(h, k)) \in Nat
         /\ Cardinality(AtLeast(h, 4)) = Shape(h)[4]
         /\ Cardinality(AtLeast(h, 3)) = Shape(h)[3] + Cardinality(AtLeast(h, 4))
         /\ Cardinality(AtLeast(h, 2)) = Shape(h)[2] + Cardinality(AtLeast(h, 3))
         /\ Cardinality(AtLeast(h, 1)) = Shape(h)[1] + Cardinality(AtLeast(h, 2))
<1> DEFINE Of(n) == {a \in rankCount(h) : a.count = n}
<1>1. IsFiniteSet(rankCount(h)) /\ \A a \in rankCount(h) : a.count \in 1..4
  BY CountedSizes, Counted DEF IsCount
<1>2. \A n \in 1..4 : Cardinality(Of(n)) = Shape(h)[n]
  BY CountedSizes DEF Shape
<1>3. \A k \in 1..4 : IsFiniteSet(AtLeast(h, k)) /\ Cardinality(AtLeast(h, k)) \in Nat
  <2>1. \A k \in 1..4 : AtLeast(h, k) \subseteq rankCount(h)
    BY DEF AtLeast
  <2> QED
    BY <1>1, <2>1, FS_Subset, FS_CardinalityType
<1>4. AtLeast(h, 4) = Of(4)
  BY <1>1 DEF AtLeast
<1>5. /\ AtLeast(h, 3) = Of(3) \cup AtLeast(h, 4) /\ Of(3) \cap AtLeast(h, 4) = {}
      /\ AtLeast(h, 2) = Of(2) \cup AtLeast(h, 3) /\ Of(2) \cap AtLeast(h, 3) = {}
      /\ AtLeast(h, 1) = Of(1) \cup AtLeast(h, 2) /\ Of(1) \cap AtLeast(h, 2) = {}
  BY <1>1 DEF AtLeast
<1>6. \A n \in 1..4 : IsFiniteSet(Of(n))
  <2>1. \A n \in 1..4 : Of(n) \subseteq rankCount(h)
    OBVIOUS
  <2> QED
    BY <1>1, <2>1, FS_Subset
<1> HIDE DEF Of
<1>7. /\ Cardinality(AtLeast(h, 3)) = Cardinality(Of(3)) + Cardinality(AtLeast(h, 4))
      /\ Cardinality(AtLeast(h, 2)) = Cardinality(Of(2)) + Cardinality(AtLeast(h, 3))
      /\ Cardinality(AtLeast(h, 1)) = Cardinality(Of(1)) + Cardinality(AtLeast(h, 2))
  BY <1>3, <1>5, <1>6, TwoApart
<1> QED
  BY <1>2, <1>3, <1>4, <1>7

\* The pattern tells how often the rank at a place is held.
LEMMA CountAtPlace ==
  ASSUME NEW g, NEW h, FiveCards(g), FiveCards(h), Shape(g) = Shape(h),
         NEW i \in 1..Size(g), i \in 1..Size(h)
  PROVE  ~ (At(g, i).count > At(h, i).count)
<1> SUFFICES ASSUME At(g, i).count > At(h, i).count PROVE FALSE
  OBVIOUS
<1> DEFINE a == At(g, i)
           b == At(h, i)
           k == a.count
<1>1. /\ a \in rankCount(g) /\ IsCount(a) /\ placeOf(a, rankCount(g)) = i
      /\ b \in rankCount(h) /\ IsCount(b) /\ placeOf(b, rankCount(h)) = i
  BY Placed
<1>2. /\ IsFiniteSet(rankCount(g)) /\ \A c \in rankCount(g) : IsCount(c)
      /\ IsFiniteSet(rankCount(h)) /\ \A c \in rankCount(h) : IsCount(c)
  BY Counted, CountedSizes
<1> HIDE DEF a, b
<1>3. k \in 1..4 /\ b.count \in 1..4 /\ k > b.count
  BY <1>1 DEF IsCount, a, b
<1>4. Cardinality(AtLeast(g, k)) = Cardinality(AtLeast(h, k))
  <2>1. /\ Cardinality(AtLeast(g, 4)) = Cardinality(AtLeast(h, 4))
        /\ Cardinality(AtLeast(g, 3)) = Cardinality(AtLeast(h, 3))
        /\ Cardinality(AtLeast(g, 2)) = Cardinality(AtLeast(h, 2))
        /\ Cardinality(AtLeast(g, 1)) = Cardinality(AtLeast(h, 1))
    BY AtLeastSizes
  <2> HIDE DEF k
  <2> QED
    BY <1>3, <2>1
<1>5. /\ IsFiniteSet(AtLeast(g, k)) /\ Cardinality(AtLeast(g, k)) \in Nat
      /\ IsFiniteSet(AtLeast(h, k)) /\ Cardinality(AtLeast(h, k)) \in Nat
  BY <1>3, AtLeastSizes
<1>6. /\ IsFiniteSet(Above(a, rankCount(g))) /\ Cardinality(Above(a, rankCount(g))) \in Nat
      /\ IsFiniteSet(Above(b, rankCount(h))) /\ Cardinality(Above(b, rankCount(h))) \in Nat
  <2>1. Above(a, rankCount(g)) \subseteq rankCount(g) /\ Above(b, rankCount(h)) \subseteq rankCount(h)
    BY DEF Above
  <2> QED
    BY <1>2, <2>1, FS_Subset, FS_CardinalityType
<1>7. Cardinality(Above(a, rankCount(g))) = Cardinality(Above(b, rankCount(h)))
  BY <1>1, <1>6, PlaceCounts
<1>8. AtLeast(h, k) \subseteq Above(b, rankCount(h))
  <2>1. \A c \in rankCount(h) : c.count \in 1..4
    BY <1>2 DEF IsCount
  <2> QED
    BY <1>3, <2>1 DEF AtLeast, Above, Higher
<1>9. Above(a, rankCount(g)) \subseteq AtLeast(g, k) \ {a} /\ a \in AtLeast(g, k)
  <2>1. \A c \in rankCount(g) : c.count \in 1..4
    BY <1>2 DEF IsCount
  <2>2. \A c \in Above(a, rankCount(g)) : c # a /\ c \in rankCount(g) /\ c.count >= k
    BY <1>1, <1>3, <2>1, HigherOrders DEF Above, Higher
  <2> QED
    BY <1>1, <1>3, <2>2 DEF AtLeast
<1> HIDE DEF k
<1>10. Cardinality(AtLeast(h, k)) <= Cardinality(Above(b, rankCount(h)))
  BY <1>6, <1>8, FS_Subset
<1>11. /\ IsFiniteSet(AtLeast(g, k) \ {a})
       /\ Cardinality(AtLeast(g, k) \ {a}) = Cardinality(AtLeast(g, k)) - 1
  BY <1>5, <1>9, FS_RemoveElement
<1>12. Cardinality(Above(a, rankCount(g))) <= Cardinality(AtLeast(g, k)) - 1
  BY <1>9, <1>11, FS_Subset
<1> QED
  BY <1>4, <1>5, <1>6, <1>7, <1>10, <1>12

SameAbove(g, h, n) == \A m \in (n + 1)..4 : Times(g, m) = Times(h, m)

\* Of two hands of one pattern, the one whose ranks held four, three, two and
\* single times are higher, compared in this order, has the higher rank at the
\* first place at which they differ.
LEMMA FirstDifference ==
  ASSUME NEW g, NEW h, FiveCards(g), FiveCards(h), Shape(g) = Shape(h), NEW n \in 1..4,
         Outranks(Times(g, n), Times(h, n)), SameAbove(g, h, n)
  PROVE  /\ Size(g) = Size(h)
         /\ \E i \in 1..Size(g) :
              /\ RankAt(g, i) > RankAt(h, i) /\ RankAt(g, i) \in Times(g, At(g, i).count)
              /\ RankAt(h, i) \in Times(h, At(g, i).count)
              /\ \A j \in 1..(i - 1) : RankAt(g, j) = RankAt(h, j)
<1> DEFINE G == rankCount(g)
           H == rankCount(h)
           D == (Times(g, n) \ Times(h, n)) \cup (Times(h, n) \ Times(g, n))
           x == Max(D)
           a == [rank |-> x, count |-> n]
           i == placeOf(a, G)
<1>1. Size(g) = Size(h)
  <2>1. /\ Size(g) = Shape(g)[1] + Shape(g)[2] + Shape(g)[3] + Shape(g)[4]
        /\ Size(h) = Shape(h)[1] + Shape(h)[2] + Shape(h)[3] + Shape(h)[4]
    BY ShapeAdds DEF Shape, Size
  <2> QED
    BY <2>1
<1>2. /\ x \in Times(g, n) /\ x \notin Times(h, n) /\ x \in 2..14
      /\ \A y \in D : y <= x
  <2>1. D # {} /\ x \in Times(g, n)
    BY DEF Outranks
  <2>2. D \subseteq Times(g, n) \cup Times(h, n) /\ D \subseteq 2..14
    BY TimesAreFinite
  <2>3. IsFiniteSet(D)
    <3>1. IsFiniteSet(Times(g, n) \cup Times(h, n))
      BY TimesAreFinite, FS_Union
    <3> QED
      BY <2>2, <3>1, FS_Subset
  <2>4. D \subseteq Int
    BY <2>2
  <2>5. x \in D /\ \A y \in D : y <= x
    <3> HIDE DEF D
    <3> QED
      BY <2>1, <2>3, <2>4, Extremes
  <2> QED
    BY <2>1, <2>2, <2>5
<1>3. a \in G /\ IsCount(a) /\ a.rank = x /\ a.count = n
  BY <1>2, Counted
<1>4. a \notin H
  BY <1>2, <1>3, Counted
<1>5. /\ IsFiniteSet(G) /\ \A b \in G : IsCount(b)
      /\ IsFiniteSet(H) /\ \A b \in H : IsCount(b)
  BY Counted, CountedSizes
<1>6. ASSUME NEW b, IsCount(b), Higher(b, a) PROVE b \in G <=> b \in H
  <2>1. (b \in G <=> b.rank \in Times(g, b.count)) /\ (b \in H <=> b.rank \in Times(h, b.count))
    BY <1>6, Counted
  <2>2. b.count \in 1..4 /\ b.rank \in 2..14
    BY <1>6 DEF IsCount
  <2>3. CASE b.count > n
    <3>1. b.count \in (n + 1)..4
      BY <2>2, <2>3
    <3> QED
      BY <2>1, <3>1 DEF SameAbove
  <2>4. CASE b.count = n /\ b.rank > x
    <3>1. b.rank \notin D
      BY <1>2, <2>2, <2>4
    <3> QED
      BY <2>1, <2>4, <3>1
  <2> QED
    BY <1>3, <1>6, <2>3, <2>4 DEF Higher
<1> HIDE DEF D, x, a
<1>7. ASSUME NEW b, IsCount(b), Higher(b, a) PROVE placeOf(b, G) = placeOf(b, H)
  <2>1. Above(b, G) = Above(b, H)
    <3>1. ASSUME NEW c PROVE c \in Above(b, G) <=> c \in Above(b, H)
      <4>1. c \in Above(b, G) => IsCount(c) /\ Higher(c, b) /\ c \in G
        BY <1>5 DEF Above
      <4>2. c \in Above(b, H) => IsCount(c) /\ Higher(c, b) /\ c \in H
        BY <1>5 DEF Above
      <4>3. IsCount(c) /\ Higher(c, b) => Higher(c, a)
        BY <1>3, <1>7, HigherOrders
      <4> QED
        BY <1>6, <4>1, <4>2, <4>3 DEF Above
    <3> QED
      BY <3>1
  <2> QED
    BY <2>1, PlaceCounts
<1>8. i \in 1..Size(g) /\ At(g, i) = a
  BY <1>3, Placed
<1>9. i \in 1..Size(h)
  BY <1>1, <1>8
<1> DEFINE b == At(h, i)
<1>10. b \in H /\ IsCount(b) /\ placeOf(b, H) = i
  BY <1>9, Placed
<1>11. b.count = n
  <2>1. ~ (At(g, i).count > b.count) /\ ~ (b.count > At(g, i).count)
    BY <1>8, <1>9, CountAtPlace
  <2>2. b.count \in 1..4
    BY <1>10 DEF IsCount
  <2> HIDE DEF b
  <2> QED
    BY <1>3, <1>8, <2>1, <2>2
<1> HIDE DEF i, b
<1>12. ~ Higher(b, a)
  <2> SUFFICES ASSUME Higher(b, a) PROVE FALSE
    OBVIOUS
  <2>1. b \in G /\ placeOf(b, G) = i
    BY <1>6, <1>7, <1>10
  <2>2. placeOf(a, G) = i
    BY DEF i
  <2>3. a = b
    BY <1>3, <1>5, <2>1, <2>2, PlaceOrders
  <2> QED
    BY <1>4, <1>10, <2>3
<1>13. b.rank < x
  <2>1. b # a
    BY <1>4, <1>10
  <2>2. Higher(a, b)
    BY <1>3, <1>10, <1>12, <2>1, HigherOrders
  <2>3. b.rank \in 2..14 /\ x \in 2..14
    BY <1>3, <1>10 DEF IsCount
  <2> QED
    BY <1>3, <1>11, <2>2, <2>3 DEF Higher
<1>14. ASSUME NEW j \in 1..(i - 1) PROVE At(g, j) = At(h, j)
  <2>1. Size(g) \in 0..5
    BY Placed
  <2>2. j \in 1..Size(g) /\ j \in Int /\ i \in Int /\ j < i
    BY <1>8, <2>1
  <2>3. At(g, j) \in G /\ placeOf(At(g, j), G) = j /\ IsCount(At(g, j))
    BY <2>2, Placed
  <2>4. Higher(At(g, j), a)
    <3>1. placeOf(At(g, j), G) < placeOf(a, G)
      BY <2>2, <2>3 DEF i
    <3> HIDE DEF G
    <3> QED
      BY <1>3, <1>5, <2>3, <3>1, PlaceOrders
  <2>5. At(g, j) \in H /\ placeOf(At(g, j), H) = j
    BY <1>6, <1>7, <2>3, <2>4
  <2> QED
    BY <2>5, Placed
<1>15. /\ RankAt(g, i) = x /\ RankAt(h, i) = b.rank /\ At(g, i).count = n
       /\ \A j \in 1..(i - 1) : RankAt(g, j) = RankAt(h, j)
  BY <1>3, <1>8, <1>14 DEF RankAt, b
<1>16. b.rank \in Times(h, n) /\ x \in Times(g, n)
  BY <1>2, <1>10, <1>11, Counted
<1>17. RankAt(g, i) > RankAt(h, i)
  <2>1. b.rank \in 2..14 /\ x \in 2..14
    BY <1>3, <1>10 DEF IsCount
  <2> QED
    BY <1>13, <1>15, <2>1
<1> HIDE DEF G, H
<1> QED
  BY <1>1, <1>8, <1>15, <1>16, <1>17

--------------------------------------------------------------------------------
(***************************************************************************)
(* The higher rank at the first difference decides the score               *)
(***************************************************************************)
LEMMA DeployedWeights ==
  ASSUME NEW p \in Patterned
  PROVE  /\ p.pattern = <<1, 0, 0, 1>> => p.weights = <<100, 1>>
         /\ p.pattern = <<0, 1, 1, 0>> => p.weights = <<100, 1>>
         /\ p.pattern = <<2, 0, 1, 0>> => p.weights = <<1000, 50, 1>>
         /\ p.pattern = <<1, 2, 0, 0>> => p.weights = <<1000, 50, 1>>
         /\ p.pattern = <<3, 1, 0, 0>> => p.weights = <<10000, 1000, 50, 1>>
         /\ p.pattern = <<5, 0, 0, 0>> => p.weights = <<10000, 666, 44, 2, 0>>
BY SMT DEF Patterned

\* i is the first place at which g and h differ, and g is higher there.
HigherAt(g, h, i) ==
  /\ i \in 1..Size(g) /\ RankAt(g, i) > RankAt(h, i)
  /\ \A j \in 1..(i - 1) : RankAt(g, j) = RankAt(h, j)

ScoreOf(h) == weighted(patternOf(Patterned, rankCount(h)), rankCount(h))

LEMMA ScoreByPlaces ==
  ASSUME NEW h, FiveCards(h)
  PROVE  LET r(i) == RankAt(h, i)
         IN /\ ScoreOf(h) \in Nat
            /\ \A i \in 1..Size(h) : r(i) \in 2..14
            /\ Shape(h) \in {<<1, 0, 0, 1>>, <<0, 1, 1, 0>>} =>
                 Size(h) = 2 /\ ScoreOf(h) = 100 * r(1) + r(2)
            /\ Shape(h) \in {<<2, 0, 1, 0>>, <<1, 2, 0, 0>>} =>
                 Size(h) = 3 /\ ScoreOf(h) = 1000 * r(1) + 50 * r(2) + r(3)
            /\ Shape(h) = <<3, 1, 0, 0>> =>
                 Size(h) = 4 /\ ScoreOf(h) = 10000 * r(1) + 1000 * r(2) + 50 * r(3) + r(4)
            /\ Shape(h) = <<5, 0, 0, 0>> =>
                 Size(h) = 5 /\ ScoreOf(h) = 10000 * r(1) + 666 * r(2) + 44 * r(3) + 2 * r(4)
<1> DEFINE p == patternOf(Patterned, rankCount(h))
           r(i) == RankAt(h, i)
<1>1. p \in Patterned /\ p.pattern = Shape(h)
  BY DeployedTable, PatternFound
<1>2. Size(h) = Shape(h)[1] + Shape(h)[2] + Shape(h)[3] + Shape(h)[4]
  BY ShapeAdds DEF Shape, Size
<1>3. \A i \in 1..Size(h) : RankAt(h, i) \in 2..14
  BY Placed
<1>4. Little(ScoreOf(h))
  BY DeployedTable, WeightedBound DEF ScoreOf
<1>5. \A i \in 1..Size(h) : p.weights[i] \in Nat
  <2>1. IsEntry(p, Shape(h), Place(h), Size(h))
    BY DeployedTable, EntryOfHand DEF Size
  <2>2. \A i \in 1..Size(h) : p.weights[i] \in Weights
    BY <2>1, Zenon DEF IsEntry
  <2>3. Weights \subseteq Nat
    BY DEF Weights
  <2> QED
    BY <2>2, <2>3, Zenon
<1>6. ScoreOf(h) =
        Worth(p, h, 1) + Worth(p, h, 2) + Worth(p, h, 3) + Worth(p, h, 4) + Worth(p, h, 5)
  BY <1>5, WeightedIsSum, Zenon DEF ScoreOf
<1> HIDE DEF p
<1>7. ASSUME Shape(h) \in {<<1, 0, 0, 1>>, <<0, 1, 1, 0>>}
      PROVE  Size(h) = 2 /\ ScoreOf(h) = 100 * r(1) + r(2)
  <2>1. Size(h) = 2 /\ p.weights = <<100, 1>>
    BY <1>1, <1>2, <1>7, DeployedWeights, SMT
  <2>2. RankAt(h, 1) \in 2..14 /\ RankAt(h, 2) \in 2..14
    BY <1>3, <2>1
  <2> QED
    BY <1>6, <2>1, <2>2, SMT DEF Worth
<1>8. ASSUME Shape(h) \in {<<2, 0, 1, 0>>, <<1, 2, 0, 0>>}
      PROVE  Size(h) = 3 /\ ScoreOf(h) = 1000 * r(1) + 50 * r(2) + r(3)
  <2>1. Size(h) = 3 /\ p.weights = <<1000, 50, 1>>
    BY <1>1, <1>2, <1>8, DeployedWeights, SMT
  <2>2. RankAt(h, 1) \in 2..14 /\ RankAt(h, 2) \in 2..14 /\ RankAt(h, 3) \in 2..14
    BY <1>3, <2>1
  <2> QED
    BY <1>6, <2>1, <2>2, SMT DEF Worth
<1>9. ASSUME Shape(h) = <<3, 1, 0, 0>>
      PROVE  Size(h) = 4 /\ ScoreOf(h) = 10000 * r(1) + 1000 * r(2) + 50 * r(3) + r(4)
  <2>1. Size(h) = 4 /\ p.weights = <<10000, 1000, 50, 1>>
    BY <1>1, <1>2, <1>9, DeployedWeights, SMT
  <2>2. /\ RankAt(h, 1) \in 2..14 /\ RankAt(h, 2) \in 2..14 /\ RankAt(h, 3) \in 2..14
        /\ RankAt(h, 4) \in 2..14
    BY <1>3, <2>1
  <2>3. /\ p.weights[1] = 10000 /\ p.weights[2] = 1000 /\ p.weights[3] = 50
        /\ p.weights[4] = 1
    BY ONLY <2>1, SMT
  <2>4. /\ Worth(p, h, 1) = 10000 * r(1) /\ Worth(p, h, 2) = 1000 * r(2)
        /\ Worth(p, h, 3) = 50 * r(3) /\ Worth(p, h, 4) = r(4) /\ Worth(p, h, 5) = 0
    BY ONLY <2>1, <2>2, <2>3, SMT DEF Worth
  <2>5. PICK a, b, c, d : /\ a = r(1) /\ b = r(2) /\ c = r(3) /\ d = r(4)
                          /\ a \in 2..14 /\ b \in 2..14 /\ c \in 2..14 /\ d \in 2..14
    BY ONLY <2>2, Zenon
  <2>6. ScoreOf(h) = 10000 * a + 1000 * b + 50 * c + d + 0
    BY ONLY <1>6, <2>4, <2>5, SMT
  <2>7. ScoreOf(h) = 10000 * r(1) + 1000 * r(2) + 50 * r(3) + r(4)
    BY ONLY <2>5, <2>6, SMT
  <2> QED
    BY <2>1, <2>7
<1>10. ASSUME Shape(h) = <<5, 0, 0, 0>>
       PROVE  Size(h) = 5 /\ ScoreOf(h) = 10000 * r(1) + 666 * r(2) + 44 * r(3) + 2 * r(4)
  <2>1. Size(h) = 5 /\ p.weights = <<10000, 666, 44, 2, 0>>
    BY <1>1, <1>2, <1>10, DeployedWeights, SMT
  <2>2. /\ RankAt(h, 1) \in 2..14 /\ RankAt(h, 2) \in 2..14 /\ RankAt(h, 3) \in 2..14
        /\ RankAt(h, 4) \in 2..14 /\ RankAt(h, 5) \in 2..14
    BY <1>3, <2>1
  <2>3. /\ p.weights[1] = 10000 /\ p.weights[2] = 666 /\ p.weights[3] = 44
        /\ p.weights[4] = 2 /\ p.weights[5] = 0
    BY ONLY <2>1, SMT
  <2>4. /\ Worth(p, h, 1) = 10000 * r(1) /\ Worth(p, h, 2) = 666 * r(2)
        /\ Worth(p, h, 3) = 44 * r(3) /\ Worth(p, h, 4) = 2 * r(4) /\ Worth(p, h, 5) = 0
    BY ONLY <2>1, <2>2, <2>3, SMT DEF Worth
  <2>5. PICK a, b, c, d : /\ a = r(1) /\ b = r(2) /\ c = r(3) /\ d = r(4)
                          /\ a \in 2..14 /\ b \in 2..14 /\ c \in 2..14 /\ d \in 2..14
    BY ONLY <2>2, Zenon
  <2>6. ScoreOf(h) = 10000 * a + 666 * b + 44 * c + 2 * d + 0
    BY ONLY <1>6, <2>4, <2>5, SMT
  <2>7. ScoreOf(h) = 10000 * r(1) + 666 * r(2) + 44 * r(3) + 2 * r(4)
    BY ONLY <2>5, <2>6, SMT
  <2> QED
    BY <2>1, <2>7
<1> QED
  BY <1>3, <1>4, <1>7, <1>8, <1>9, <1>10, SMT DEF Little

\* All but the kickers of two pairs of different ranks, and the last card of a
\* high card or a flush.
LEMMA HigherScores ==
  ASSUME NEW g, NEW h, FiveCards(g), FiveCards(h), Shape(g) = Shape(h),
         NEW i, HigherAt(g, h, i), Size(g) = Size(h)
  PROVE  \/ ScoreOf(g) > ScoreOf(h)
         \/ Shape(h) = <<3, 1, 0, 0>> /\ i = 1
         \/ Shape(h) = <<5, 0, 0, 0>> /\ i = 5 /\ ScoreOf(g) = ScoreOf(h)
<1> DEFINE r(k) == RankAt(g, k)
           s(k) == RankAt(h, k)
<1>1. /\ \A k \in 1..Size(h) : r(k) \in 2..14 /\ s(k) \in 2..14
      /\ i \in 1..Size(h) /\ r(i) > s(i) /\ \A j \in 1..(i - 1) : r(j) = s(j)
  BY ScoreByPlaces DEF HigherAt
<1>2. Shape(h) \in Patterns
  BY ShapeIsPattern
<1>3. CASE Shape(h) \in {<<1, 0, 0, 1>>, <<0, 1, 1, 0>>}
  <2>1. /\ Size(h) = 2 /\ ScoreOf(h) = 100 * s(1) + s(2) /\ ScoreOf(g) = 100 * r(1) + r(2)
    BY <1>3, ScoreByPlaces
  <2> HIDE DEF r, s
  <2>2. /\ r(1) \in 2..14 /\ r(2) \in 2..14 /\ s(1) \in 2..14 /\ s(2) \in 2..14
        /\ r(1) > s(1) \/ (r(1) = s(1) /\ r(2) > s(2))
    BY <1>1, <2>1
  <2> QED
    BY <2>1, <2>2, SMT
<1>4. CASE Shape(h) \in {<<2, 0, 1, 0>>, <<1, 2, 0, 0>>}
  <2>1. /\ Size(h) = 3 /\ ScoreOf(h) = 1000 * s(1) + 50 * s(2) + s(3)
        /\ ScoreOf(g) = 1000 * r(1) + 50 * r(2) + r(3)
    BY <1>4, ScoreByPlaces, SMT
  <2> HIDE DEF r, s
  <2>2. /\ r(1) \in 2..14 /\ r(2) \in 2..14 /\ r(3) \in 2..14
        /\ s(1) \in 2..14 /\ s(2) \in 2..14 /\ s(3) \in 2..14
        /\ \/ r(1) > s(1)
           \/ r(1) = s(1) /\ r(2) > s(2)
           \/ r(1) = s(1) /\ r(2) = s(2) /\ r(3) > s(3)
    BY <1>1, <2>1, SMT
  <2>3. PICK a \in 2..14, b \in 2..14, c \in 2..14 :
          a = r(1) /\ b = r(2) /\ c = r(3)
    BY <2>2
  <2>4. PICK u \in 2..14, v \in 2..14, w \in 2..14 :
          u = s(1) /\ v = s(2) /\ w = s(3)
    BY <2>2
  <2>5. ScoreOf(g) = 1000 * a + 50 * b + c /\ ScoreOf(h) = 1000 * u + 50 * v + w
    BY <2>1, <2>3, <2>4, SMT
  <2>6. \/ a > u
        \/ a = u /\ b > v
        \/ a = u /\ b = v /\ c > w
    BY <2>2, <2>3, <2>4
  <2>7. \/ 1000 * a + 50 * b + c > 1000 * u + 50 * v + w
    BY ONLY <2>6, a \in 2..14, u \in 2..14, b \in 2..14, v \in 2..14, c \in 2..14, w \in 2..14, SMT
  <2>8. ScoreOf(g) > ScoreOf(h)
    BY ONLY <2>5, <2>7, SMT
  <2> QED
    BY <2>8
<1>5. CASE Shape(h) = <<3, 1, 0, 0>>
  <2>1. /\ Size(h) = 4
        /\ ScoreOf(h) = 10000 * s(1) + 1000 * s(2) + 50 * s(3) + s(4)
        /\ ScoreOf(g) = 10000 * r(1) + 1000 * r(2) + 50 * r(3) + r(4)
    BY <1>5, ScoreByPlaces, SMT
  <2> HIDE DEF r, s
  <2>2. /\ r(1) \in 2..14 /\ r(2) \in 2..14 /\ r(3) \in 2..14 /\ r(4) \in 2..14
        /\ s(1) \in 2..14 /\ s(2) \in 2..14 /\ s(3) \in 2..14 /\ s(4) \in 2..14
        /\ \/ i = 1
           \/ r(1) = s(1) /\ r(2) > s(2)
           \/ r(1) = s(1) /\ r(2) = s(2) /\ r(3) > s(3)
           \/ r(1) = s(1) /\ r(2) = s(2) /\ r(3) = s(3) /\ r(4) > s(4)
    BY <1>1, <2>1, SMT
  <2>3. PICK a \in 2..14, b \in 2..14, c \in 2..14, d \in 2..14 :
          a = r(1) /\ b = r(2) /\ c = r(3) /\ d = r(4)
    BY <2>2
  <2>4. PICK u \in 2..14, v \in 2..14, w \in 2..14, x \in 2..14 :
          u = s(1) /\ v = s(2) /\ w = s(3) /\ x = s(4)
    BY <2>2
  <2>5. ScoreOf(g) = 10000 * a + 1000 * b + 50 * c + d /\ ScoreOf(h) = 10000 * u + 1000 * v + 50 * w + x
    BY <2>1, <2>3, <2>4, SMT
  <2>6. \/ i = 1
        \/ a = u /\ b > v
        \/ a = u /\ b = v /\ c > w
        \/ a = u /\ b = v /\ c = w /\ d > x
    BY <2>2, <2>3, <2>4
  <2>7. \/ 10000 * a + 1000 * b + 50 * c + d > 10000 * u + 1000 * v + 50 * w + x
        \/ i = 1
    BY ONLY <2>6, a \in 2..14, u \in 2..14, b \in 2..14, v \in 2..14, c \in 2..14, w \in 2..14, d \in 2..14, x \in 2..14, SMT
  <2>8. i = 1 \/ ScoreOf(g) > ScoreOf(h)
    BY ONLY <2>5, <2>7, SMT
  <2> QED
    BY <1>5, <2>8
<1>6. CASE Shape(h) = <<5, 0, 0, 0>>
  <2>1. /\ Size(h) = 5
        /\ ScoreOf(h) = 10000 * s(1) + 666 * s(2) + 44 * s(3) + 2 * s(4)
        /\ ScoreOf(g) = 10000 * r(1) + 666 * r(2) + 44 * r(3) + 2 * r(4)
    BY <1>6, ScoreByPlaces, SMT
  <2> HIDE DEF r, s
  <2>2. /\ r(1) \in 2..14 /\ r(2) \in 2..14 /\ r(3) \in 2..14 /\ r(4) \in 2..14
        /\ s(1) \in 2..14 /\ s(2) \in 2..14 /\ s(3) \in 2..14 /\ s(4) \in 2..14
        /\ \/ r(1) > s(1)
           \/ r(1) = s(1) /\ r(2) > s(2)
           \/ r(1) = s(1) /\ r(2) = s(2) /\ r(3) > s(3)
           \/ r(1) = s(1) /\ r(2) = s(2) /\ r(3) = s(3) /\ r(4) > s(4)
           \/ r(1) = s(1) /\ r(2) = s(2) /\ r(3) = s(3) /\ r(4) = s(4) /\ i = 5
    BY <1>1, <2>1, SMT
  <2>3. PICK a \in 2..14, b \in 2..14, c \in 2..14, d \in 2..14 :
          a = r(1) /\ b = r(2) /\ c = r(3) /\ d = r(4)
    BY <2>2
  <2>4. PICK u \in 2..14, v \in 2..14, w \in 2..14, x \in 2..14 :
          u = s(1) /\ v = s(2) /\ w = s(3) /\ x = s(4)
    BY <2>2
  <2>5. ScoreOf(g) = 10000 * a + 666 * b + 44 * c + 2 * d /\ ScoreOf(h) = 10000 * u + 666 * v + 44 * w + 2 * x
    BY <2>1, <2>3, <2>4, SMT
  <2>6. \/ a > u
        \/ a = u /\ b > v
        \/ a = u /\ b = v /\ c > w
        \/ a = u /\ b = v /\ c = w /\ d > x
        \/ a = u /\ b = v /\ c = w /\ d = x /\ i = 5
    BY <2>2, <2>3, <2>4
  <2>7. \/ 10000 * a + 666 * b + 44 * c + 2 * d > 10000 * u + 666 * v + 44 * w + 2 * x
        \/ i = 5 /\ 10000 * a + 666 * b + 44 * c + 2 * d = 10000 * u + 666 * v + 44 * w + 2 * x
    BY ONLY <2>6, a \in 2..14, u \in 2..14, b \in 2..14, v \in 2..14, c \in 2..14, w \in 2..14, d \in 2..14, x \in 2..14, SMT
  <2>8. ScoreOf(g) > ScoreOf(h) \/ (i = 5 /\ ScoreOf(g) = ScoreOf(h))
    BY ONLY <2>5, <2>7, SMT
  <2> QED
    BY <1>6, <2>8
<1> QED
  BY <1>2, <1>3, <1>4, <1>5, <1>6 DEF Patterns

--------------------------------------------------------------------------------
(***************************************************************************)
(* No two pairs of different ranks                                         *)
(***************************************************************************)
\* The pattern of a hand and its place, each told by the other one.
LEMMA PlaceOfShape ==
  ASSUME NEW h, FiveCards(h)
  PROVE  \/ Shape(h) = <<1, 0, 0, 1>> /\ Place(h) = 8
         \/ Shape(h) = <<0, 1, 1, 0>> /\ Place(h) = 7
         \/ Shape(h) = <<2, 0, 1, 0>> /\ Place(h) = 4
         \/ Shape(h) = <<1, 2, 0, 0>> /\ Place(h) = 3
         \/ Shape(h) = <<3, 1, 0, 0>> /\ Place(h) = 2
         \/ Shape(h) = <<5, 0, 0, 0>> /\ Place(h) = 1
<1> DEFINE N(n) == Cardinality(Times(h, n))
<1>1. Shape(h) = <<N(1), N(2), N(3), N(4)>> /\ Place(h) = Max(Called(N(2), N(3), N(4)))
  BY DEF Shape, Place
<1>2. Shape(h) \in Patterns
  BY ShapeIsPattern
<1> HIDE DEF N
<1>3. ASSUME NEW a, NEW b, NEW c, NEW d, Shape(h) = <<a, b, c, d>>
      PROVE  Place(h) = Max(Called(b, c, d))
  <2>1. b = N(2) /\ c = N(3) /\ d = N(4)
    BY ONLY <1>1, <1>3
  <2> QED
    BY ONLY <1>1, <2>1, Zenon
<1>4. /\ Shape(h) = <<1, 0, 0, 1>> => Place(h) = 8
      /\ Shape(h) = <<0, 1, 1, 0>> => Place(h) = 7
      /\ Shape(h) = <<2, 0, 1, 0>> => Place(h) = 4
      /\ Shape(h) = <<1, 2, 0, 0>> => Place(h) = 3
      /\ Shape(h) = <<3, 1, 0, 0>> => Place(h) = 2
      /\ Shape(h) = <<5, 0, 0, 0>> => Place(h) = 1
  BY <1>3, CalledHighest
<1> QED
  BY ONLY <1>2, <1>4, Zenon DEF Patterns

\* The cards of h of one rank that it holds n times.
LEMMA CardsHeld ==
  ASSUME NEW h, FiveCards(h), NEW n, NEW x \in Times(h, n)
  PROVE  /\ {c \in h : c.rank = x} \subseteq h /\ IsFiniteSet({c \in h : c.rank = x})
         /\ Cardinality({c \in h : c.rank = x}) = n
BY CountBounds DEF FiveCards, Times, Count

\* The pair of one hand and that of another one, of a different rank, make
\* two pairs, with any fifth card, or better.
LEMMA TwoPairs ==
  ASSUME NEW S, S \subseteq Card, IsFiniteSet(S), Cardinality(S) >= 5,
         NEW g \in Fives(S), NEW h \in Fives(S),
         NEW x \in Times(g, 2), NEW z \in Times(h, 2), x # z
  PROVE  \E f \in Fives(S) : Category(f) > 2
<1> DEFINE P == {c \in g : c.rank = x}
           Q == {c \in h : c.rank = z}
<1>1. FiveCards(g) /\ FiveCards(h) /\ g \subseteq S /\ h \subseteq S
  BY FivesExist DEF Fives
<1>2. /\ P \subseteq S /\ IsFiniteSet(P) /\ Cardinality(P) = 2
      /\ Q \subseteq S /\ IsFiniteSet(Q) /\ Cardinality(Q) = 2
  BY <1>1, CardsHeld
<1>3. /\ \A c \in P : c.rank = x
      /\ \A c \in Q : c.rank = z
      /\ P \cap Q = {}
  OBVIOUS
<1> HIDE DEF P, Q
<1>4. P \cup Q \subseteq S /\ IsFiniteSet(P \cup Q) /\ Cardinality(P \cup Q) = 4
  BY <1>2, <1>3, TwoApart
<1>5. PICK e \in S : e \notin P \cup Q
  <2>1. P \cup Q # S
    <3>1. Cardinality(P \cup Q) # Cardinality(S)
      BY <1>4, FS_CardinalityType
    <3> QED
      BY <3>1
  <2> QED
    BY <1>4, <2>1
<1> DEFINE f == P \cup Q \cup {e}
<1>6. f \in Fives(S) /\ FiveCards(f)
  <2>1. IsFiniteSet(f) /\ Cardinality(f) = 5
    <3>1. IsFiniteSet({e}) /\ Cardinality({e}) = 1
      BY FS_Singleton
    <3>2. (P \cup Q) \cap {e} = {}
      BY <1>5
    <3>3. IsFiniteSet(f) /\ Cardinality(f) = Cardinality(P \cup Q) + Cardinality({e})
      BY ONLY <1>4, <3>1, <3>2, TwoApart, Zenon DEF f
    <3> QED
      BY <1>4, <3>1, <3>3
  <2>2. f \in SUBSET S
    BY <1>4
  <2> QED
    BY <2>1, <2>2 DEF Fives, FiveCards
<1>7. x # z /\ x \in RanksOf(f) /\ z \in RanksOf(f) /\ Count(f, x) >= 2 /\ Count(f, z) >= 2
  <2>1. /\ P \subseteq {c \in f : c.rank = x} /\ IsFiniteSet({c \in f : c.rank = x})
        /\ Q \subseteq {c \in f : c.rank = z} /\ IsFiniteSet({c \in f : c.rank = z})
    BY <1>3, <1>6, FS_Subset DEF FiveCards
  <2>2. Count(f, x) >= 2 /\ Count(f, z) >= 2
    BY <1>2, <2>1, FS_Subset DEF Count
  <2>3. P # {} /\ Q # {}
    BY <1>2, FS_EmptySet
  <2> QED
    BY <1>3, <2>2, <2>3 DEF RanksOf
<1> HIDE DEF f
<1>8. Place(f) > 2
  <2>1. x \notin Times(f, 1) /\ z \notin Times(f, 1)
    BY <1>7 DEF Times
  <2>2. IsFiniteSet(RanksOf(f)) /\ IsFiniteSet(Times(f, 1)) /\ Times(f, 1) \subseteq RanksOf(f)
    BY <1>6, HandIsNotEmpty, TimesAreFinite
  <2>3. IsFiniteSet({x, z}) /\ Cardinality({x, z}) = 2
    <3>1. IsFiniteSet({x}) /\ Cardinality({x}) = 1
      BY FS_Singleton
    <3>2. IsFiniteSet({z}) /\ Cardinality({z}) = 1
      BY FS_Singleton
    <3>3. {x, z} = {x} \cup {z} /\ {x} \cap {z} = {}
      BY <1>7
    <3> QED
      BY <3>1, <3>2, <3>3, TwoApart
  <2>4. Cardinality({x, z} \cup Times(f, 1)) = 2 + Cardinality(Times(f, 1))
    BY <2>1, <2>2, <2>3, TwoApart
  <2>5. 2 + Cardinality(Times(f, 1)) <= Cardinality(RanksOf(f))
    BY <1>7, <2>2, <2>4, FS_Subset
  <2>6. /\ Shape(f)[1] \in Nat /\ Cardinality(Times(f, 1)) = Shape(f)[1]
        /\ Cardinality(RanksOf(f)) = Shape(f)[1] + Shape(f)[2] + Shape(f)[3] + Shape(f)[4]
    BY <1>6, ShapeAdds DEF Shape
  <2>7. Shape(f) # <<3, 1, 0, 0>> /\ Shape(f) # <<5, 0, 0, 0>>
    BY <2>5, <2>6
  <2>8. Place(f) \in {8, 7, 4, 3}
    BY ONLY <1>6, <2>7, PlaceOfShape, Zenon
  <2> QED
    BY <2>8
<1>9. Category(f) > 2
  BY <1>6, <1>8, CategoryOfHand
<1> QED
  BY <1>6, <1>9

--------------------------------------------------------------------------------
(***************************************************************************)
(* Straights                                                               *)
(***************************************************************************)
\* A straight holds each of the five values up to its highest one once.
LEMMA RowHolds ==
  ASSUME NEW h, FiveCards(h), Row(h)
  PROVE  /\ HighOf(h) \in Int /\ Held(h, 1) = (HighOf(h) - 4)..HighOf(h)
         /\ \A n \in 2..4 : Held(h, n) = {}
<1> DEFINE ace == AceOf(h)
           V == Values(h, ace)
           high == HighOf(h)
           f == [c \in h |-> Value(c, ace)]
           With(v) == {c \in h : Value(c, ace) = v}
<1>1. ace \in Int
  BY DEF AceOf, Ace
<1>2. high \in Int /\ V = (high - 4)..high
  <2>1. CASE checkWheel(h)
    <3>1. ace = 1
      BY <2>1, StraightsFound DEF Row, AceOf
    <3>2. RanksOf(h) = {2, 3, 4, 5, 14}
      BY <2>1 DEF checkWheel, Ace
    <3>3. V = {v \in RanksOf(h) : v # Ace} \cup (IF Ace \in RanksOf(h) THEN {1} ELSE {})
      BY <3>1, RowIsFive
    <3>4. V = 1..5 /\ high = 5
      BY <2>1, <3>2, <3>3 DEF Ace, HighOf
    <3> HIDE DEF V, high
    <3> QED
      BY <3>4
  <2>2. CASE ~ checkWheel(h)
    <3>1. V = RanksOf(h) /\ high = Max(RanksOf(h)) /\ Five(RanksOf(h))
      BY <2>2, StraightsFound, StraightIsFive DEF Row, HighOf
    <3>2. PICK m \in Int : RanksOf(h) = m..(m + 4)
      BY <3>1 DEF Five
    <3>3. Max(m..(m + 4)) = m + 4
      <4>1. m..(m + 4) \in SUBSET Int /\ m + 4 \in m..(m + 4) /\ \A y \in m..(m + 4) : y <= m + 4
        OBVIOUS
      <4> QED
        BY ONLY <4>1, MaxIs
    <3> HIDE DEF V, high
    <3> QED
      BY <3>1, <3>2, <3>3
  <2> QED
    BY <2>1, <2>2
<1>3. h \in SUBSET Card /\ IsFiniteSet(h) /\ Cardinality(h) = 5
  BY DEF FiveCards
<1>4. \A c \in h : f[c] = Value(c, ace)
  OBVIOUS
<1>5. DOMAIN f = h /\ f = [x \in h |-> f[x]]
  OBVIOUS
<1>6. V = {f[c] : c \in h}
  BY DEF Values
<1> HIDE DEF f, ace, high
<1>7. Cardinality(V) = 5
  BY <1>2, FS_Interval
<1>8. \A c, d \in h : Value(c, ace) = Value(d, ace) => c = d
  <2>1. \A c, d \in h : f[c] = f[d] => c = d
    BY <1>3, <1>5, <1>6, <1>7, ImageSize
  <2> QED
    BY <1>4, <2>1
<1>9. ASSUME NEW v \in V PROVE Cardinality(With(v)) = 1
  <2>1. PICK c \in h : v = Value(c, ace)
    BY DEF Values
  <2>2. With(v) = {c}
    BY <1>8, <2>1
  <2> QED
    BY <2>2, FS_Singleton
<1>10. \A n : Held(h, n) = {v \in V : Cardinality(With(v)) = n}
  BY Zenon DEF Held, Values, ace
<1> HIDE DEF V, With
<1>11. Held(h, 1) = V /\ \A n \in 2..4 : Held(h, n) = {}
  BY <1>9, <1>10
<1> QED
  BY <1>2, <1>11 DEF high

\* Of two straights, the one that is better has the higher highest card.
LEMMA HigherRow ==
  ASSUME NEW g, NEW h, FiveCards(g), FiveCards(h), Row(g), Row(h),
         NEW n \in 1..4, Outranks(Held(g, n), Held(h, n))
  PROVE  HighOf(g) > HighOf(h)
<1>1. /\ HighOf(g) \in Int /\ Held(g, 1) = (HighOf(g) - 4)..HighOf(g)
      /\ HighOf(h) \in Int /\ Held(h, 1) = (HighOf(h) - 4)..HighOf(h)
      /\ \A k \in 2..4 : Held(g, k) = Held(h, k)
  BY RowHolds
<1>2. n = 1
  BY <1>1 DEF Outranks
<1>3. PICK a \in Int, b \in Int : a = HighOf(g) /\ b = HighOf(h)
  BY <1>1
<1> DEFINE A == (a - 4)..a
           B == (b - 4)..b
           D == (A \ B) \cup (B \ A)
<1>4. A # B /\ Max(D) \in A
  BY <1>1, <1>2, <1>3 DEF Outranks
<1>5. ASSUME ~ (a > b) PROVE FALSE
  <2>1. a < b
    BY <1>4, <1>5
  <2>2. b \in D /\ D \subseteq Int
    BY <2>1
  <2>3. IsFiniteSet(D)
    <3>1. IsFiniteSet(A) /\ IsFiniteSet(B)
      BY FS_Interval
    <3>2. IsFiniteSet(A \cup B) /\ D \subseteq A \cup B
      BY <3>1, FS_Union
    <3> QED
      BY <3>2, FS_Subset
  <2> HIDE DEF D
  <2>4. b <= Max(D)
    BY <2>2, <2>3, Extremes
  <2> QED
    BY <1>4, <2>1, <2>4
<1> QED
  BY <1>3, <1>5

--------------------------------------------------------------------------------
(***************************************************************************)
(* A better hand of the same rank                                          *)
(***************************************************************************)
\* What a score adds to the base of its rank.
ScoreInRank(h) ==
  IF Row(h) THEN IF OneSuit(h) /\ Royal(h) THEN 0 ELSE HighOf(h) ELSE ScoreOf(h)

\* The type and the score of a hand.
LEMMA Scored ==
  ASSUME NEW h, FiveCards(h)
  PROVE  /\ ScoreInRank(h) \in Nat /\ Category(h) \in 1..10
         /\ evaluateFive(h) = Made(RankTypes[Category(h)], Category(h) * Million + ScoreInRank(h))
<1>1. /\ Category(h) \in 1..10 /\ evaluateFive(h).type = RankTypes[Category(h)]
  BY DeployedTable, EvaluationFollowsRules DEF evaluateFive
<1>2. /\ HighOf(h) \in 2..14
      /\ Row(h) /\ OneSuit(h) /\ Royal(h) => evaluateFive(h) = Made("ROYAL_FLUSH", 10 * Million)
      /\ Row(h) /\ OneSuit(h) /\ ~ Royal(h) =>
           evaluateFive(h) = Made("STRAIGHT_FLUSH", 9 * Million + HighOf(h))
      /\ Row(h) /\ ~ OneSuit(h) => evaluateFive(h) = Made("STRAIGHT", 5 * Million + HighOf(h))
      /\ ~ Row(h) /\ OneSuit(h) => evaluateFive(h) = Made("FLUSH", 6 * Million + ScoreOf(h))
      /\ ~ Row(h) /\ ~ OneSuit(h) =>
           evaluateFive(h) = Made(patternOf(Patterned, rankCount(h)).type,
                                  patternOf(Patterned, rankCount(h)).base + ScoreOf(h))
  BY Evaluated DEF evaluateFive, ScoreOf
<1>3. patternOf(Patterned, rankCount(h)).base = Place(h) * Million
  BY DeployedTable, EntryOfHand DEF IsEntry
<1>4. /\ Row(h) /\ OneSuit(h) => Category(h) = IF Royal(h) THEN 10 ELSE 9
      /\ Row(h) /\ ~ OneSuit(h) => Category(h) = 5
      /\ ~ Row(h) /\ OneSuit(h) => Category(h) = 6
      /\ ~ Row(h) /\ ~ OneSuit(h) => Category(h) = Place(h)
  BY CategoryOfHand
<1>5. ScoreInRank(h) \in Nat
  <2>1. ScoreOf(h) \in Nat
    BY ScoreByPlaces
  <2> QED
    BY <1>2, <2>1 DEF ScoreInRank
<1>6. \E type : evaluateFive(h) = Made(type, Category(h) * Million + ScoreInRank(h))
  <2>1. Million \in Nat
    BY DEF Million
  <2>2. CASE Row(h) /\ OneSuit(h) /\ Royal(h)
    <3>1. Category(h) = 10 /\ ScoreInRank(h) = 0
      BY <1>4, <2>2 DEF ScoreInRank
    <3>2. 10 * Million + 0 = 10 * Million
      BY <2>1
    <3> QED
      BY ONLY <1>2, <2>2, <3>1, <3>2, Zenon
  <2>3. CASE Row(h) /\ OneSuit(h) /\ ~ Royal(h)
    BY <1>2, <1>4, <2>3, Zenon DEF ScoreInRank
  <2>4. CASE Row(h) /\ ~ OneSuit(h)
    BY <1>2, <1>4, <2>4, Zenon DEF ScoreInRank
  <2>5. CASE ~ Row(h) /\ OneSuit(h)
    BY <1>2, <1>4, <2>5, Zenon DEF ScoreInRank
  <2>6. CASE ~ Row(h) /\ ~ OneSuit(h)
    BY <1>2, <1>3, <1>4, <2>6, Zenon DEF ScoreInRank
  <2> QED
    BY <2>2, <2>3, <2>4, <2>5, <2>6, Zenon
<1> QED
  BY <1>1, <1>5, <1>6 DEF Made

\* The cards of one suit have different ranks.
LEMMA FlushShape ==
  ASSUME NEW h, FiveCards(h), OneSuit(h)
  PROVE  Shape(h) = <<5, 0, 0, 0>>
<1>1. h \in SUBSET Card /\ IsFiniteSet(h) /\ Cardinality(h) = 5
  BY DEF FiveCards
<1>2. \A c, d \in h : c.rank = d.rank => c = d
  BY <1>1 DEF OneSuit, Card
<1>3. Cardinality(RanksOf(h)) = 5
  BY <1>1, <1>2, RanksAreFinite
<1>4. Cardinality(RanksOf(h)) = Shape(h)[1] + Shape(h)[2] + Shape(h)[3] + Shape(h)[4]
  BY ShapeAdds DEF Shape
<1>5. Shape(h) \in Patterns
  BY ShapeIsPattern
<1> QED
  BY <1>3, <1>4, <1>5 DEF Patterns

\* The pair of a hand that is called so comes first.
LEMMA PairFirst ==
  ASSUME NEW h, FiveCards(h), Shape(h) = <<3, 1, 0, 0>>
  PROVE  At(h, 1).count = 2
<1> DEFINE a == At(h, 1)
<1>1. Size(h) = 4
  BY ScoreByPlaces
<1>2. a \in rankCount(h) /\ IsCount(a) /\ placeOf(a, rankCount(h)) = 1
  BY <1>1, Placed
<1> HIDE DEF a
<1>3. IsFiniteSet(rankCount(h)) /\ \A b \in rankCount(h) : IsCount(b)
  BY CountedSizes, Counted
<1>4. a.rank \in Times(h, a.count) /\ a.count \in 1..4
  BY <1>2, Counted DEF IsCount
<1>5. /\ Cardinality(Times(h, 2)) = 1 /\ Cardinality(Times(h, 3)) = 0
      /\ Cardinality(Times(h, 4)) = 0
  <2>1. Shape(h) = <<Cardinality(Times(h, 1)), Cardinality(Times(h, 2)),
                     Cardinality(Times(h, 3)), Cardinality(Times(h, 4))>>
    BY DEF Shape
  <2> QED
    BY ONLY <2>1, Shape(h) = <<3, 1, 0, 0>>
<1>6. Times(h, 2) # {} /\ Times(h, 3) = {} /\ Times(h, 4) = {}
  BY <1>5, TimesAreFinite, FS_EmptySet
<1>7. PICK y : y \in Times(h, 2)
  BY <1>6
<1>8. PICK b : b \in rankCount(h) /\ b.count = 2
  <2>1. [rank |-> y, count |-> 2] \in rankCount(h)
    BY <1>7, Counted
  <2> QED
    BY <2>1
<1>9. ~ Higher(b, a)
  <2>1. placeOf(b, rankCount(h)) \in 1..Cardinality(rankCount(h))
    BY <1>3, <1>8, PlaceOrders
  <2>2. Higher(b, a) <=> placeOf(b, rankCount(h)) < placeOf(a, rankCount(h))
    BY <1>2, <1>3, <1>8, PlaceOrders
  <2> QED
    BY <1>2, <2>1, <2>2
<1>10. ~ (2 > a.count)
  BY <1>8, <1>9 DEF Higher
<1>11. a.count # 3 /\ a.count # 4
  BY <1>4, <1>6
<1> QED
  BY <1>4, <1>10, <1>11 DEF a

\* How a hand that beats another one of the same rank differs from it.
LEMMA BetterInRank ==
  ASSUME NEW g, NEW h, FiveCards(g), FiveCards(h), Category(g) = Category(h), Beats(g, h)
  PROVE  \/ ScoreInRank(g) > ScoreInRank(h)
         \/ /\ Category(h) = 2
            /\ \E x \in Times(g, 2), z \in Times(h, 2) : x > z
         \/ /\ ScoreInRank(g) = ScoreInRank(h) /\ Size(g) = 5 /\ Size(h) = 5
            /\ RankAt(g, 5) > RankAt(h, 5)
<1>1. PICK n \in 1..4 : /\ Outranks(Held(g, n), Held(h, n))
                        /\ \A m \in (n + 1)..4 : Held(g, m) = Held(h, m)
  <2>1. Category(g) \in 1..10 /\ Category(h) \in 1..10
    BY Scored
  <2> QED
    BY <2>1 DEF Beats
<1>2. \A f \in {g, h} :
        /\ Row(f) /\ OneSuit(f) => Category(f) = IF Royal(f) THEN 10 ELSE 9
        /\ Row(f) /\ ~ OneSuit(f) => Category(f) = 5
        /\ ~ Row(f) /\ OneSuit(f) => Category(f) = 6
        /\ ~ Row(f) /\ ~ OneSuit(f) => Category(f) = Place(f) /\ Place(f) \in {1, 2, 3, 4, 7, 8}
  BY CategoryOfHand, DeployedTable, EntryOfHand
<1>3. \A f \in {g, h} : HighOf(f) \in 2..14 /\ (Row(f) => (HighOf(f) = Ace <=> Royal(f)))
  BY Evaluated
<1>4. (Row(g) <=> Row(h)) /\ (OneSuit(g) <=> OneSuit(h))
      /\ (OneSuit(h) /\ Row(h) => (Royal(g) <=> Royal(h)))
  BY <1>2
<1>5. CASE Row(h)
  <2>1. HighOf(g) > HighOf(h)
    BY <1>1, <1>4, <1>5, HigherRow
  <2>2. ~ (OneSuit(h) /\ Royal(h)) /\ ~ (OneSuit(g) /\ Royal(g))
    BY <1>3, <1>4, <1>5, <2>1
  <2>3. ScoreInRank(g) = HighOf(g) /\ ScoreInRank(h) = HighOf(h)
    BY <1>4, <1>5, <2>2 DEF ScoreInRank
  <2> QED
    BY <2>1, <2>3
<1>6. CASE ~ Row(h)
  <2>1. ScoreInRank(g) = ScoreOf(g) /\ ScoreInRank(h) = ScoreOf(h)
    BY <1>4, <1>6 DEF ScoreInRank
  <2>2. \A m : Held(g, m) = Times(g, m) /\ Held(h, m) = Times(h, m)
    BY <1>4, <1>6, HeldIsTimes DEF Row
  <2>3. Shape(g) = Shape(h)
    <3>1. CASE OneSuit(h)
      BY <1>4, <3>1, FlushShape
    <3>2. CASE ~ OneSuit(h)
      <4>1. Place(g) = Place(h)
        BY <1>2, <1>4, <1>6, <3>2
      <4> QED
        BY <4>1, PlaceOfShape
    <3> QED
      BY <3>1, <3>2
  <2>4. Outranks(Times(g, n), Times(h, n)) /\ SameAbove(g, h, n)
    BY <1>1, <2>2 DEF SameAbove
  <2>5. /\ Size(g) = Size(h)
        /\ \E i \in 1..Size(g) :
             /\ RankAt(g, i) > RankAt(h, i) /\ RankAt(g, i) \in Times(g, At(g, i).count)
             /\ RankAt(h, i) \in Times(h, At(g, i).count)
             /\ \A j \in 1..(i - 1) : RankAt(g, j) = RankAt(h, j)
    BY <2>3, <2>4, FirstDifference
  <2>6. PICK i \in 1..Size(g) :
          /\ RankAt(g, i) > RankAt(h, i) /\ RankAt(g, i) \in Times(g, At(g, i).count)
          /\ RankAt(h, i) \in Times(h, At(g, i).count)
          /\ \A j \in 1..(i - 1) : RankAt(g, j) = RankAt(h, j)
    BY <2>5
  <2>7. \/ ScoreOf(g) > ScoreOf(h)
        \/ Shape(h) = <<3, 1, 0, 0>> /\ i = 1
        \/ Shape(h) = <<5, 0, 0, 0>> /\ i = 5 /\ ScoreOf(g) = ScoreOf(h)
    BY <2>3, <2>5, <2>6, HigherScores DEF HigherAt
  <2>8. ASSUME Shape(h) = <<3, 1, 0, 0>>, i = 1
        PROVE  Category(h) = 2 /\ \E x \in Times(g, 2), z \in Times(h, 2) : x > z
    <3>1. At(g, 1).count = 2
      BY <2>3, <2>8, PairFirst
    <3>2. ~ OneSuit(h)
      BY <2>8, FlushShape
    <3>3. Category(h) = 2
      BY <1>2, <1>6, <2>8, <3>2, PlaceOfShape
    <3> QED
      BY <2>6, <2>8, <3>1, <3>3
  <2>9. ASSUME Shape(h) = <<5, 0, 0, 0>> PROVE Size(h) = 5
    BY <2>9, ScoreByPlaces
  <2> QED
    BY <2>1, <2>5, <2>6, <2>7, <2>8, <2>9
<1> QED
  BY <1>5, <1>6

\* Where the fifth card weighs nothing in a score, a better hand may have the
\* score revealed: of the hands of that score, the one with the highest fifth
\* card is beaten by none.
LEMMA BestIsBeatenByNone ==
  ASSUME NEW S, S \subseteq Card, IsFiniteSet(S), Cardinality(S) >= 5
  PROVE  \E h \in Fives(S) : /\ evaluateFive(h) = Best(Patterned, S)
                             /\ \A g \in Fives(S) : ~ Beats(g, h)
<1> DEFINE best == Best(Patterned, S)
           T == {h \in Fives(S) : evaluateFive(h) = best}
           last == [h \in T |-> IF Size(h) = 5 THEN RankAt(h, 5) ELSE 0]
<1>1. /\ IsFiniteSet(Fives(S)) /\ \A h \in Fives(S) : FiveCards(h)
      /\ \E h \in Fives(S) : evaluateFive(h) = best
      /\ \A h \in Fives(S) : evaluateFive(h).score <= best.score
  BY FivesExist, DeployedTable, BestScores DEF evaluateFive
<1>2. T \subseteq Fives(S) /\ IsFiniteSet(T) /\ T # {}
  BY <1>1, FS_Subset
<1>3. \A h \in T : last[h] \in Int /\ (Size(h) = 5 => last[h] = RankAt(h, 5))
  BY <1>1, <1>2, Placed
<1>4. DOMAIN last = T /\ last = [x \in T |-> last[x]]
  OBVIOUS
<1> HIDE DEF last
<1>5. PICK h \in T : \A g \in T : last[g] <= last[h]
  BY <1>2, <1>3, <1>4, HighestOf
<1>6. h \in Fives(S) /\ FiveCards(h) /\ evaluateFive(h) = best
  BY <1>1, <1>2
<1>7. ASSUME NEW g \in Fives(S), Beats(g, h) PROVE FALSE
  <2>1. FiveCards(g)
    BY <1>1
  <2>2. /\ ScoreInRank(g) \in Nat /\ Category(g) \in 1..10
        /\ evaluateFive(g) = Made(RankTypes[Category(g)], Category(g) * Million + ScoreInRank(g))
        /\ ScoreInRank(h) \in Nat /\ Category(h) \in 1..10
        /\ evaluateFive(h) = Made(RankTypes[Category(h)], Category(h) * Million + ScoreInRank(h))
    BY <1>6, <2>1, Scored
  <2>3. \A f \in Fives(S) : Category(f) <= Category(h)
    BY <1>6, DeployedTable, BestIsHighest DEF evaluateFive
  <2>4. Category(g) = Category(h)
    <3>1. Category(g) <= Category(h) /\ Category(g) >= Category(h)
      BY <1>7, <2>2, <2>3 DEF Beats
    <3> QED
      BY <2>2, <3>1
  <2>5. ~ (ScoreInRank(g) > ScoreInRank(h))
    <3>1. evaluateFive(g).score <= evaluateFive(h).score
      BY <1>1, <1>6
    <3>2. PICK m \in Nat : m = Category(h) * Million
      <4>1. \A k \in 1..10 : k * Million \in Nat
        BY DEF Million
      <4> QED
        BY <2>2, <4>1
    <3>3. /\ evaluateFive(g).score = Category(g) * Million + ScoreInRank(g)
          /\ evaluateFive(h).score = Category(h) * Million + ScoreInRank(h)
      BY <2>2 DEF Made
    <3>4. m + ScoreInRank(g) <= m + ScoreInRank(h)
      BY ONLY <2>4, <3>1, <3>2, <3>3, Zenon
    <3> QED
      BY <2>2, <3>4
  <2>6. CASE Category(h) = 2 /\ \E x \in Times(g, 2), z \in Times(h, 2) : x > z
    <3>1. PICK x \in Times(g, 2), z \in Times(h, 2) : x > z
      BY <2>6
    <3>2. x \in 2..14 /\ z \in 2..14
      BY <1>6, <2>1, TimesAreFinite
    <3>3. x # z
      BY <3>1, <3>2
    <3>4. PICK f \in Fives(S) : Category(f) > 2
      <4>1. g \in Fives(S) /\ h \in Fives(S) /\ x \in Times(g, 2) /\ z \in Times(h, 2)
        BY <1>6
      <4> QED
        BY ONLY S \subseteq Card, IsFiniteSet(S), Cardinality(S) >= 5, <3>3, <4>1, TwoPairs, Zenon
    <3> QED
      <4>1. Category(f) <= 2
        BY <2>3, <2>6
      <4>2. Category(f) \in 1..10
        BY <1>1, Scored
      <4> QED
        BY <3>4, <4>1, <4>2
  <2>7. CASE /\ ScoreInRank(g) = ScoreInRank(h) /\ Size(g) = 5 /\ Size(h) = 5
             /\ RankAt(g, 5) > RankAt(h, 5)
    <3>1. evaluateFive(g) = best
      BY ONLY <1>6, <2>2, <2>4, <2>7, Zenon
    <3>2. g \in T
      BY <3>1
    <3>3. last[g] <= last[h] /\ last[g] = RankAt(g, 5) /\ last[h] = RankAt(h, 5)
      BY <1>3, <1>5, <2>7, <3>2
    <3>4. RankAt(g, 5) \in Int /\ RankAt(h, 5) \in Int
      BY <1>3, <3>2, <3>3
    <3> QED
      BY <2>7, <3>3, <3>4
  <2> QED
    BY <1>6, <1>7, <2>1, <2>4, <2>5, <2>6, <2>7, BetterInRank
<1> QED
  BY <1>6, <1>7

--------------------------------------------------------------------------------
(***************************************************************************)
(* The theorems                                                            *)
(***************************************************************************)
CardsDealt == cards \subseteq Card /\ IsFiniteSet(cards)

\* The cards dealt are cards of the deck, finitely many.
LEMMA CardsAreDealt == Spec => []CardsDealt
<1>1. Init => CardsDealt
  BY FS_EmptySet DEF Init, CardsDealt
<1>2. CardsDealt /\ [Next]_cards => CardsDealt'
  <2> SUFFICES ASSUME CardsDealt, [Next]_cards PROVE CardsDealt'
    OBVIOUS
  <2>1. CASE Deal
    <3>1. PICK c \in Card \ cards : cards' = cards \cup {c}
      BY <2>1 DEF Deal
    <3> QED
      BY <3>1, FS_AddElement DEF CardsDealt
  <2>2. CASE UNCHANGED cards
    BY <2>2 DEF CardsDealt
  <2> QED
    BY <2>1, <2>2 DEF Next
<1> QED
  BY <1>1, <1>2, PTL DEF Spec

\* evaluateFive calls five cards what the rules of poker call them, and the
\* score it gives tells the rank: whatever the cards add to it never reaches
\* the scores of the next rank.
THEOREM RanksFollowRules == Spec => []RankFollowsRules
<1>1. CardsDealt => RankFollowsRules
  <2> SUFFICES ASSUME CardsDealt, Cardinality(cards) = 5
               PROVE  /\ evaluateFive(cards).type = RankTypes[Category(cards)]
                      /\ evaluateFive(cards).score \div Million = Category(cards)
    BY Zenon DEF RankFollowsRules
  <2>1. FiveCards(cards)
    BY DEF CardsDealt, FiveCards
  <2> QED
    BY <2>1, DeployedTable, EvaluationFollowsRules DEF evaluateFive
<1> QED
  BY <1>1, CardsAreDealt, PTL

\* In hold'em and in five card draw, the functional handlers of the tests, whose
\* weights differ, reveal the rank that the deployed aggregate reveals for the
\* same cards of a player.
THEOREM MirrorRevealsRank == Spec => []MirrorRevealsSameRank
<1>1. CardsDealt => MirrorBestFive(cards).type = findBestFive(cards).type
  <2> SUFFICES ASSUME CardsDealt
               PROVE  MirrorBestFive(cards).type = findBestFive(cards).type
    OBVIOUS
  <2>1. CASE Cardinality(cards) < 5
    BY <2>1, Zenon DEF MirrorBestFive, findBestFive
  <2>2. CASE ~ (Cardinality(cards) < 5)
    <3>1. cards \subseteq Card /\ IsFiniteSet(cards) /\ Cardinality(cards) >= 5
      BY <2>2, FS_CardinalityType DEF CardsDealt
    <3>2. /\ MirrorBestFive(cards) = Best(MirrorPatterned, cards)
          /\ findBestFive(cards) = Best(Patterned, cards)
      BY <2>2, Zenon DEF MirrorBestFive, findBestFive, evaluateFive, Best
    <3>3. PICK g \in Fives(cards) :
            /\ MirrorBestFive(cards).type = RankTypes[Category(g)]
            /\ \A f \in Fives(cards) : Category(f) <= Category(g)
      BY <3>1, <3>2, MirrorTable, BestScores, BestIsHighest
    <3>4. PICK h \in Fives(cards) :
            /\ findBestFive(cards).type = RankTypes[Category(h)]
            /\ \A f \in Fives(cards) : Category(f) <= Category(h)
      BY <3>1, <3>2, DeployedTable, BestScores, BestIsHighest
    <3>5. Category(g) \in 1..10 /\ Category(h) \in 1..10
      BY <3>1, FivesExist, DeployedTable, EvaluationFollowsRules
    <3>6. Category(g) <= Category(h) /\ Category(h) <= Category(g)
      BY <3>3, <3>4
    <3>7. Category(g) = Category(h)
      BY ONLY <3>5, <3>6
    <3> QED
      BY <3>3, <3>4, <3>7
  <2> QED
    BY <2>1, <2>2
<1>2. CardsDealt /\ Cardinality(cards) = 5 =>
        evaluateWith(MirrorPatterned, cards).type = evaluateFive(cards).type
  <2> SUFFICES ASSUME CardsDealt, Cardinality(cards) = 5
               PROVE  evaluateWith(MirrorPatterned, cards).type = evaluateFive(cards).type
    OBVIOUS
  <2>1. FiveCards(cards)
    BY DEF CardsDealt, FiveCards
  <2> QED
    BY <2>1, MirrorTable, DeployedTable, EvaluationFollowsRules DEF evaluateFive
<1>3. CardsDealt => MirrorRevealsSameRank
  <2> SUFFICES ASSUME CardsDealt,
                      NEW variant \in {"TEXAS_HOLDEM", "FIVE_CARD_DRAW"},
                      variant = "FIVE_CARD_DRAW" => Cardinality(cards) <= 5
               PROVE  EvaluateHand(variant, cards).type = evaluateHand(variant, cards).type
    BY Zenon DEF MirrorRevealsSameRank
  <2>1. Cardinality(cards) \in Nat
    BY FS_CardinalityType DEF CardsDealt
  <2>2. CASE variant = "TEXAS_HOLDEM"
    <3>1. EvaluateHand(variant, cards) = MirrorBestFive(cards)
      BY <2>2 DEF EvaluateHand
    <3>2. evaluateHand(variant, cards) = findBestFive(cards)
      BY <2>2 DEF evaluateHand
    <3> QED
      BY <1>1, <3>1, <3>2, Zenon
  <2>3. CASE variant = "FIVE_CARD_DRAW" /\ Cardinality(cards) < 5
    <3>1. EvaluateHand(variant, cards) = Made("HIGH_CARD", 0)
      BY <2>1, <2>3 DEF EvaluateHand
    <3>2. evaluateHand(variant, cards) = Made("HIGH_CARD", 0)
      BY <2>1, <2>3 DEF evaluateHand
    <3> QED
      BY <3>1, <3>2, Zenon
  <2>4. CASE variant = "FIVE_CARD_DRAW" /\ ~ (Cardinality(cards) < 5)
    <3>1. Cardinality(cards) = 5
      BY <2>1, <2>4
    <3>2. EvaluateHand(variant, cards) = evaluateWith(MirrorPatterned, cards)
      BY <2>4, <3>1 DEF EvaluateHand
    <3>3. evaluateHand(variant, cards) = evaluateFive(cards)
      BY <2>4, <3>1 DEF evaluateHand
    <3> QED
      BY <1>2, <3>1, <3>2, <3>3, Zenon
  <2> QED
    BY <2>2, <2>3, <2>4
<1> QED
  BY <1>3, CardsAreDealt, PTL

\* What RevealCards says that a player holds is a hand of five of the cards
\* the player may use that no other five of them beat by the rules of poker,
\* although the scores do not tell the kickers of all hands.
THEOREM BestIsFound == Spec => []BestHandIsFound
<1>1. CardsDealt => BestHandIsFound
  <2> SUFFICES ASSUME CardsDealt, Cardinality(cards) >= 5
               PROVE  \E h \in Fives(cards) : /\ evaluateFive(h) = findBestFive(cards)
                                              /\ \A g \in Fives(cards) : ~ Beats(g, h)
    BY Zenon DEF BestHandIsFound
  <2>1. cards \subseteq Card /\ IsFiniteSet(cards) /\ Cardinality(cards) \in Nat
    BY FS_CardinalityType DEF CardsDealt
  <2>2. ~ (Cardinality(cards) < 5)
    BY <2>1
  <2>3. findBestFive(cards) = Best(Patterned, cards)
    BY <2>2, Zenon DEF findBestFive, evaluateFive, Best
  <2> QED
    BY <2>1, <2>3, BestIsBeatenByNone
<1> QED
  BY <1>1, CardsAreDealt, PTL
================================================================================
