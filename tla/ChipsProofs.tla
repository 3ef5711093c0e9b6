------------------------------ MODULE ChipsProofs ------------------------------
(***************************************************************************)
(* What Total is: the fold that defines it takes the elements in an order  *)
(* that CHOOSE gives, and none of what follows depends on it.              *)
(*                                                                         *)
(* The facts about all finite sets are proved by taking a smallest set     *)
(* that lacks the property, which there is because the strict subsets of a *)
(* finite set are well-founded.                                            *)
(***************************************************************************)
EXTENDS Chips, Folds, FiniteSetTheorems, WellFoundedInduction, TLAPS

\* A family of finite sets has a member that contains no other.
LEMMA SmallestSet ==
  ASSUME NEW D, IsFiniteSet(D), NEW F, F \subseteq SUBSET D, F # {}
  PROVE  \E s \in F : \A r \in F : r \subseteq s => r = s
<1>1. IsWellFoundedOn(StrictSubsetOrdering(D), FiniteSubsetsOf(D))
  BY FS_StrictSubsetOrderingWellFounded
<1>2. F \subseteq FiniteSubsetsOf(D)
  BY FS_Subset DEF FiniteSubsetsOf
<1>3. \E x \in F : \A y \in F : ~ (<<y, x>> \in StrictSubsetOrdering(D))
  BY <1>1, <1>2, WFMin, Zenon
<1> QED
  BY <1>3 DEF StrictSubsetOrdering

--------------------------------------------------------------------------------
(***************************************************************************)
(* The fold as a recurrence                                                *)
(***************************************************************************)
Some(s) == CHOOSE x \in s : TRUE

IsFold(f, D, g) ==
  g = [s \in SUBSET D |-> IF s = {} THEN 0 ELSE f[Some(s)] + g[s \ {Some(s)}]]

TotalOn(f, s) == (CHOOSE g : IsFold(f, s, g))[s]

LEMMA TotalIsOnDomain ==
  ASSUME NEW f
  PROVE  Total(f) = TotalOn(f, DOMAIN f)
BY DEF Total, FoldFunction, FoldFunctionOnSet, MapThenFoldSet, TotalOn, IsFold, Some

LEMMA SomeIsIn ==
  ASSUME NEW s, s # {}
  PROVE  /\ Some(s) \in s
         /\ s \ {Some(s)} \in SUBSET s /\ s \ {Some(s)} # s
BY DEF Some

\* The recurrence has one solution on the sets that two domains share.
LEMMA FoldIsUnique ==
  ASSUME NEW f, NEW D, NEW E, NEW g, NEW h, IsFold(f, D, g), IsFold(f, E, h),
         NEW s, IsFiniteSet(s), s \subseteq D, s \subseteq E
  PROVE  g[s] = h[s]
<1> DEFINE F == {r \in SUBSET s : g[r] # h[r]}
<1> SUFFICES ASSUME g[s] # h[s] PROVE FALSE
  OBVIOUS
<1>1. F \subseteq SUBSET s /\ F # {}
  OBVIOUS
<1>2. PICK r \in F : \A q \in F : q \subseteq r => q = r
  <2> HIDE DEF F
  <2> QED
    BY <1>1, SmallestSet
<1>3. /\ g[r] = IF r = {} THEN 0 ELSE f[Some(r)] + g[r \ {Some(r)}]
      /\ h[r] = IF r = {} THEN 0 ELSE f[Some(r)] + h[r \ {Some(r)}]
  <2>1. r \in SUBSET D /\ r \in SUBSET E
    OBVIOUS
  <2>2. g[r] = IF r = {} THEN 0 ELSE f[Some(r)] + g[r \ {Some(r)}]
    BY <2>1, Zenon DEF IsFold
  <2>3. h[r] = IF r = {} THEN 0 ELSE f[Some(r)] + h[r \ {Some(r)}]
    BY <2>1, Zenon DEF IsFold
  <2> QED
    BY <2>2, <2>3
<1>4. r # {}
  BY <1>3
<1>5. r \ {Some(r)} \notin F
  BY <1>2, <1>4, SomeIsIn
<1>6. g[r \ {Some(r)}] = h[r \ {Some(r)}]
  BY <1>5
<1> QED
  BY <1>3, <1>4, <1>6

\* A solution on a set gives one on each of its subsets.
LEMMA FoldRestricts ==
  ASSUME NEW f, NEW D, NEW g, IsFold(f, D, g), NEW E \in SUBSET D
  PROVE  IsFold(f, E, [s \in SUBSET E |-> g[s]])
<1> DEFINE h == [s \in SUBSET E |-> g[s]]
<1>1. ASSUME NEW s \in SUBSET E
      PROVE  h[s] = IF s = {} THEN 0 ELSE f[Some(s)] + h[s \ {Some(s)}]
  <2>1. s \in SUBSET D /\ s \ {Some(s)} \in SUBSET E
    OBVIOUS
  <2>2. g[s] = IF s = {} THEN 0 ELSE f[Some(s)] + g[s \ {Some(s)}]
    BY <2>1, Zenon DEF IsFold
  <2>3. h[s] = g[s] /\ h[s \ {Some(s)}] = g[s \ {Some(s)}]
    BY <2>1
  <2> QED
    BY <2>2, <2>3
<1>2. h = [s \in SUBSET E |-> h[s]]
  OBVIOUS
<1>3. h = [s \in SUBSET E |-> IF s = {} THEN 0 ELSE f[Some(s)] + h[s \ {Some(s)}]]
  <2> HIDE DEF h
  <2> QED
    BY <1>1, <1>2, Zenon
<1> QED
  BY <1>3 DEF IsFold

LEMMA TotalOnUnfolds ==
  ASSUME NEW f, NEW s, IsFiniteSet(s), \E g : IsFold(f, s, g)
  PROVE  TotalOn(f, s) = IF s = {} THEN 0 ELSE f[Some(s)] + TotalOn(f, s \ {Some(s)})
<1> DEFINE g == CHOOSE g : IsFold(f, s, g)
           r == s \ {Some(s)}
           h == CHOOSE h : IsFold(f, r, h)
<1>1. IsFold(f, s, g)
  OBVIOUS
<1>2. IsFold(f, r, [q \in SUBSET r |-> g[q]])
  <2> HIDE DEF g
  <2>1. r \in SUBSET s
    OBVIOUS
  <2> QED
    BY <1>1, <2>1, FoldRestricts
<1>3. IsFold(f, r, h)
  BY <1>2
<1>4. g[r] = h[r]
  <2> HIDE DEF g, h
  <2>1. IsFiniteSet(r) /\ r \subseteq s
    BY FS_Subset
  <2> QED
    BY <1>1, <1>3, <2>1, FoldIsUnique
<1>5. TotalOn(f, s) = g[s] /\ TotalOn(f, r) = h[r]
  BY DEF TotalOn
<1>6. g[s] = IF s = {} THEN 0 ELSE f[Some(s)] + g[r]
  <2> HIDE DEF g
  <2> QED
    BY <1>1, Zenon DEF IsFold
<1> QED
  BY <1>4, <1>5, <1>6

LEMMA FoldExists ==
  ASSUME NEW f, NEW D, IsFiniteSet(D)
  PROVE  \E g : IsFold(f, D, g)
<1> DEFINE F == {s \in SUBSET D : ~ \E g : IsFold(f, s, g)}
<1> SUFFICES ASSUME F # {} PROVE FALSE
  OBVIOUS
<1>1. PICK s \in F : \A r \in F : r \subseteq s => r = s
  <2>1. F \subseteq SUBSET D
    OBVIOUS
  <2> HIDE DEF F
  <2> QED
    BY <2>1, SmallestSet
<1> DEFINE g == [r \in SUBSET s |-> IF r = {} THEN 0 ELSE f[Some(r)] + TotalOn(f, r \ {Some(r)})]
<1>2. ASSUME NEW r \in SUBSET s
      PROVE  g[r] = IF r = {} THEN 0 ELSE f[Some(r)] + g[r \ {Some(r)}]
  <2> DEFINE q == r \ {Some(r)}
  <2>1. CASE r = {}
    BY <2>1
  <2>2. CASE r # {}
    <3>1. q \in SUBSET s /\ q # s /\ q \notin F /\ IsFiniteSet(q)
      <4>1. q \in SUBSET r /\ q # r
        BY <2>2, SomeIsIn
      <4>2. q \in SUBSET s /\ q # s
        BY <4>1
      <4>3. q \notin F
        BY <1>1, <4>2
      <4>4. q \in SUBSET D
        BY <4>2
      <4>5. IsFiniteSet(q)
        BY <4>4, FS_Subset
      <4> QED
        BY <4>2, <4>3, <4>5
    <3>2. \E h : IsFold(f, q, h)
      BY <3>1
    <3>3. TotalOn(f, q) = IF q = {} THEN 0 ELSE f[Some(q)] + TotalOn(f, q \ {Some(q)})
      <4> HIDE DEF q
      <4> QED
        BY <3>1, <3>2, TotalOnUnfolds
    <3>4. g[q] = TotalOn(f, q)
      BY <3>1, <3>3
    <3>5. g[r] = f[Some(r)] + TotalOn(f, q)
      BY <2>2
    <3> QED
      BY <2>2, <3>4, <3>5
  <2> QED
    BY <2>1, <2>2
<1>3. g = [r \in SUBSET s |-> g[r]]
  OBVIOUS
<1>4. g = [r \in SUBSET s |-> IF r = {} THEN 0 ELSE f[Some(r)] + g[r \ {Some(r)}]]
  <2> HIDE DEF g
  <2> QED
    BY <1>2, <1>3, Zenon
<1>5. IsFold(f, s, g)
  BY <1>4 DEF IsFold
<1> HIDE DEF g
<1> QED
  BY <1>5

LEMMA TotalOnStep ==
  ASSUME NEW f, NEW s, IsFiniteSet(s)
  PROVE  TotalOn(f, s) = IF s = {} THEN 0 ELSE f[Some(s)] + TotalOn(f, s \ {Some(s)})
BY FoldExists, TotalOnUnfolds
--------------------------------------------------------------------------------
(***************************************************************************)
(* Sums of integers                                                        *)
(***************************************************************************)
LEMMA TotalOnInt ==
  ASSUME NEW D, IsFiniteSet(D), NEW f \in [D -> Int], NEW s \in SUBSET D
  PROVE  TotalOn(f, s) \in Int
<1> DEFINE F == {r \in SUBSET D : TotalOn(f, r) \notin Int}
<1> SUFFICES ASSUME F # {} PROVE FALSE
  OBVIOUS
<1>1. PICK r \in F : \A q \in F : q \subseteq r => q = r
  <2>1. F \subseteq SUBSET D
    OBVIOUS
  <2> HIDE DEF F
  <2> QED
    BY <2>1, SmallestSet
<1>2. IsFiniteSet(r) /\ r \subseteq D
  BY FS_Subset
<1>3. TotalOn(f, r) = IF r = {} THEN 0 ELSE f[Some(r)] + TotalOn(f, r \ {Some(r)})
  BY <1>2, TotalOnStep
<1>4. r # {}
  BY <1>3
<1>5. Some(r) \in r /\ r \ {Some(r)} \in SUBSET r /\ r \ {Some(r)} # r
  BY <1>4, SomeIsIn
<1>6. TotalOn(f, r \ {Some(r)}) \in Int
  BY <1>1, <1>2, <1>5
<1>7. f[Some(r)] \in Int
  BY <1>2, <1>5
<1> QED
  BY <1>3, <1>4, <1>6, <1>7

\* Any element of the set may be the last one added.
LEMMA AnyOrder ==
  ASSUME NEW D, IsFiniteSet(D), NEW f \in [D -> Int],
         NEW s \in SUBSET D, NEW d \in s
  PROVE  TotalOn(f, s) = f[d] + TotalOn(f, s \ {d})
<1> DEFINE F == {r \in SUBSET D : \E e \in r : TotalOn(f, r) # f[e] + TotalOn(f, r \ {e})}
<1> SUFFICES ASSUME F # {} PROVE FALSE
  OBVIOUS
<1>1. PICK r \in F : \A q \in F : q \subseteq r => q = r
  <2>1. F \subseteq SUBSET D
    OBVIOUS
  <2> HIDE DEF F
  <2> QED
    BY <2>1, SmallestSet
<1>2. IsFiniteSet(r) /\ r \in SUBSET D
  BY FS_Subset
<1>3. PICK e \in r : TotalOn(f, r) # f[e] + TotalOn(f, r \ {e})
  OBVIOUS
<1> DEFINE x == Some(r)
<1>4. x \in r
  BY <1>3, SomeIsIn
<1>5. TotalOn(f, r) = f[x] + TotalOn(f, r \ {x})
  BY <1>2, <1>3, TotalOnStep
<1> HIDE DEF x
<1>6. x # e
  BY <1>3, <1>5
<1>7. r \ {x} \in SUBSET D /\ r \ {x} \notin F /\ e \in r \ {x}
  BY <1>1, <1>2, <1>4, <1>6
<1>8. r \ {e} \in SUBSET D /\ r \ {e} \notin F /\ x \in r \ {e}
  BY <1>1, <1>2, <1>4, <1>6
<1>9. TotalOn(f, r \ {x}) = f[e] + TotalOn(f, (r \ {x}) \ {e})
  BY <1>7
<1>10. TotalOn(f, r \ {e}) = f[x] + TotalOn(f, (r \ {e}) \ {x})
  BY <1>8
<1>11. (r \ {e}) \ {x} = (r \ {x}) \ {e} /\ (r \ {x}) \ {e} \in SUBSET D
  BY <1>2
<1>12. TotalOn(f, (r \ {x}) \ {e}) \in Int /\ f[x] \in Int /\ f[e] \in Int
  BY <1>2, <1>4, <1>11, TotalOnInt
<1> QED
  BY <1>3, <1>5, <1>9, <1>10, <1>11, <1>12

\* What d gets of the chips a hands out, and what the members of s get.
Share(a, d) == IF d \in DOMAIN a THEN a[d] ELSE 0
ShareOf(a, s) == TotalOn(a, s \cap DOMAIN a)

\* h is f with the chips of a added.
HandsOut(D, f, a, h) == \A d \in D : h[d] = f[d] + Share(a, d)

\* The sum of two functions, the second of which is defined on fewer
\* arguments, sums to the sum of their sums.
LEMMA TotalOnAdds ==
  ASSUME NEW D, IsFiniteSet(D), NEW E \in SUBSET D,
         NEW f \in [D -> Int], NEW a \in [E -> Int], NEW h \in [D -> Int],
         HandsOut(D, f, a, h),
         NEW s \in SUBSET D
  PROVE  TotalOn(h, s) = TotalOn(f, s) + ShareOf(a, s)
<1> DEFINE F == {r \in SUBSET D : TotalOn(h, r) # TotalOn(f, r) + ShareOf(a, r)}
<1> SUFFICES ASSUME F # {} PROVE FALSE
  OBVIOUS
<1>1. PICK r \in F : \A q \in F : q \subseteq r => q = r
  <2>1. F \subseteq SUBSET D
    OBVIOUS
  <2> HIDE DEF F
  <2> QED
    BY <2>1, SmallestSet
<1>2. IsFiniteSet(r) /\ r \in SUBSET D /\ IsFiniteSet(E)
  BY FS_Subset
<1>3. TotalOn(h, r) # TotalOn(f, r) + ShareOf(a, r)
  OBVIOUS
<1>4. r # {}
  <2>1. TotalOn(h, {}) = 0 /\ TotalOn(f, {}) = 0 /\ TotalOn(a, {}) = 0
    BY TotalOnStep, FS_EmptySet
  <2>2. {} \cap DOMAIN a = {}
    OBVIOUS
  <2>3. ShareOf(a, {}) = 0
    BY <2>1, <2>2, Zenon DEF ShareOf
  <2> SUFFICES ASSUME r = {} PROVE FALSE
    OBVIOUS
  <2>4. TotalOn(h, r) = 0 /\ TotalOn(f, r) = 0 /\ ShareOf(a, r) = 0
    BY <2>1, <2>3, Zenon
  <2> QED
    BY <1>3, <2>4
<1>5. PICK e \in r : TRUE
  BY <1>4
<1> DEFINE q == r \ {e}
<1>6. q \in SUBSET D /\ q \notin F
  BY <1>1, <1>2
<1>7. TotalOn(h, q) = TotalOn(f, q) + ShareOf(a, q)
  BY <1>6
<1>8. TotalOn(h, r) = h[e] + TotalOn(h, q) /\ TotalOn(f, r) = f[e] + TotalOn(f, q)
  BY <1>2, AnyOrder
<1>9. /\ TotalOn(h, q) \in Int /\ TotalOn(f, q) \in Int
      /\ e \in D /\ f[e] \in Int
  BY <1>2, <1>6, TotalOnInt
<1>10. ShareOf(a, q) \in Int
  <2>1. q \cap DOMAIN a \in SUBSET E
    OBVIOUS
  <2> QED
    BY <1>2, <2>1, TotalOnInt DEF ShareOf
<1>11. ShareOf(a, r) = Share(a, e) + ShareOf(a, q) /\ Share(a, e) \in Int
  <2>1. CASE e \in E
    <3>1. /\ r \cap DOMAIN a \in SUBSET E /\ e \in r \cap DOMAIN a
          /\ (r \cap DOMAIN a) \ {e} = q \cap DOMAIN a
      BY <2>1
    <3>2. TotalOn(a, r \cap DOMAIN a) = a[e] + TotalOn(a, (r \cap DOMAIN a) \ {e})
      BY <1>2, <3>1, AnyOrder
    <3>3. TotalOn(a, r \cap DOMAIN a) = a[e] + TotalOn(a, q \cap DOMAIN a)
      BY <3>1, <3>2, Zenon
    <3>4. Share(a, e) = a[e] /\ a[e] \in Int
      BY <2>1 DEF Share
    <3> QED
      BY <3>3, <3>4 DEF ShareOf
  <2>2. CASE e \notin E
    <3>1. r \cap DOMAIN a = q \cap DOMAIN a
      BY <2>2
    <3>2. ShareOf(a, r) = ShareOf(a, q)
      BY <3>1, Zenon DEF ShareOf
    <3>3. Share(a, e) = 0
      BY <2>2 DEF Share
    <3> HIDE DEF q
    <3> QED
      BY <1>10, <3>2, <3>3
  <2> QED
    BY <2>1, <2>2
<1>12. h[e] = f[e] + Share(a, e)
  BY <1>9 DEF HandsOut
<1> HIDE DEF q, F
<1> QED
  BY <1>3, <1>7, <1>8, <1>9, <1>10, <1>11, <1>12

--------------------------------------------------------------------------------
(***************************************************************************)
(* What the other proofs use                                               *)
(***************************************************************************)
\* A sum of integers is one.
LEMMA TotalInt ==
  ASSUME NEW D, IsFiniteSet(D), NEW f \in [D -> Int]
  PROVE  Total(f) \in Int
BY TotalIsOnDomain, TotalOnInt

\* Nothing sums to nothing.
LEMMA TotalEmpty ==
  ASSUME NEW f, DOMAIN f = {}
  PROVE  Total(f) = 0
BY TotalIsOnDomain, TotalOnStep, FS_EmptySet

\* Chips handed out to some add to the total what they sum to.
LEMMA TotalAdds ==
  ASSUME NEW D, IsFiniteSet(D), NEW E \in SUBSET D,
         NEW f \in [D -> Int], NEW a \in [E -> Int], NEW h \in [D -> Int],
         HandsOut(D, f, a, h)
  PROVE  Total(h) = Total(f) + Total(a)
<1>1. TotalOn(h, D) = TotalOn(f, D) + ShareOf(a, D)
  <2>1. D \in SUBSET D
    OBVIOUS
  <2> QED
    BY <2>1, TotalOnAdds
<1>2. ShareOf(a, D) = TotalOn(a, DOMAIN a)
  <2>1. D \cap DOMAIN a = DOMAIN a
    OBVIOUS
  <2> QED
    BY <2>1, Zenon DEF ShareOf
<1>3. DOMAIN h = D /\ DOMAIN f = D
  OBVIOUS
<1> QED
  BY <1>1, <1>2, <1>3, TotalIsOnDomain

\* A change of one value changes the total by as much.
LEMMA TotalChanges ==
  ASSUME NEW D, IsFiniteSet(D), NEW f \in [D -> Int], NEW h \in [D -> Int],
         NEW d \in D, \A e \in D \ {d} : h[e] = f[e]
  PROVE  Total(h) = Total(f) + (h[d] - f[d])
<1> DEFINE a == [e \in {d} |-> h[d] - f[d]]
<1>1. a \in [{d} -> Int] /\ {d} \in SUBSET D /\ a[d] = h[d] - f[d]
  OBVIOUS
<1>2. HandsOut(D, f, a, h)
  BY DEF Share, HandsOut
<1>3. Total(a) = h[d] - f[d]
  <2> HIDE DEF a
  <2>1. IsFiniteSet({d}) /\ {d} \ {d} = {}
    BY FS_Singleton
  <2>2. TotalOn(a, {d}) = a[d] + TotalOn(a, {})
    BY <1>1, <2>1, AnyOrder
  <2>3. TotalOn(a, {}) = 0
    BY TotalOnStep, FS_EmptySet
  <2>4. Total(a) = TotalOn(a, {d})
    BY <1>1, TotalIsOnDomain
  <2> QED
    BY <1>1, <2>2, <2>3, <2>4
<1> HIDE DEF a
<1>4. Total(h) = Total(f) + Total(a)
  BY <1>1, <1>2, TotalAdds
<1> QED
  BY <1>3, <1>4

\* No value is below zero, so neither is the sum.
LEMMA TotalNat ==
  ASSUME NEW D, IsFiniteSet(D), NEW f \in [D -> Nat]
  PROVE  Total(f) \in Nat
<1> DEFINE F == {r \in SUBSET D : TotalOn(f, r) \notin Nat}
<1>1. F = {}
  <2> SUFFICES ASSUME F # {} PROVE FALSE
    OBVIOUS
  <2>1. PICK r \in F : \A q \in F : q \subseteq r => q = r
    <3>1. F \subseteq SUBSET D
      OBVIOUS
    <3> HIDE DEF F
    <3> QED
      BY <3>1, SmallestSet
  <2>2. IsFiniteSet(r) /\ r \subseteq D
    BY FS_Subset
  <2>3. TotalOn(f, r) = IF r = {} THEN 0 ELSE f[Some(r)] + TotalOn(f, r \ {Some(r)})
    BY <2>2, TotalOnStep
  <2>4. r # {}
    BY <2>3
  <2>5. Some(r) \in r /\ r \ {Some(r)} \in SUBSET r /\ r \ {Some(r)} # r
    BY <2>4, SomeIsIn
  <2>6. TotalOn(f, r \ {Some(r)}) \in Nat
    BY <2>1, <2>2, <2>5
  <2>7. f[Some(r)] \in Nat
    BY <2>2, <2>5
  <2> QED
    BY <2>3, <2>4, <2>6, <2>7
<1>2. TotalOn(f, D) \in Nat
  BY <1>1
<1> QED
  BY <1>2, TotalIsOnDomain
================================================================================
