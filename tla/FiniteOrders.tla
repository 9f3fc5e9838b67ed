---------------------------- MODULE FiniteOrders ----------------------------
(***************************************************************************)
(* Lemmas about finite sets of naturals that the proofs of several modules *)
(* share: they have a smallest and a largest member, which Min and Max     *)
(* choose, and each member has a place in their order, with none left out. *)
(* And about the steps of a function: any number of them can be taken.     *)
(***************************************************************************)
EXTENDS Integers, FiniteSetsExt, FiniteSetTheorems, WellFoundedInduction, TLAPS

-----------------------------------------------------------------------------
\* The smallest and the largest member.
LEMMA SmallestExists ==
    ASSUME NEW n \in Nat, NEW T, \A x \in T : x \in 0..n, T # {}
    PROVE  \E m \in T : \A k \in T : m <= k
<1> DEFINE F == {0..k : k \in T}
<1>1. IsWellFoundedOn(StrictSubsetOrdering(0..n), FiniteSubsetsOf(0..n))
  BY FS_StrictSubsetOrderingWellFounded
<1>2. F \subseteq FiniteSubsetsOf(0..n) /\ F # {}
  <2>1. ASSUME NEW k \in T PROVE (0..k) \in FiniteSubsetsOf(0..n)
    <3>1. IsFiniteSet(0..k)
      BY FS_Interval
    <3>2. (0..k) \in SUBSET (0..n)
      OBVIOUS
    <3>3. QED
      BY <3>1, <3>2 DEF FiniteSubsetsOf
  <2>2. QED
    BY <2>1
<1>3. PICK x \in F : \A y \in F : ~(<<y, x>> \in StrictSubsetOrdering(0..n))
  <2> HIDE DEF F
  <2>1. QED
    BY <1>1, <1>2, WFMin
<1>4. PICK m \in T : x = 0..m
  OBVIOUS
<1>5. ASSUME NEW k \in T, k < m PROVE FALSE
  <2>1. (0..k) \in F /\ (0..k) \subseteq 0..n /\ x \subseteq 0..n
    BY <1>4
  <2>2. (0..k) \subseteq x /\ (0..k) # x
    <3>1. m \in x /\ m \notin 0..k
      BY <1>4, <1>5
    <3>2. QED
      BY <3>1, <1>4, <1>5
  <2>3. <<0..k, x>> \in StrictSubsetOrdering(0..n)
    BY <2>1, <2>2 DEF StrictSubsetOrdering
  <2>4. QED
    BY <2>1, <2>3, <1>3
<1>6. QED
  BY <1>5

LEMMA SmallestOfNaturals ==
    ASSUME NEW T \in SUBSET Nat, T # {}
    PROVE  \E m \in T : \A k \in T : m <= k
<1>1. PICK n \in T : n \in Nat
  OBVIOUS
<1> DEFINE U == {k \in T : k <= n}
<1>2. n \in Nat /\ U # {} /\ \A x \in U : x \in 0..n
  BY <1>1
<1>3. PICK m \in U : \A k \in U : m <= k
  <2> HIDE DEF U
  <2>1. QED
    BY <1>2, SmallestExists
<1>4. QED
  BY <1>3

LEMMA LargestExists ==
    ASSUME NEW n \in Nat, NEW T, \A x \in T : x \in 0..n, T # {}
    PROVE  \E m \in T : \A k \in T : k <= m
<1> DEFINE U == {n - k : k \in T}
<1>1. U # {} /\ \A x \in U : x \in 0..n
  OBVIOUS
<1>2. PICK u \in U : \A w \in U : u <= w
  <2> HIDE DEF U
  <2>1. QED
    BY <1>1, SmallestExists
<1>3. PICK m \in T : u = n - m
  OBVIOUS
<1>4. ASSUME NEW k \in T PROVE k <= m
  <2>1. n - k \in U
    OBVIOUS
  <2>2. n - m <= n - k
    BY <1>2, <1>3, <2>1
  <2>3. QED
    BY <2>2
<1>5. QED
  BY <1>4

\* A finite set needs no bound to have a largest member.
Above(h, B) == {g \in B : h < g}

LEMMA LargestOfFinite ==
    ASSUME NEW B \in SUBSET Nat, IsFiniteSet(B), B # {}
    PROVE  \E m \in B : \A k \in B : k <= m
<1> DEFINE F == {Above(h, B) : h \in B}
<1>1. IsWellFoundedOn(StrictSubsetOrdering(B), FiniteSubsetsOf(B))
  BY FS_StrictSubsetOrderingWellFounded
<1>2. F \subseteq FiniteSubsetsOf(B) /\ F # {}
  <2>1. ASSUME NEW h \in B PROVE Above(h, B) \in FiniteSubsetsOf(B)
    <3>1. Above(h, B) \in SUBSET B
      BY DEF Above
    <3>2. QED
      BY <3>1, FS_Subset DEF FiniteSubsetsOf
  <2>2. QED
    BY <2>1
<1>3. PICK x \in F : \A y \in F : ~(<<y, x>> \in StrictSubsetOrdering(B))
  <2> HIDE DEF F
  <2>1. QED
    BY <1>1, <1>2, WFMin
<1>4. PICK m \in B : x = Above(m, B)
  OBVIOUS
<1>5. ASSUME NEW k \in B, m < k PROVE FALSE
  <2>1. k \in Nat /\ m \in Nat
    OBVIOUS
  <2>2. k \in Above(m, B) /\ k \notin Above(k, B)
    BY <1>5, <2>1 DEF Above
  <2>3. ASSUME NEW j \in B, k < j PROVE m < j
    <3>1. j \in Nat
      OBVIOUS
    <3>2. QED
      BY <1>5, <2>1, <2>3, <3>1
  <2>4. /\ Above(k, B) \subseteq Above(m, B) /\ Above(k, B) # Above(m, B)
        /\ Above(k, B) \in SUBSET B /\ Above(m, B) \in SUBSET B
    BY <2>2, <2>3 DEF Above
  <2>5. <<Above(k, B), x>> \in StrictSubsetOrdering(B)
    BY <1>4, <2>4 DEF StrictSubsetOrdering
  <2>6. Above(k, B) \in F
    OBVIOUS
  <2>7. QED
    BY <1>3, <2>5, <2>6
<1>6. \A k \in B : k <= m
  BY <1>5
<1>7. QED
  BY <1>6

\* Min and Max choose them.
LEMMA MinIsSmallest ==
    ASSUME NEW S, \A y \in S : y \in Int, NEW x \in S, \A y \in S : x <= y
    PROVE  Min(S) = x
<1>1. ASSUME NEW z \in S, \A y \in S : z <= y
      PROVE  z = x
  BY <1>1
<1>2. QED
  BY <1>1 DEF Min

LEMMA MaxIsLargest ==
    ASSUME NEW S, \A y \in S : y \in Int, NEW x \in S, \A y \in S : y <= x
    PROVE  Max(S) = x
<1>1. \A y \in S : x >= y
  OBVIOUS
<1>2. ASSUME NEW z \in S, \A y \in S : z >= y
      PROVE  z = x
  BY <1>2
<1>3. QED
  BY <1>1, <1>2 DEF Max

LEMMA MinOfTwo == ASSUME NEW a \in Int, NEW b \in Int PROVE Min({a, b}) = IF a <= b THEN a ELSE b
  BY MinIsSmallest

LEMMA MaxOfTwo == ASSUME NEW a \in Int, NEW b \in Int PROVE Max({a, b}) = IF a <= b THEN b ELSE a
  BY MaxIsLargest

-----------------------------------------------------------------------------
\* The members before h.  Their number is the place of h, counted from 0.
Below(h, B) == {g \in B : g < h}
Place(h, B) == Cardinality(Below(h, B))

LEMMA PlaceIsNat ==
    ASSUME NEW B, IsFiniteSet(B), NEW h
    PROVE  /\ IsFiniteSet(Below(h, B)) /\ Place(h, B) \in Nat
           /\ Place(h, B) = Cardinality(Below(h, B))
<1>1. Below(h, B) \in SUBSET B
  BY DEF Below
<1>2. QED
  BY <1>1, FS_Subset, FS_CardinalityType DEF Place

\* A later member has a later place.
LEMMA PlacesGrow ==
    ASSUME NEW B \in SUBSET Nat, IsFiniteSet(B), NEW g \in B, NEW h \in B, g < h
    PROVE  Place(g, B) < Place(h, B)
<1>1. Below(g, B) \in SUBSET Below(h, B) /\ g \in Below(h, B) /\ g \notin Below(g, B)
  <2>1. g \in Nat /\ h \in Nat
    OBVIOUS
  <2>2. ASSUME NEW x \in B, x < g PROVE x < h
    <3>1. x \in Nat
      OBVIOUS
    <3>2. QED
      BY <2>1, <2>2, <3>1
  <2>3. ~(g < g)
    BY <2>1
  <2>4. QED
    BY <2>2, <2>3 DEF Below
<1>2. /\ IsFiniteSet(Below(h, B)) /\ Place(h, B) = Cardinality(Below(h, B)) /\ Place(h, B) \in Nat
      /\ Place(g, B) = Cardinality(Below(g, B)) /\ Place(g, B) \in Nat
  BY PlaceIsNat
<1>3. Cardinality(Below(g, B)) <= Cardinality(Below(h, B))
      /\ Cardinality(Below(g, B)) # Cardinality(Below(h, B))
  BY <1>1, <1>2, FS_Subset
<1>4. QED
  BY <1>2, <1>3

\* No place is left out: if some member comes at or after place o, one is at o.
LEMMA PlacesAreDense ==
    ASSUME NEW B \in SUBSET Nat, IsFiniteSet(B), NEW o \in Nat,
           NEW h \in B, Place(h, B) >= o
    PROVE  \E m \in B : Place(m, B) = o
<1> DEFINE T == {g \in B : Place(g, B) >= o}
<1>1. PICK m \in T : \A k \in T : m <= k
  <2>1. T # {} /\ T \in SUBSET Nat
    OBVIOUS
  <2> HIDE DEF T
  <2>2. QED
    BY <2>1, SmallestOfNaturals
<1>2. /\ IsFiniteSet(Below(m, B)) /\ Place(m, B) = Cardinality(Below(m, B)) /\ Place(m, B) \in Nat
      /\ Place(m, B) >= o
  BY PlaceIsNat
<1>3. CASE Below(m, B) = {}
  BY <1>2, <1>3, FS_EmptySet
<1>4. CASE Below(m, B) # {}
  <2>1. PICK p \in Below(m, B) : \A k \in Below(m, B) : k <= p
    <3>1. m \in Nat /\ \A x \in Below(m, B) : x \in 0..m
      BY DEF Below
    <3>2. QED
      BY <1>4, <3>1, LargestExists
  <2>2. p \in B /\ p < m /\ p \notin Below(p, B)
    BY DEF Below
  <2>3. Below(m, B) = Below(p, B) \cup {p}
    <3>1. p \in Nat /\ m \in Nat
      BY <2>2
    <3>2. ASSUME NEW x \in B
          PROVE  x < m <=> x < p \/ x = p
      <4>1. x \in Nat
        OBVIOUS
      <4>2. x < m => x <= p
        BY <2>1 DEF Below
      <4>3. QED
        BY <2>2, <3>1, <4>1, <4>2
    <3>3. QED
      BY <2>2, <3>2 DEF Below
  <2>4. IsFiniteSet(Below(p, B)) /\ Place(p, B) = Cardinality(Below(p, B)) /\ Place(p, B) \in Nat
    BY <2>2, PlaceIsNat
  <2>5. Place(m, B) = Place(p, B) + 1
    BY <1>2, <2>2, <2>3, <2>4, FS_AddElement
  <2>6. Place(p, B) < o
    <3>1. p \notin T
      BY <1>1, <2>2
    <3>2. QED
      BY <2>2, <2>4, <3>1
  <2>7. QED
    BY <1>2, <2>4, <2>5, <2>6
<1>5. QED
  BY <1>3, <1>4

\* So the places of a set of n members are 0, ..., n - 1.
LEMMA EveryPlaceIsTaken ==
    ASSUME NEW B \in SUBSET Nat, IsFiniteSet(B), NEW o \in Nat, o < Cardinality(B)
    PROVE  \E m \in B : Place(m, B) = o
<1>1. Cardinality(B) \in Nat /\ B # {}
  BY FS_CardinalityType, FS_EmptySet
<1>2. PICK h \in B : \A k \in B : k <= h
  BY <1>1, LargestOfFinite
<1>3. Below(h, B) = B \ {h}
  <2>1. h \in Nat
    OBVIOUS
  <2>2. ASSUME NEW x \in B
        PROVE  x < h <=> x # h
    <3>1. x \in Nat /\ x <= h
      BY <1>2
    <3>2. QED
      BY <2>1, <3>1
  <2>3. QED
    BY <2>2 DEF Below
<1>4. Place(h, B) = Cardinality(B) - 1
  BY <1>3, FS_RemoveElement DEF Place
<1>5. QED
  BY <1>1, <1>4, PlacesAreDense

-----------------------------------------------------------------------------
\* The first m steps of g from a.  A function defined so exists, which its
\* definition, a CHOOSE, does not say.
Iterates(w, a, g, m) == w = [k \in 0..m |-> IF k = 0 THEN a ELSE g[w[k - 1]]]

LEMMA IterationExists == ASSUME NEW a, NEW g, NEW m \in Nat PROVE \E w : Iterates(w, a, g, m)
<1> DEFINE Bad == {j \in Nat : ~\E w : Iterates(w, a, g, j)}
<1> SUFFICES ASSUME Bad # {} PROVE FALSE
  OBVIOUS
<1>1. PICK j \in Bad : \A i \in Bad : j <= i
  <2> HIDE DEF Bad
  <2>1. Bad \subseteq Nat
    BY DEF Bad
  <2>2. QED
    BY <2>1, SmallestOfNaturals
<1>2. CASE j = 0
  <2>1. Iterates([k \in 0..0 |-> a], a, g, 0)
    BY DEF Iterates
  <2>2. QED
    BY <1>2, <2>1
<1>3. CASE j # 0
  <2>1. j \in Nat /\ j - 1 \in Nat /\ j - 1 \notin Bad
    BY <1>1, <1>3
  <2>2. PICK w : Iterates(w, a, g, j - 1)
    BY <2>1
  <2> DEFINE v == [k \in 0..j |-> IF k = j THEN g[w[j - 1]] ELSE w[k]]
  <2>3. \A k \in 0..(j - 1) : w[k] = IF k = 0 THEN a ELSE g[w[k - 1]]
    BY <2>2 DEF Iterates
  <2>4. \A k \in 0..j : v[k] = IF k = 0 THEN a ELSE g[v[k - 1]]
    BY <1>3, <2>1, <2>3
  <2>5. Iterates(v, a, g, j)
    BY <2>4 DEF Iterates
  <2>6. QED
    BY <1>1, <2>5
<1>4. QED
  BY <1>2, <1>3
=============================================================================
