-------------------------- MODULE KnowledgeProofs --------------------------
(***************************************************************************)
(* Theorems about Knowledge, for any entries, rules, weights and symptoms. *)
(*                                                                         *)
(* Sums of a sequence are bounded by induction on its length.  Before is a *)
(* strict order, so the places of the results are all different and fill   *)
(* 1..n: the ranking is a permutation, and sorted.  All primary signatures *)
(* of an entry count twice all its secondary ones, so an entry with all of *)
(* the former met is above each with none met.                             *)
(*                                                                         *)
(* RankInv ties the ranking to the entries and the symptoms of the lookup, *)
(* CitedInv the diagnosis to entries of the files.                         *)
(***************************************************************************)
EXTENDS Knowledge, WellFoundedInduction, FiniteSetTheorems, SequenceTheorems, TLAPS

-----------------------------------------------------------------------------
(* Induction, in the form of sets: the provers do not instantiate a theorem *)
(* about an operator.                                                      *)

\* A set of naturals that is not empty has a least element.
LEMMA LeastNat ==
    ASSUME NEW S, S \subseteq Nat, S # {}
    PROVE  \E m \in S : \A x \in S : m <= x
<1>1. PICK m \in S : \A x \in S : <<x, m>> \notin OpToRel(<, Nat)
  BY NatLessThanWellFounded, WFMin
<1>2. ASSUME NEW x \in S, x < m PROVE FALSE
  <2>1. <<x, m>> \in OpToRel(<, Nat)
    BY <1>2 DEF OpToRel
  <2> QED
    BY <1>1, <2>1
<1> QED
  BY <1>2

\* What holds of zero and of i + 1 if of i holds up to any bound.
LEMMA InductionTo ==
    ASSUME NEW n \in Nat, NEW S, 0 \in S,
           \A i \in 0..(n - 1) : i \in S => i + 1 \in S
    PROVE  \A i \in 0..n : i \in S
<1> SUFFICES ASSUME NEW b \in 0..n, b \notin S PROVE FALSE
  OBVIOUS
<1> DEFINE out == {i \in 0..n : i \notin S}
<1>1. out \subseteq Nat /\ out # {}
  OBVIOUS
<1> HIDE DEF out
<1>2. PICK m \in out : \A x \in out : m <= x
  BY <1>1, LeastNat
<1> USE DEF out
<1>3. m \in 0..n /\ m \notin S /\ m # 0
  OBVIOUS
<1>4. m - 1 \in 0..(n - 1) /\ (m - 1) + 1 = m
  BY <1>3
<1>5. m - 1 \notin out
  BY <1>2, <1>4
<1> QED
  BY <1>3, <1>4, <1>5

-----------------------------------------------------------------------------
(* Sums.                                                                   *)

\* A sum adds one number after the other.
LEMMA TotalSteps ==
    ASSUME NEW f, NEW n \in Nat, n = Len(f)
    PROVE  \E g : /\ g[0] = 0
                  /\ \A i \in 1..n : g[i] = g[i - 1] + f[i]
                  /\ Total(f) = g[n]
<1> DEFINE Is(g, k) == g = [i \in 0..k |-> IF i = 0 THEN 0 ELSE g[i - 1] + f[i]]
           upto == {k \in 0..n : \E g : Is(g, k)}
<1>1. 0 \in upto
  <2> DEFINE h == [i \in 0..0 |-> 0]
  <2>1. \A i \in 0..0 : h[i] = IF i = 0 THEN 0 ELSE h[i - 1] + f[i]
    OBVIOUS
  <2>2. Is(h, 0)
    BY <2>1
  <2> HIDE DEF Is, h
  <2> QED
    BY <2>2
<1>2. ASSUME NEW k \in 0..(n - 1), k \in upto PROVE k + 1 \in upto
  <2>1. PICK g : Is(g, k)
    BY <1>2
  <2> DEFINE h == [i \in 0..(k + 1) |-> IF i <= k THEN g[i] ELSE g[k] + f[i]]
  <2>2. \A i \in 0..(k + 1) : h[i] = IF i = 0 THEN 0 ELSE h[i - 1] + f[i]
    <3>1. SUFFICES ASSUME NEW i \in 0..(k + 1)
                   PROVE  h[i] = IF i = 0 THEN 0 ELSE h[i - 1] + f[i]
      OBVIOUS
    <3>2. CASE i = 0
      BY <3>2, <2>1
    <3>3. CASE i # 0 /\ i <= k
      BY <3>3, <2>1
    <3>4. CASE i = k + 1
      BY <3>4
    <3> QED
      BY <3>2, <3>3, <3>4
  <2>3. Is(h, k + 1)
    BY <2>2
  <2>4. k + 1 \in 0..n
    OBVIOUS
  <2> HIDE DEF Is, h
  <2> QED
    BY <2>3, <2>4
<1>3. n \in upto
  <2> HIDE DEF upto
  <2> QED
    BY <1>1, <1>2, InductionTo
<1> DEFINE s == CHOOSE g : Is(g, Len(f))
<1>4. Is(s, n)
  BY <1>3
<1>5. Total(f) = s[n]
  <2>1. Total(f) = s[Len(f)]
    BY DEF Total
  <2> HIDE DEF s
  <2> QED
    BY <2>1
<1> HIDE DEF s
<1>6. s[0] = 0 /\ \A i \in 1..n : s[i] = s[i - 1] + f[i]
  BY <1>4
<1> QED
  BY <1>5, <1>6

\* Of two sequences the one with the greater numbers has the greater sum.
LEMMA TotalMonotone ==
    ASSUME NEW f \in Seq(Nat), NEW h \in Seq(Nat), Len(f) = Len(h),
           \A i \in 1..Len(f) : f[i] <= h[i]
    PROVE  Total(f) \in Nat /\ Total(h) \in Nat /\ Total(f) <= Total(h)
<1>1. PICK n \in Nat : n = Len(f) /\ n = Len(h)
  OBVIOUS
<1>2. PICK g : /\ g[0] = 0 /\ \A i \in 1..n : g[i] = g[i - 1] + f[i]
               /\ Total(f) = g[n]
  BY <1>1, TotalSteps
<1>3. PICK k : /\ k[0] = 0 /\ \A i \in 1..n : k[i] = k[i - 1] + h[i]
               /\ Total(h) = k[n]
  BY ZenonT(40), <1>1, TotalSteps
<1> DEFINE upto == {i \in 0..n : g[i] \in Nat /\ k[i] \in Nat /\ g[i] <= k[i]}
<1>4. 0 \in upto
  BY <1>2, <1>3
<1>5. ASSUME NEW i \in 0..(n - 1), i \in upto PROVE i + 1 \in upto
  <2>1. /\ i + 1 \in 1..n /\ (i + 1) - 1 = i
        /\ g[i] \in Nat /\ k[i] \in Nat /\ g[i] <= k[i]
    BY <1>5
  <2>2. g[i + 1] = g[i] + f[i + 1] /\ k[i + 1] = k[i] + h[i + 1]
    BY <2>1, <1>2, <1>3
  <2>3. f[i + 1] \in Nat /\ h[i + 1] \in Nat /\ f[i + 1] <= h[i + 1]
    BY <2>1, <1>1
  <2> QED
    BY SMTT(30), <2>1, <2>2, <2>3
<1>6. n \in upto
  <2> HIDE DEF upto
  <2>1. n \in Nat
    OBVIOUS
  <2>2. 0 \in upto
    BY <1>4
  <2>3. \A i \in 0..(n - 1) : i \in upto => i + 1 \in upto
    BY <1>5
  <2>4. \A i \in 0..n : i \in upto
    BY ONLY <2>1, <2>2, <2>3, InductionTo
  <2> QED
    BY <2>1, <2>4
<1> QED
  BY <1>2, <1>3, <1>6

\* A sum of zeros is zero.
LEMMA TotalZero ==
    ASSUME NEW f \in Seq(Nat), \A i \in 1..Len(f) : f[i] = 0
    PROVE  Total(f) = 0
<1>1. PICK n \in Nat : n = Len(f)
  OBVIOUS
<1>2. PICK g : /\ g[0] = 0 /\ \A i \in 1..n : g[i] = g[i - 1] + f[i]
               /\ Total(f) = g[n]
  BY <1>1, TotalSteps
<1> DEFINE upto == {i \in 0..n : g[i] = 0}
<1>3. 0 \in upto
  BY <1>2
<1>4. ASSUME NEW i \in 0..(n - 1), i \in upto PROVE i + 1 \in upto
  <2>1. i + 1 \in 1..n /\ (i + 1) - 1 = i /\ g[i] = 0
    BY <1>4
  <2>2. g[i + 1] = g[i] + f[i + 1] /\ f[i + 1] = 0
    BY <2>1, <1>1, <1>2
  <2> QED
    BY <2>1, <2>2
<1>5. n \in upto
  <2> HIDE DEF upto
  <2>1. n \in Nat
    OBVIOUS
  <2>2. 0 \in upto
    BY <1>3
  <2>3. \A i \in 0..(n - 1) : i \in upto => i + 1 \in upto
    BY <1>4
  <2>4. \A i \in 0..n : i \in upto
    BY ONLY <2>1, <2>2, <2>3, InductionTo
  <2> QED
    BY <2>1, <2>4
<1> QED
  BY <1>2, <1>5

\* A sum is not less than one of its numbers.
LEMMA TotalAtLeast ==
    ASSUME NEW f \in Seq(Nat), NEW m \in 1..Len(f)
    PROVE  f[m] <= Total(f)
<1>1. PICK n \in Nat : n = Len(f)
  OBVIOUS
<1>2. PICK g : /\ g[0] = 0 /\ \A i \in 1..n : g[i] = g[i - 1] + f[i]
               /\ Total(f) = g[n]
  BY <1>1, TotalSteps
<1> DEFINE upto == {i \in 0..n : g[i] \in Nat /\ (i >= m => f[m] <= g[i])}
<1>3. 0 \in upto
  BY <1>2
<1>4. ASSUME NEW i \in 0..(n - 1), i \in upto PROVE i + 1 \in upto
  <2>1. i + 1 \in 1..n /\ (i + 1) - 1 = i /\ g[i] \in Nat
    BY <1>4
  <2>2. g[i + 1] = g[i] + f[i + 1] /\ f[i + 1] \in Nat /\ f[m] \in Nat
    BY <2>1, <1>1, <1>2
  <2>3. CASE i >= m
    BY <2>1, <2>2, <2>3, <1>4
  <2>4. CASE ~(i >= m)
    <3>1. i + 1 >= m => i + 1 = m
      BY <2>4, <2>1, <1>1
    <3> QED
      BY <3>1, <2>1, <2>2
  <2> QED
    BY <2>3, <2>4
<1>5. n \in upto
  <2> HIDE DEF upto
  <2>1. n \in Nat
    OBVIOUS
  <2>2. 0 \in upto
    BY <1>3
  <2>3. \A i \in 0..(n - 1) : i \in upto => i + 1 \in upto
    BY <1>4
  <2>4. \A i \in 0..n : i \in upto
    BY ONLY <2>1, <2>2, <2>3, InductionTo
  <2> QED
    BY <2>1, <2>4
<1>6. n >= m
  BY <1>1
<1> QED
  BY <1>2, <1>5, <1>6

-----------------------------------------------------------------------------
(* Fractions.                                                              *)

Fractions == [num : Nat, den : Nat \ {0}]

LEMMA TimesMonotone ==
    ASSUME NEW a \in Nat, NEW b \in Nat, NEW c \in Nat, a <= b
    PROVE  a * c <= b * c
OBVIOUS

LEMMA TimesStrict ==
    ASSUME NEW a \in Nat, NEW b \in Nat, NEW c \in Nat \ {0}
    PROVE  a < b <=> a * c < b * c
OBVIOUS

LEMMA LessAsymmetric ==
    ASSUME NEW x \in Fractions, NEW y \in Fractions, Less(x, y)
    PROVE  ~Less(y, x)
BY DEF Fractions, Less

\* What is less than a fraction is less than one that is not less.
LEMMA LessNotLess ==
    ASSUME NEW x \in Fractions, NEW y \in Fractions, NEW z \in Fractions,
           Less(x, y), ~Less(z, y)
    PROVE  Less(x, z)
<1>1. PICK a \in Nat, b \in Nat \ {0} : a = x.num /\ b = x.den
  BY DEF Fractions
<1>2. PICK c \in Nat, d \in Nat \ {0} : c = y.num /\ d = y.den
  BY DEF Fractions
<1>3. PICK e \in Nat, f \in Nat \ {0} : e = z.num /\ f = z.den
  BY DEF Fractions
<1>4. a * d < c * b /\ ~(e * d < c * f)
  BY <1>1, <1>2, <1>3 DEF Less
<1>5. a * d \in Nat /\ c * b \in Nat /\ e * d \in Nat /\ c * f \in Nat /\ a * f \in Nat
      /\ e * b \in Nat
  OBVIOUS
<1>6. (a * d) * f < (c * b) * f
  BY <1>4, <1>5, TimesStrict
<1>7. (c * f) * b <= (e * d) * b
  BY <1>4, <1>5, TimesMonotone
<1>8. (a * d) * f = (a * f) * d /\ (c * b) * f = (c * f) * b /\ (e * d) * b = (e * b) * d
  OBVIOUS
<1>9. (a * f) * d < (e * b) * d
  BY <1>6, <1>7, <1>8, <1>5
<1>10. a * f < e * b
  BY <1>9, <1>5, TimesStrict
<1> QED
  BY <1>10, <1>1, <1>3 DEF Less

-----------------------------------------------------------------------------
(* The order of a ranking.                                                 *)

Scored(r, n) == n \in Nat /\ DOMAIN r = 1..n /\ \A i \in 1..n : r[i].score \in Fractions

\* Results are in a strict order.
LEMMA BeforeStrict ==
    ASSUME NEW r, NEW n, Scored(r, n), NEW i \in 1..n, NEW j \in 1..n
    PROVE  /\ ~Before(r, i, i)
           /\ i # j => Before(r, i, j) \/ Before(r, j, i)
           /\ Before(r, i, j) => ~Before(r, j, i)
<1>1. r[i].score \in Fractions /\ r[j].score \in Fractions /\ i \in Nat /\ j \in Nat
  BY DEF Scored
<1>2. ~Less(r[i].score, r[i].score)
  BY <1>1, LessAsymmetric
<1>3. Less(r[i].score, r[j].score) => ~Less(r[j].score, r[i].score)
  BY <1>1, LessAsymmetric
<1> QED
  BY <1>1, <1>2, <1>3 DEF Before

LEMMA BeforeTransitive ==
    ASSUME NEW r, NEW n, Scored(r, n), NEW i \in 1..n, NEW j \in 1..n, NEW k \in 1..n,
           Before(r, i, j), Before(r, j, k)
    PROVE  Before(r, i, k)
<1>1. PICK a \in Fractions : a = r[i].score
  BY DEF Scored
<1>2. PICK b \in Fractions : b = r[j].score
  BY DEF Scored
<1>3. PICK c \in Fractions : c = r[k].score
  BY DEF Scored
<1>4. i \in Nat /\ j \in Nat /\ k \in Nat
  BY DEF Scored
<1>5. Less(b, a) \/ (~Less(a, b) /\ i < j)
  BY <1>1, <1>2 DEF Before
<1>6. Less(c, b) \/ (~Less(b, c) /\ j < k)
  BY <1>2, <1>3 DEF Before
<1>7. CASE Less(c, b)
  <2>1. ~Less(a, b)
    BY <1>5, LessAsymmetric
  <2>2. Less(c, a)
    BY <2>1, <1>7, LessNotLess
  <2> QED
    BY <2>2, <1>1, <1>3 DEF Before
<1>8. CASE Less(b, a) /\ ~Less(b, c)
  <2>1. Less(c, a)
    BY <1>8, LessNotLess
  <2> QED
    BY <2>1, <1>1, <1>3 DEF Before
<1>9. CASE ~Less(a, b) /\ i < j /\ ~Less(b, c) /\ j < k
  <2>1. ~Less(a, c)
    BY <1>9, LessNotLess
  <2>2. i < k
    BY <1>9, <1>4
  <2> QED
    BY <2>1, <2>2, <1>1, <1>3 DEF Before
<1> QED
  BY <1>5, <1>6, <1>7, <1>8, <1>9

\* The results before the i-th.
Ahead(r, i) == {j \in DOMAIN r : Before(r, j, i)}

LEMMA PlaceGrows ==
    ASSUME NEW r, NEW n, Scored(r, n), NEW i \in 1..n
    PROVE  /\ Place(r, i) \in 1..n
           /\ \A j \in 1..n : Before(r, i, j) => Place(r, i) < Place(r, j)
<1>1. n \in Int /\ 1 \in Int /\ DOMAIN r = 1..n
  BY DEF Scored
<1>2. IsFiniteSet(1..n) /\ Cardinality(1..n) = n
  BY <1>1, FS_Interval DEF Scored
<1>3. ASSUME NEW j \in 1..n
      PROVE  /\ IsFiniteSet(Ahead(r, j)) /\ Cardinality(Ahead(r, j)) \in Nat
             /\ Place(r, j) = Cardinality(Ahead(r, j)) + 1
  <2>1. Ahead(r, j) \in SUBSET (1..n)
    BY <1>1 DEF Ahead
  <2>2. IsFiniteSet(Ahead(r, j))
    BY <2>1, <1>2, FS_Subset
  <2> QED
    BY <2>2, FS_CardinalityType DEF Place, Ahead
<1>4. ASSUME NEW j \in 1..n
      PROVE  /\ IsFiniteSet(Ahead(r, j) \cup {j})
             /\ Cardinality(Ahead(r, j) \cup {j}) = Cardinality(Ahead(r, j)) + 1
  <2>1. j \notin Ahead(r, j)
    BY BeforeStrict DEF Ahead
  <2> QED
    BY <2>1, <1>3, FS_AddElement
<1>5. Place(r, i) \in 1..n
  <2>1. Ahead(r, i) \cup {i} \in SUBSET (1..n)
    BY <1>1 DEF Ahead
  <2>2. Cardinality(Ahead(r, i) \cup {i}) <= n
    BY <2>1, <1>2, FS_Subset
  <2>3. Place(r, i) = Cardinality(Ahead(r, i) \cup {i})
    BY <1>3, <1>4
  <2>4. Place(r, i) = Cardinality(Ahead(r, i)) + 1 /\ Cardinality(Ahead(r, i)) \in Nat
    BY <1>3
  <2> QED
    BY <2>2, <2>3, <2>4, <1>1
<1>6. ASSUME NEW j \in 1..n, Before(r, i, j) PROVE Place(r, i) < Place(r, j)
  <2>1. Ahead(r, i) \cup {i} \in SUBSET Ahead(r, j)
    <3>1. i \in Ahead(r, j)
      BY <1>6, <1>1 DEF Ahead
    <3>2. ASSUME NEW k \in Ahead(r, i) PROVE k \in Ahead(r, j)
      <4>1. k \in 1..n /\ Before(r, k, i)
        BY <1>1 DEF Ahead
      <4>2. Before(r, k, j)
        BY <4>1, <1>6, BeforeTransitive
      <4> QED
        BY <4>1, <4>2, <1>1 DEF Ahead
    <3> QED
      BY <3>1, <3>2
  <2>2. Cardinality(Ahead(r, i) \cup {i}) <= Cardinality(Ahead(r, j))
    BY <2>1, <1>3, FS_Subset
  <2> QED
    BY <2>2, <1>3, <1>4
<1> QED
  BY <1>5, <1>6

\* Each result has a place of its own, and each place is taken.
LEMMA PlaceUnique ==
    ASSUME NEW r, NEW n, Scored(r, n), NEW i \in 1..n, NEW j \in 1..n,
           Place(r, i) = Place(r, j)
    PROVE  i = j
<1>1. Place(r, i) \in 1..n /\ Place(r, j) \in 1..n
  BY PlaceGrows
<1>2. Before(r, i, j) => Place(r, i) < Place(r, j)
  BY PlaceGrows
<1>3. Before(r, j, i) => Place(r, j) < Place(r, i)
  BY PlaceGrows
<1> QED
  BY <1>1, <1>2, <1>3, BeforeStrict

LEMMA PlaceTaken ==
    ASSUME NEW r, NEW n, Scored(r, n), NEW k \in 1..n
    PROVE  \E i \in 1..n : Place(r, i) = k
<1> DEFINE p == [i \in 1..n |-> Place(r, i)]
           taken == {p[i] : i \in 1..n}
<1>1. n \in Nat /\ n \in Int /\ 1 \in Int
  BY DEF Scored
<1>2. IsFiniteSet(1..n) /\ Cardinality(1..n) = n
  BY <1>1, FS_Interval
<1>3. \A i \in 1..n : p[i] \in 1..n
  BY PlaceGrows
<1>4. taken \in SUBSET (1..n)
  BY <1>3
<1>5. \A i, j \in 1..n : p[i] = p[j] => i = j
  BY PlaceUnique
<1>6. p \in [1..n -> taken] /\ \A t \in taken : \E i \in 1..n : p[i] = t
  OBVIOUS
<1> HIDE DEF p, taken
<1>7. p \in Surjection(1..n, taken)
  BY <1>6 DEF Surjection
<1>8. p \in Injection(1..n, taken)
  BY <1>5, <1>6 DEF Injection, IsInjective
<1>9. Cardinality(taken) = Cardinality(1..n)
  BY <1>2, <1>7, <1>8, FS_Surjection
<1>10. taken = 1..n
  BY <1>2, <1>4, <1>9, FS_Subset
<1> QED
  BY <1>6, <1>10 DEF p

\* The result in a place.
At(r, k) == CHOOSE i \in DOMAIN r : Place(r, i) = k

LEMMA AtIs ==
    ASSUME NEW r, NEW n, Scored(r, n)
    PROVE  /\ \A k \in 1..n : At(r, k) \in 1..n /\ Place(r, At(r, k)) = k
           /\ \A i \in 1..n : \E k \in 1..n : At(r, k) = i
<1>1. DOMAIN r = 1..n
  BY DEF Scored
<1>2. ASSUME NEW k \in 1..n PROVE At(r, k) \in 1..n /\ Place(r, At(r, k)) = k
  BY <1>1, PlaceTaken DEF At
<1>3. ASSUME NEW i \in 1..n PROVE \E k \in 1..n : At(r, k) = i
  <2>1. PICK k \in 1..n : k = Place(r, i)
    BY PlaceGrows
  <2>2. At(r, k) = i
    BY <2>1, <1>2, PlaceUnique
  <2> QED
    BY <2>2
<1> QED
  BY <1>2, <1>3

\* What is in a higher place scores no less, and what scores more is higher.
LEMMA AtSorted ==
    ASSUME NEW r, NEW n, Scored(r, n), NEW k \in 1..n, NEW l \in 1..n
    PROVE  /\ k < l => ~Less(r[At(r, k)].score, r[At(r, l)].score)
           /\ Less(r[At(r, l)].score, r[At(r, k)].score) => k < l
<1>1. PICK i \in 1..n : i = At(r, k) /\ Place(r, i) = k
  BY AtIs
<1>2. PICK j \in 1..n : j = At(r, l) /\ Place(r, j) = l
  BY AtIs
<1>3. r[i].score \in Fractions /\ r[j].score \in Fractions /\ n \in Nat
  BY DEF Scored
<1>4. Before(r, i, j) => k < l
  BY <1>1, <1>2, PlaceGrows
<1>5. Before(r, j, i) => l < k
  BY <1>1, <1>2, PlaceGrows
<1>6. ASSUME k < l PROVE ~Less(r[i].score, r[j].score)
  <2>1. i # j
    BY <1>1, <1>2, <1>6
  <2>2. Before(r, i, j)
    BY <2>1, <1>5, <1>6, BeforeStrict
  <2>3. Less(r[j].score, r[i].score) => ~Less(r[i].score, r[j].score)
    BY <1>3, LessAsymmetric
  <2> QED
    BY <2>2, <2>3 DEF Before
<1>7. ASSUME Less(r[j].score, r[i].score) PROVE k < l
  BY <1>4, <1>7 DEF Before
<1> QED
  BY <1>1, <1>2, <1>6, <1>7

-----------------------------------------------------------------------------
(* The loader.                                                             *)

Entries == {Files[i] : i \in DOMAIN Files}

LEMMA LoadedIs ==
    ASSUME NEW entries \in Seq(Entries), NEW file \in Entries
    PROVE  Loaded(entries, file) \in Seq(Entries)
<1>1. CASE \E i \in DOMAIN entries : entries[i].id = file.id
  <2>1. Loaded(entries, file) =
            [i \in DOMAIN entries |-> IF entries[i].id = file.id THEN file ELSE entries[i]]
    BY <1>1 DEF Loaded
  <2>2. DOMAIN entries = 1..Len(entries) /\ Len(entries) \in Nat
        /\ \A i \in DOMAIN entries : entries[i] \in Entries
    OBVIOUS
  <2> QED
    BY <2>1, <2>2
<1>2. CASE ~\E i \in DOMAIN entries : entries[i].id = file.id
  BY <1>2 DEF Loaded
<1> QED
  BY <1>1, <1>2

\* What is loaded are entries of the files.
LEMMA LoadKbIs ==
    ASSUME NEW broken
    PROVE  LoadKb(broken) \in Seq(Entries)
<1>1. PICK n \in Nat : n = Len(Files) /\ DOMAIN Files = 1..n
  BY FilesAssumption
<1> DEFINE Of(entries, i) == IF i \in broken THEN entries ELSE Loaded(entries, Files[i])
           Is(g, k) == g = [i \in 0..k |-> IF i = 0 THEN << >> ELSE Of(g[i - 1], i)]
           upto == {k \in 0..n : \E g : Is(g, k) /\ g[k] \in Seq(Entries)}
<1>2. 0 \in upto
  <2> DEFINE h == [i \in 0..0 |-> << >>]
  <2>1. \A i \in 0..0 : h[i] = IF i = 0 THEN << >> ELSE Of(h[i - 1], i)
    OBVIOUS
  <2>2. Is(h, 0) /\ h[0] \in Seq(Entries)
    BY <2>1
  <2> HIDE DEF Is, h
  <2> QED
    BY <2>2
<1>3. ASSUME NEW k \in 0..(n - 1), k \in upto PROVE k + 1 \in upto
  <2>1. PICK g : Is(g, k) /\ g[k] \in Seq(Entries)
    BY <1>3
  <2> DEFINE h == [i \in 0..(k + 1) |-> IF i <= k THEN g[i] ELSE Of(g[k], i)]
  <2>2. Of(g[k], k + 1) \in Seq(Entries)
    <3>1. Files[k + 1] \in Entries
      BY <1>1 DEF Entries
    <3> QED
      BY <2>1, <3>1, LoadedIs
  <2> HIDE DEF Of
  <2>3. \A i \in 0..(k + 1) : h[i] = IF i = 0 THEN << >> ELSE Of(h[i - 1], i)
    <3>1. SUFFICES ASSUME NEW i \in 0..(k + 1)
                   PROVE  h[i] = IF i = 0 THEN << >> ELSE Of(h[i - 1], i)
      OBVIOUS
    <3>2. CASE i = 0
      BY <3>2, <2>1
    <3>3. CASE i # 0 /\ i <= k
      BY <3>3, <2>1
    <3>4. CASE i = k + 1
      BY <3>4
    <3> QED
      BY <3>2, <3>3, <3>4
  <2>4. Is(h, k + 1)
    BY <2>3
  <2>5. h[k + 1] \in Seq(Entries)
    BY <2>2
  <2>6. k + 1 \in 0..n
    OBVIOUS
  <2> HIDE DEF Is, h
  <2> QED
    BY <2>4, <2>5, <2>6
<1>4. n \in upto
  <2> HIDE DEF upto
  <2>1. 0 \in upto
    BY <1>2
  <2>2. \A k \in 0..(n - 1) : k \in upto => k + 1 \in upto
    BY <1>3
  <2>3. \A k \in 0..n : k \in upto
    BY ONLY n \in Nat, <2>1, <2>2, InductionTo
  <2> QED
    BY <2>3
<1>5. PICK g : Is(g, n) /\ g[n] \in Seq(Entries)
  BY <1>4
<1> DEFINE f == CHOOSE h : Is(h, Len(Files))
<1>6. Is(f, n)
  BY <1>1, <1>5
<1>7. \A h : Is(h, n) => h[n] = g[n]
  <2> SUFFICES ASSUME NEW h, Is(h, n) PROVE h[n] = g[n]
    OBVIOUS
  <2> HIDE DEF Of
  <2> DEFINE same == {i \in 0..n : h[i] = g[i]}
  <2>1. 0 \in same
    BY <1>5
  <2>2. ASSUME NEW i \in 0..(n - 1), i \in same PROVE i + 1 \in same
    <3>1. i + 1 \in 0..n /\ i + 1 # 0 /\ (i + 1) - 1 = i
      OBVIOUS
    <3>2. h[i + 1] = Of(h[i], i + 1)
      BY <3>1
    <3>3. g[i + 1] = Of(g[i], i + 1)
      BY <3>1, <1>5
    <3> QED
      BY <3>1, <3>2, <3>3, <2>2
  <2>3. n \in same
    <3> HIDE DEF same
    <3>1. 0 \in same
      BY <2>1
    <3>2. \A i \in 0..(n - 1) : i \in same => i + 1 \in same
      BY <2>2
    <3>3. \A i \in 0..n : i \in same
      BY ONLY n \in Nat, <3>1, <3>2, InductionTo
    <3> QED
      BY <3>3
  <2> QED
    BY <2>3
<1>8. LoadKb(broken) = f[n]
  <2>1. LoadKb(broken) = f[Len(Files)]
    BY DEF LoadKb
  <2> HIDE DEF f
  <2> QED
    BY <2>1, <1>1
<1> QED
  <2> HIDE DEF f, Is
  <2> QED
    BY <1>5, <1>6, <1>7, <1>8

\* The signatures of an entry.
LEMMA SignaturesAre ==
    ASSUME NEW e \in Entries, NEW sigs \in {e.primary, e.secondary}
    PROVE  /\ Len(sigs) \in Nat /\ DOMAIN sigs = 1..Len(sigs)
           /\ Len(Signatures(e)) \in Nat
           /\ DOMAIN Signatures(e) = 1..Len(Signatures(e))
           /\ \A i \in DOMAIN sigs :
                 /\ sigs[i].sensor # {}
                 /\ \E n \in DOMAIN Signatures(e) : Signatures(e)[n] = sigs[i]
<1>1. /\ e.primary \in Seq({e.primary[n] : n \in DOMAIN e.primary})
      /\ e.secondary \in Seq({e.secondary[n] : n \in DOMAIN e.secondary})
      /\ \A n \in DOMAIN e.primary : e.primary[n].sensor # {}
      /\ \A n \in DOMAIN e.secondary : e.secondary[n].sensor # {}
  BY FilesAssumption DEF Entries
<1> DEFINE all == {e.primary[n] : n \in DOMAIN e.primary}
                      \cup {e.secondary[n] : n \in DOMAIN e.secondary}
<1>2. e.primary \in Seq(all) /\ e.secondary \in Seq(all)
  BY <1>1
<1>3. PICK p, q : p = e.primary /\ q = e.secondary
  OBVIOUS
<1> HIDE DEF all
<1>4. /\ Len(p) \in Nat /\ Len(q) \in Nat /\ DOMAIN p = 1..Len(p) /\ DOMAIN q = 1..Len(q)
      /\ p \o q \in Seq(all) /\ Len(p \o q) = Len(p) + Len(q)
      /\ \A i \in 1..(Len(p) + Len(q)) :
            (p \o q)[i] = IF i <= Len(p) THEN p[i] ELSE q[i - Len(p)]
  <2>1. p \in Seq(all) /\ q \in Seq(all)
    BY <1>2, <1>3
  <2>2. /\ Len(p) \in Nat /\ Len(q) \in Nat
        /\ DOMAIN p = 1..Len(p) /\ DOMAIN q = 1..Len(q)
    BY <2>1
  <2> QED
    BY ONLY <2>1, <2>2, ConcatProperties
<1>5. Signatures(e) = p \o q
  BY <1>3 DEF Signatures
<1>6. DOMAIN (p \o q) = 1..(Len(p) + Len(q))
  BY <1>4
<1>7. \A i \in 1..Len(p) : i \in 1..(Len(p) + Len(q)) /\ (p \o q)[i] = p[i]
  BY <1>4
<1>8. \A i \in 1..Len(q) : /\ i + Len(p) \in 1..(Len(p) + Len(q))
                           /\ (p \o q)[i + Len(p)] = q[i]
  BY <1>4
<1>9. CASE sigs = p
  <2>1. \A i \in 1..Len(p) : p[i].sensor # {}
    BY <1>1, <1>3, <1>4
  <2> QED
    BY ONLY <2>1, <1>9, <1>4, <1>5, <1>6, <1>7
<1>10. CASE sigs = q
  <2>1. \A i \in 1..Len(q) : q[i].sensor # {}
    BY <1>1, <1>3, <1>4
  <2>2. Len(p) \in Nat /\ Len(q) \in Nat /\ DOMAIN q = 1..Len(q)
    BY <1>4
  <2>3. \A i \in 1..Len(q) : \E n \in DOMAIN (p \o q) : (p \o q)[n] = q[i]
    <3> SUFFICES ASSUME NEW i \in 1..Len(q)
                 PROVE  \E n \in DOMAIN (p \o q) : (p \o q)[n] = q[i]
      OBVIOUS
    <3>1. i + Len(p) \in DOMAIN (p \o q) /\ (p \o q)[i + Len(p)] = q[i]
      BY <1>6, <1>8
    <3> QED
      BY <3>1
  <2>4. Len(p \o q) \in Nat /\ DOMAIN (p \o q) = 1..Len(p \o q)
    BY <1>4
  <2> QED
    BY ONLY <2>1, <2>2, <2>3, <2>4, <1>5, <1>10
<1> QED
  BY <1>3, <1>9, <1>10

-----------------------------------------------------------------------------
(* Weights and scores.                                                     *)

\* The entries of a knowledge base that was loaded.
IsKb(entries) == \E broken \in SUBSET DOMAIN Files : entries = LoadKb(broken)

LEMMA KbEntries ==
    ASSUME NEW entries, IsKb(entries)
    PROVE  /\ entries \in Seq(Entries) /\ Len(entries) \in Nat
           /\ DOMAIN entries = 1..Len(entries)
           /\ \A e \in ToSet(entries) : e \in Entries
<1>1. entries \in Seq(Entries)
  BY LoadKbIs DEF IsKb
<1>2. Len(entries) \in Nat /\ DOMAIN entries = 1..Len(entries)
      /\ \A i \in DOMAIN entries : entries[i] \in Entries
  BY <1>1
<1> QED
  BY <1>1, <1>2 DEF ToSet

\* Each signature of the knowledge base has a weight.
LEMMA DistinctivenessPositive ==
    ASSUME NEW entries, IsKb(entries), NEW e \in ToSet(entries),
           NEW n \in DOMAIN Signatures(e)
    PROVE  Distinctiveness(entries, Signatures(e)[n]) \in Nat \ {0}
<1> DEFINE sig == Signatures(e)[n]
           Same(d) == {i \in DOMAIN Signatures(d) :
                          /\ Signatures(d)[i].sensor = sig.sensor
                          /\ Signatures(d)[i].pattern = sig.pattern}
           counts == [k \in DOMAIN entries |-> Cardinality(Same(entries[k]))]
<1>1. PICK k \in DOMAIN entries : entries[k] = e
  BY DEF ToSet
<1>2. ASSUME NEW d \in Entries
      PROVE  IsFiniteSet(Same(d)) /\ Cardinality(Same(d)) \in Nat
  <2>1. DOMAIN Signatures(d) = 1..Len(Signatures(d)) /\ Len(Signatures(d)) \in Nat
    BY SignaturesAre
  <2>2. Len(Signatures(d)) \in Int /\ 1 \in Int
    BY <2>1
  <2>3. IsFiniteSet(1..Len(Signatures(d)))
    BY <2>2, FS_Interval
  <2>4. Same(d) \in SUBSET (1..Len(Signatures(d)))
    BY <2>1
  <2>5. IsFiniteSet(Same(d))
    BY <2>3, <2>4, FS_Subset
  <2> QED
    BY <2>5, FS_CardinalityType
<1>3. e \in Entries /\ n \in Same(e)
  BY KbEntries
<1>4. Cardinality(Same(e)) # 0
  BY <1>2, <1>3, FS_EmptySet
<1>5. \A j \in DOMAIN entries : entries[j] \in Entries
  BY KbEntries
<1>6. PatternCount(entries, sig) = Total(counts)
  BY DEF PatternCount
<1> HIDE DEF Same
<1>7. counts \in Seq(Nat) /\ Len(counts) = Len(entries) /\ k \in 1..Len(counts)
  BY <1>2, <1>5, KbEntries
<1>8. counts[k] = Cardinality(Same(e)) /\ counts[k] \in Nat \ {0}
  BY <1>1, <1>2, <1>3, <1>4
<1> HIDE DEF counts
<1>9. counts[k] <= Total(counts)
  BY <1>7, TotalAtLeast
<1>10. \A i \in 1..Len(counts) : counts[i] <= counts[i]
  BY <1>7
<1>11. Total(counts) \in Nat
  BY <1>7, <1>10, TotalMonotone
<1>12. PICK c \in Nat \ {0} : c = PatternCount(entries, sig)
  BY <1>6, <1>8, <1>9, <1>11
<1>13. Scale % c = 0
  BY <1>12, ScaleAssumption DEF IsKb
<1>14. Scale \div c \in Nat \ {0}
  BY <1>13, KnowledgeAssumption
<1> QED
  BY <1>12, <1>14 DEF Distinctiveness

\* A symptom matches itself.
LEMMA MatchesItself ==
    ASSUME NEW sig, sig.sensor # {}
    PROVE  SymptomMatches(sig, sig)
BY DEF SymptomMatches, DirectionMatches

MatchedBy(sigs, reported, i) == \E s \in reported : SymptomMatches(s, sigs[i])

\* What is matched of some signatures is a fraction of them, which grows with
\* what is reported, from nothing to all.
LEMMA WeightedMatchIs ==
    ASSUME NEW entries, IsKb(entries), NEW e \in ToSet(entries),
           NEW sigs \in {e.primary, e.secondary}, NEW reported
    PROVE  LET m == WeightedMatch(entries, sigs, reported)
           IN  /\ m \in Fractions /\ m.num <= m.den
               /\ sigs # << >> /\ Reported(sigs, reported) => m.num = m.den
               /\ (\A i \in DOMAIN sigs : ~MatchedBy(sigs, reported, i)) => m.num = 0
               /\ \A fewer \in SUBSET reported :
                     /\ WeightedMatch(entries, sigs, fewer).den = m.den
                     /\ WeightedMatch(entries, sigs, fewer).num <= m.num
<1>1. PICK l \in Nat : l = Len(sigs) /\ DOMAIN sigs = 1..l
  BY SignaturesAre, KbEntries
<1> DEFINE all == [i \in DOMAIN sigs |-> Distinctiveness(entries, sigs[i])]
           Of(S) == [i \in DOMAIN sigs |-> IF \E s \in S : SymptomMatches(s, sigs[i])
                                             THEN Distinctiveness(entries, sigs[i]) ELSE 0]
<1>2. \A i \in 1..l : Distinctiveness(entries, sigs[i]) \in Nat \ {0} /\ sigs[i].sensor # {}
  <2> SUFFICES ASSUME NEW i \in 1..l
               PROVE  /\ Distinctiveness(entries, sigs[i]) \in Nat \ {0}
                      /\ sigs[i].sensor # {}
    OBVIOUS
  <2>1. e \in Entries
    BY KbEntries
  <2>2. PICK n \in DOMAIN Signatures(e) : Signatures(e)[n] = sigs[i]
    BY <2>1, <1>1, SignaturesAre
  <2>3. Distinctiveness(entries, Signatures(e)[n]) \in Nat \ {0}
    BY DistinctivenessPositive
  <2>4. sigs[i].sensor # {}
    BY <2>1, <1>1, SignaturesAre
  <2> QED
    BY <2>2, <2>3, <2>4
<1>3. all \in Seq(Nat) /\ Len(all) = l /\ \A i \in 1..l : all[i] \in Nat \ {0}
  BY <1>1, <1>2
<1>4. ASSUME NEW S
      PROVE  /\ Of(S) \in Seq(Nat) /\ Len(Of(S)) = l
             /\ \A i \in 1..l : Of(S)[i] <= all[i]
  BY <1>1, <1>2
<1>5. /\ \A S : MatchedWeight(entries, sigs, S) = Total(Of(S))
      /\ TotalWeight(entries, sigs) = Total(all)
  BY DEF MatchedWeight, TotalWeight
<1>6. ASSUME NEW S
      PROVE  Total(Of(S)) \in Nat /\ Total(all) \in Nat /\ Total(Of(S)) <= Total(all)
  <2>1. PICK o \in Seq(Nat) : o = Of(S) /\ Len(o) = l /\ \A i \in 1..l : o[i] <= all[i]
    BY <1>4
  <2> HIDE DEF Of, all
  <2> QED
    BY <2>1, <1>3, TotalMonotone
<1>7. CASE sigs = << >>
  <2>1. \A S : WeightedMatch(entries, sigs, S) = [num |-> 0, den |-> 1]
    BY <1>7 DEF WeightedMatch
  <2>2. [num |-> 0, den |-> 1] \in Fractions
    BY DEF Fractions
  <2> QED
    BY <2>1, <2>2, <1>7
<1>8. CASE sigs # << >>
  <2>1. \A S : WeightedMatch(entries, sigs, S) = [num |-> Total(Of(S)), den |-> Total(all)]
    <3> HIDE DEF Of, all
    <3> QED
      BY <1>5, <1>8 DEF WeightedMatch
  <2>2. Total(all) \in Nat \ {0}
    <3>1. l # 0
      BY <1>1, <1>8, SignaturesAre, KbEntries, FilesAssumption DEF Entries
    <3>2. 1 \in 1..l
      BY <3>1
    <3> HIDE DEF all
    <3>3. all[1] <= Total(all) /\ all[1] \in Nat \ {0}
      BY <3>2, <1>3, TotalAtLeast
    <3>4. \A i \in 1..Len(all) : all[i] <= all[i]
      BY <1>3
    <3>5. Total(all) \in Nat
      BY <3>4, <1>3, TotalMonotone
    <3> QED
      BY <3>3, <3>5
  <2>3. ASSUME Reported(sigs, reported) PROVE Total(Of(reported)) = Total(all)
    <3>1. ASSUME NEW i \in DOMAIN sigs
          PROVE  \E s \in reported : SymptomMatches(s, sigs[i])
      BY <2>3, <1>1, <1>2, MatchesItself DEF Reported
    <3>2. Of(reported) = all
      BY <3>1
    <3> HIDE DEF Of, all
    <3> QED
      BY <3>2
  <2>4. ASSUME \A i \in DOMAIN sigs : ~MatchedBy(sigs, reported, i)
        PROVE  Total(Of(reported)) = 0
    <3>1. PICK o \in Seq(Nat) : o = Of(reported) /\ Len(o) = l
      BY <1>4
    <3>2. \A i \in 1..l : o[i] = 0
      BY <2>4, <3>1, <1>1 DEF MatchedBy
    <3> HIDE DEF Of
    <3> QED
      BY <3>1, <3>2, TotalZero
  <2>5. ASSUME NEW fewer \in SUBSET reported
        PROVE  Total(Of(fewer)) <= Total(Of(reported))
    <3>1. PICK o \in Seq(Nat) : o = Of(fewer) /\ Len(o) = l
      BY <1>4
    <3>2. PICK u \in Seq(Nat) : u = Of(reported) /\ Len(u) = l
      BY <1>4
    <3>3. \A i \in 1..l : o[i] <= u[i]
      BY <3>1, <3>2, <1>1, <1>2
    <3> HIDE DEF Of
    <3> QED
      BY <3>1, <3>2, <3>3, TotalMonotone
  <2> HIDE DEF Of, all
  <2>6. [num |-> Total(Of(reported)), den |-> Total(all)] \in Fractions
    BY <2>2, <1>6 DEF Fractions
  <2> QED
    BY <2>1, <2>3, <2>4, <2>5, <2>6, <1>6
<1> QED
  BY <1>7, <1>8

LEMMA TimesPositive ==
    ASSUME NEW a \in Nat \ {0}, NEW b \in Nat \ {0}
    PROVE  a * b \in Nat \ {0}
OBVIOUS

\* A score, out of the two fractions it is made of.
Parts(p, s, x) ==
    /\ p \in Fractions /\ s \in Fractions /\ p.num <= p.den /\ s.num <= s.den
    /\ x.num = 2 * p.num * s.den + s.num * p.den /\ x.den = 2 * p.den * s.den

LEMMA PartsFraction ==
    ASSUME NEW p, NEW s, NEW x, Parts(p, s, x)
    PROVE  x.num \in Nat /\ x.den \in Nat \ {0}
<1>1. /\ p.num \in Nat /\ p.den \in Nat \ {0} /\ s.num \in Nat /\ s.den \in Nat \ {0}
      /\ x.num = 2 * p.num * s.den + s.num * p.den /\ x.den = 2 * p.den * s.den
  BY DEF Parts, Fractions
<1>2. 2 * p.num * s.den \in Nat /\ s.num * p.den \in Nat
  BY <1>1
<1>3. 2 * p.den \in Nat \ {0}
  BY <1>1
<1>4. 2 * p.den * s.den \in Nat \ {0}
  BY <1>1, <1>3, TimesPositive
<1> QED
  BY <1>1, <1>2, <1>4

LEMMA ScoreParts ==
    ASSUME NEW entries, IsKb(entries), NEW e \in ToSet(entries), NEW reported
    PROVE  /\ Parts(WeightedMatch(entries, e.primary, reported),
                    WeightedMatch(entries, e.secondary, reported),
                    Score(entries, e, reported))
           /\ Score(entries, e, reported) \in Fractions
<1>1. PICK p : p = WeightedMatch(entries, e.primary, reported)
  OBVIOUS
<1>2. PICK s : s = WeightedMatch(entries, e.secondary, reported)
  OBVIOUS
<1>3. p \in Fractions /\ p.num <= p.den
  BY <1>1, WeightedMatchIs
<1>4. s \in Fractions /\ s.num <= s.den
  BY <1>2, WeightedMatchIs
<1>5. Score(entries, e, reported) = [num |-> 2 * p.num * s.den + s.num * p.den,
                                     den |-> 2 * p.den * s.den]
  BY <1>1, <1>2 DEF Score
<1>6. Parts(p, s, Score(entries, e, reported))
  BY <1>3, <1>4, <1>5 DEF Parts
<1>7. Score(entries, e, reported) \in Fractions
  <2>1. PICK a, b : /\ a = 2 * p.num * s.den + s.num * p.den /\ b = 2 * p.den * s.den
                    /\ Score(entries, e, reported) = [num |-> a, den |-> b]
    BY <1>5
  <2>2. a \in Nat /\ b \in Nat \ {0}
    BY <2>1, <1>6, PartsFraction
  <2> QED
    BY <2>1, <2>2 DEF Fractions
<1> QED
  BY <1>1, <1>2, <1>6, <1>7

\* What is reported in addition does not lower a score.
LEMMA ScoreGrows ==
    ASSUME NEW entries, IsKb(entries), NEW e \in ToSet(entries), NEW reported,
           NEW fewer \in SUBSET reported
    PROVE  ~Less(Score(entries, e, reported), Score(entries, e, fewer))
<1>1. PICK p, s, x : /\ p = WeightedMatch(entries, e.primary, reported)
                     /\ s = WeightedMatch(entries, e.secondary, reported)
                     /\ x = Score(entries, e, reported) /\ Parts(p, s, x)
  BY ScoreParts
<1>2. PICK q, t, y : /\ q = WeightedMatch(entries, e.primary, fewer)
                     /\ t = WeightedMatch(entries, e.secondary, fewer)
                     /\ y = Score(entries, e, fewer) /\ Parts(q, t, y)
  BY ScoreParts
<1>3. q.den = p.den /\ q.num <= p.num
  BY ZenonT(40), <1>1, <1>2, WeightedMatchIs
<1>4. t.den = s.den /\ t.num <= s.num
  BY ZenonT(40), <1>1, <1>2, WeightedMatchIs
<1>5. PICK a \in Nat, P \in Nat \ {0}, b \in Nat, S \in Nat \ {0} :
          a = p.num /\ P = p.den /\ b = s.num /\ S = s.den
  BY <1>1 DEF Parts, Fractions
<1>6. PICK c \in Nat, d \in Nat : c = q.num /\ d = t.num
  BY <1>2 DEF Parts, Fractions
<1>7. x.num = 2 * a * S + b * P /\ x.den = 2 * P * S
  BY <1>1, <1>5 DEF Parts
<1>8. y.num = 2 * c * S + d * P /\ y.den = 2 * P * S
  BY <1>2, <1>3, <1>4, <1>5, <1>6 DEF Parts
<1>9. (2 * c) * S <= (2 * a) * S
  BY <1>3, <1>5, <1>6, TimesMonotone
<1>10. d * P <= b * P
  BY <1>4, <1>5, <1>6, TimesMonotone
<1>11. PICK m \in Nat, n \in Nat, D \in Nat : m = x.num /\ n = y.num /\ D = x.den
  BY <1>1, <1>2, PartsFraction
<1>12. n <= m /\ D = y.den
  BY <1>7, <1>8, <1>9, <1>10, <1>11
<1>13. n * D <= m * D
  BY <1>12, TimesMonotone
<1>14. n * D \in Nat /\ m * D \in Nat
  OBVIOUS
<1> QED
  BY <1>1, <1>2, <1>11, <1>12, <1>13, <1>14 DEF Less

\* All primary signatures weigh more than all secondary ones.
LEMMA ScoreAbove ==
    ASSUME NEW entries, IsKb(entries), NEW e \in ToSet(entries), NEW f \in ToSet(entries),
           NEW reported, e.primary # << >>, Reported(e.primary, reported),
           \A i \in DOMAIN f.primary : ~MatchedBy(f.primary, reported, i)
    PROVE  Less(Score(entries, f, reported), Score(entries, e, reported))
<1>1. PICK p, s, x : /\ p = WeightedMatch(entries, e.primary, reported)
                     /\ s = WeightedMatch(entries, e.secondary, reported)
                     /\ x = Score(entries, e, reported) /\ Parts(p, s, x)
  BY ScoreParts
<1>2. PICK q, t, y : /\ q = WeightedMatch(entries, f.primary, reported)
                     /\ t = WeightedMatch(entries, f.secondary, reported)
                     /\ y = Score(entries, f, reported) /\ Parts(q, t, y)
  BY ScoreParts
<1>3. p.num = p.den
  <2>1. PICK sigs \in {e.primary, e.secondary} : sigs = e.primary
    OBVIOUS
  <2>2. sigs # << >> /\ Reported(sigs, reported)
    BY <2>1
  <2>3. WeightedMatch(entries, sigs, reported).num = WeightedMatch(entries, sigs, reported).den
    BY ONLY ZenonT(40), <2>2, WeightedMatchIs, IsKb(entries), e \in ToSet(entries),
            sigs \in {e.primary, e.secondary}
  <2> QED
    BY <2>1, <2>3, <1>1
<1>4. q.num = 0
  BY SMTT(30), <1>2, WeightedMatchIs
<1>5. PICK m \in Nat, D \in Nat \ {0} : m = x.num /\ D = x.den
  BY <1>1, PartsFraction
<1>6. PICK n \in Nat, E \in Nat \ {0} : n = y.num /\ E = y.den
  BY <1>2, PartsFraction
<1>7. D <= m
  <2>1. PICK P \in Nat \ {0}, b \in Nat, S \in Nat \ {0} :
            P = p.den /\ b = s.num /\ S = s.den
    BY <1>1 DEF Parts, Fractions
  <2>2. m = 2 * P * S + b * P /\ D = 2 * P * S
    BY <2>1, <1>1, <1>3, <1>5 DEF Parts
  <2>3. b * P \in Nat
    BY <2>1
  <2> QED
    BY <2>2, <2>3
<1>8. n < E
  <2>1. PICK Q \in Nat \ {0}, d \in Nat, T \in Nat \ {0} :
            Q = q.den /\ d = t.num /\ T = t.den /\ d <= T
    BY <1>2 DEF Parts, Fractions
  <2>2. n = 2 * 0 * T + d * Q /\ E = 2 * Q * T
    BY <2>1, <1>2, <1>4, <1>6 DEF Parts
  <2>3. n = d * Q
    <3>1. d * Q \in Nat /\ 2 * 0 * T = 0
      BY <2>1
    <3> QED
      BY <3>1, <2>2
  <2>4. d * Q <= T * Q
    BY <2>1, TimesMonotone
  <2>5. E = T * Q + T * Q
    <3>1. 2 * Q * T = T * Q + T * Q
      BY <2>1
    <3> QED
      BY <3>1, <2>2
  <2>6. T * Q \in Nat \ {0} /\ d * Q \in Nat
    BY <2>1, TimesPositive
  <2> QED
    BY <2>3, <2>4, <2>5, <2>6
<1>9. n * D < E * D
  BY <1>8, TimesStrict
<1>10. D * E <= m * E
  BY <1>7, TimesMonotone
<1>11. D * E = E * D /\ n * D \in Nat /\ E * D \in Nat /\ m * E \in Nat
  OBVIOUS
<1>12. n * D < m * E
  BY <1>9, <1>10, <1>11
<1> QED
  BY <1>12, <1>1, <1>2, <1>5, <1>6 DEF Less

-----------------------------------------------------------------------------
(* The ranking.                                                            *)

Results(reported, entries) ==
    [i \in DOMAIN entries |->
        [entry |-> entries[i], score |-> Score(entries, entries[i], reported)]]

LEMMA RankingIs ==
    ASSUME NEW entries, IsKb(entries), NEW reported, reported # {},
           NEW r, r = Results(reported, entries),
           NEW n, n = Len(entries),
           NEW ranking, ranking = MatchFailureModes(reported, entries)
    PROVE  /\ Scored(r, n) /\ DOMAIN entries = 1..n
           /\ \A i \in 1..n : /\ r[i].entry = entries[i] /\ entries[i] \in ToSet(entries)
                              /\ r[i].score = Score(entries, entries[i], reported)
           /\ DOMAIN ranking = 1..n /\ Len(ranking) = n
           /\ \A k \in 1..n : ranking[k] = r[At(r, k)]
<1>1. n \in Nat /\ DOMAIN entries = 1..n
  BY KbEntries
<1>2. \A i \in 1..n : /\ r[i].entry = entries[i] /\ entries[i] \in ToSet(entries)
                      /\ r[i].score = Score(entries, entries[i], reported)
  BY <1>1 DEF Results, ToSet
<1>3. DOMAIN r = 1..n
  BY <1>1 DEF Results
<1>4. \A i \in 1..n : r[i].score \in Fractions
  BY <1>2, ScoreParts
<1>5. ranking = [k \in DOMAIN r |-> r[At(r, k)]]
  BY DEF MatchFailureModes, Results, At
<1> QED
  BY <1>1, <1>2, <1>3, <1>4, <1>5 DEF Scored

\* The ranking is that of the symptoms.
RankInv ==
    /\ IsKb(kb)
    /\ ranked # << >> => symptoms # {} /\ ranked = MatchFailureModes(symptoms, kb)

LEMMA RankInit == Init => RankInv
BY DEF Init, RankInv, IsKb

LEMMA RankNext == RankInv /\ [Next]_vars => RankInv'
<1> SUFFICES ASSUME RankInv, [Next]_vars PROVE RankInv'
  OBVIOUS
<1>1. kb' = kb
  BY DEF Next, Lookup, Conclude, NextAlert, vars
<1>2. IsKb(kb')
  BY <1>1 DEF RankInv
<1>3. ranked' # << >> => symptoms' # {} /\ ranked' = MatchFailureModes(symptoms', kb')
  <2>1. CASE \E sig \in Observable : Lookup(sig)
    <3>1. PICK sig \in Observable : Lookup(sig)
      BY <2>1
    <3>2. symptoms' = symptoms \cup {sig} /\ ranked' = MatchFailureModes(symptoms', kb)
      BY <3>1 DEF Lookup
    <3> QED
      BY <3>2, <1>1
  <2>2. CASE Conclude
    BY <2>2 DEF Conclude
  <2>3. CASE NextAlert \/ UNCHANGED vars
    <3>1. symptoms' = symptoms /\ ranked' = ranked
      BY <2>3 DEF NextAlert, vars
    <3> QED
      BY <3>1, <1>1 DEF RankInv
  <2> QED
    BY <2>1, <2>2, <2>3 DEF Next
<1> QED
  BY <1>2, <1>3 DEF RankInv

LEMMA FairFromInv == RankInv => RankingFair
<1> SUFFICES ASSUME RankInv, ranked # << >> PROVE RankingFair
  BY DEF RankingFair
<1>1. IsKb(kb) /\ symptoms # {} /\ ranked = MatchFailureModes(symptoms, kb)
  BY DEF RankInv
<1>2. PICK r, n : r = Results(symptoms, kb) /\ n = Len(kb)
  OBVIOUS
<1>3. /\ Scored(r, n) /\ DOMAIN kb = 1..n
      /\ \A i \in 1..n : /\ r[i].entry = kb[i] /\ kb[i] \in ToSet(kb)
                         /\ r[i].score = Score(kb, kb[i], symptoms)
      /\ DOMAIN ranked = 1..n /\ Len(ranked) = n
      /\ \A k \in 1..n : ranked[k] = r[At(r, k)]
  BY <1>1, <1>2, RankingIs
<1>4. \A k \in 1..n : At(r, k) \in 1..n
  BY <1>3, AtIs
<1>5. \A i \in 1..n : \E k \in 1..n : At(r, k) = i
  BY <1>3, AtIs
<1>6. ASSUME NEW k \in 1..n
      PROVE  /\ ranked[k].entry \in ToSet(kb)
             /\ ranked[k].score = Score(kb, ranked[k].entry, symptoms)
             /\ ranked[k].score = r[At(r, k)].score
  BY <1>3, <1>4
<1>7. Len(ranked) = Len(kb)
  BY <1>2, <1>3
<1>8. ToSet(kb) = {x.entry : x \in ToSet(ranked)}
  <2>1. \A k \in 1..n : ranked[k].entry \in ToSet(kb)
    BY <1>6
  <2>2. \A i \in 1..n : \E k \in 1..n : ranked[k].entry = kb[i]
    BY <1>3, <1>5
  <2>3. ToSet(ranked) = {ranked[k] : k \in 1..n} /\ ToSet(kb) = {kb[i] : i \in 1..n}
    BY <1>3 DEF ToSet
  <2>4. {x.entry : x \in ToSet(ranked)} = {ranked[k].entry : k \in 1..n}
    BY <2>3
  <2>5. \A k \in 1..n : ranked[k].entry \in {kb[i] : i \in 1..n}
    BY <2>1, <2>3
  <2>6. \A i \in 1..n : kb[i] \in {ranked[k].entry : k \in 1..n}
    BY <2>2
  <2> QED
    BY <2>3, <2>4, <2>5, <2>6
<1>9. ASSUME NEW i \in 1..n, NEW j \in 1..n, i < j
      PROVE  ~Less(ranked[i].score, ranked[j].score)
  BY <1>3, <1>6, <1>9, AtSorted
<1>10. ASSUME NEW i \in 1..n, NEW sig \in symptoms
       PROVE  ~Less(ranked[i].score, Score(kb, ranked[i].entry, symptoms \ {sig}))
  <2>1. symptoms \ {sig} \in SUBSET symptoms
    OBVIOUS
  <2> QED
    BY <2>1, <1>1, <1>6, ScoreGrows
<1>11. ASSUME NEW i \in 1..n, NEW j \in 1..n, ranked[i].entry.primary # << >>,
              Reported(ranked[i].entry.primary, symptoms),
              \A m \in DOMAIN ranked[j].entry.primary, s \in symptoms :
                  ~SymptomMatches(s, ranked[j].entry.primary[m])
       PROVE  i < j
  <2>1. PICK e \in ToSet(kb) : e = ranked[i].entry
    BY <1>6
  <2>2. PICK f \in ToSet(kb) : f = ranked[j].entry
    BY <1>6
  <2>3. \A m \in DOMAIN f.primary : ~MatchedBy(f.primary, symptoms, m)
    BY <1>11, <2>2 DEF MatchedBy
  <2>4. Less(Score(kb, f, symptoms), Score(kb, e, symptoms))
    BY <1>1, <1>11, <2>1, <2>3, ScoreAbove
  <2>5. Less(r[At(r, j)].score, r[At(r, i)].score)
    BY <2>1, <2>2, <2>4, <1>6
  <2> QED
    BY <2>5, <1>3, AtSorted
<1> QED
  BY <1>3, <1>7, <1>8, <1>9, <1>10, <1>11 DEF RankingFair

LEMMA LeadFromInv == EntriesTellApart /\ RankInv => OwnSignaturesLead
<1> SUFFICES ASSUME EntriesTellApart, RankInv, ranked # << >>,
                    NEW x \in ToSet(ranked), Reported(x.entry.primary, symptoms),
                    symptoms \subseteq ToSet(Signatures(x.entry))
             PROVE  ~Less(x.score, ranked[1].score)
  BY DEF OwnSignaturesLead
<1>1. IsKb(kb) /\ symptoms # {} /\ ranked = MatchFailureModes(symptoms, kb)
  BY DEF RankInv
<1>2. PICK r, n : r = Results(symptoms, kb) /\ n = Len(kb)
  OBVIOUS
<1>3. /\ Scored(r, n) /\ DOMAIN kb = 1..n
      /\ \A i \in 1..n : /\ r[i].entry = kb[i] /\ kb[i] \in ToSet(kb)
                         /\ r[i].score = Score(kb, kb[i], symptoms)
      /\ DOMAIN ranked = 1..n /\ Len(ranked) = n
      /\ \A k \in 1..n : ranked[k] = r[At(r, k)]
  BY <1>1, <1>2, RankingIs
<1>4. ASSUME NEW k \in 1..n
      PROVE  /\ ranked[k].entry \in ToSet(kb)
             /\ ranked[k].score = Score(kb, ranked[k].entry, symptoms)
  <2>1. At(r, k) \in 1..n
    BY <1>3, AtIs
  <2> QED
    BY <2>1, <1>3
<1>5. PICK k \in 1..n : x = ranked[k]
  BY <1>3 DEF ToSet
<1>6. 1 \in 1..n
  BY <1>3, <1>5 DEF Scored
<1>7. PICK broken \in SUBSET DOMAIN Files : kb = LoadKb(broken)
  BY <1>1 DEF IsKb
<1>8. \A e, f \in ToSet(kb) : \A reported \in SUBSET ToSet(Signatures(e)) :
          reported # {} /\ Reported(e.primary, reported) =>
              ~Less(Score(kb, e, reported), Score(kb, f, reported))
  BY <1>7 DEF EntriesTellApart
<1> QED
  BY <1>1, <1>4, <1>5, <1>6, <1>8

-----------------------------------------------------------------------------
(* The severity.                                                           *)

Diagnoses == [cited : Seq(Entries), hypothesis : Hypotheses, confidence : Confidences]

\* A diagnosis cites entries of the files.
CitedInv == diagnosis # NoDiagnosis => diagnosis \in Diagnoses

LEMMA CitedInit == Init => CitedInv
BY DEF Init, CitedInv

LEMMA CitedNext == RankInv /\ CitedInv /\ [Next]_vars => CitedInv'
<1> SUFFICES ASSUME RankInv, CitedInv, [Next]_vars PROVE CitedInv'
  OBVIOUS
<1>1. CASE UNCHANGED vars \/ \E sig \in Observable : Lookup(sig)
  BY <1>1 DEF CitedInv, Lookup, vars
<1>2. CASE Conclude
  <2>1. PICK n \in 0..MaxCited, h \in Hypotheses, c \in Confidences :
           \E cited \in [1..n -> ToSet(kb)] :
               diagnosis' = [cited |-> cited, hypothesis |-> h, confidence |-> c]
    BY <1>2 DEF Conclude
  <2>2. PICK cited \in [1..n -> ToSet(kb)] :
           diagnosis' = [cited |-> cited, hypothesis |-> h, confidence |-> c]
    BY <2>1
  <2>3. ToSet(kb) \subseteq Entries
    BY KbEntries DEF RankInv
  <2>4. n \in Nat
    BY KnowledgeAssumption
  <2>5. cited \in Seq(Entries)
    <3>1. cited \in [1..n -> Entries]
      BY <2>3
    <3> QED
      BY <2>4, <3>1
  <2> QED
    BY <2>2, <2>5 DEF CitedInv, Diagnoses
<1>3. CASE NextAlert
  BY <1>3 DEF NextAlert, CitedInv
<1> QED
  BY <1>1, <1>2, <1>3 DEF Next

\* The texts of a diagnosis: the ids cited, then the hypothesis.
LEMMA HaystacksAre ==
    ASSUME NEW d \in Diagnoses
    PROVE  /\ DOMAIN Haystacks(d) = 1..(Len(d.cited) + 1) /\ Len(d.cited) \in Nat
           /\ \A i \in 1..Len(d.cited) : /\ d.cited[i] \in Entries
                                        /\ Haystacks(d)[i] = d.cited[i].words
           /\ Haystacks(d)[Len(d.cited) + 1] = d.hypothesis
<1>1. d.cited \in Seq(Entries)
  BY DEF Diagnoses
<1>2. PICK n \in Nat : n = Len(d.cited) /\ DOMAIN d.cited = 1..n
  BY <1>1
<1>3. PICK w : w = [i \in 1..n |-> d.cited[i].words]
  OBVIOUS
<1>4. w \in Seq({w[i] : i \in 1..n}) /\ Len(w) = n
  <2>1. DOMAIN w = 1..n /\ \A i \in 1..n : w[i] \in {w[k] : k \in 1..n}
    BY <1>3
  <2>2. w \in [1..n -> {w[i] : i \in 1..n}]
    BY <1>3, <2>1
  <2> QED
    BY <1>2, <2>2
<1>5. PICK t : t = Haystacks(d)
  OBVIOUS
<1>6. t = Append(w, d.hypothesis)
  BY <1>2, <1>3, <1>5 DEF Haystacks
<1>7. DOMAIN t = 1..(n + 1) /\ (\A i \in 1..n : t[i] = w[i]) /\ t[n + 1] = d.hypothesis
  <2>1. PICK h : h = d.hypothesis
    OBVIOUS
  <2>2. PICK S : S = {w[i] : i \in 1..n} \cup {h}
    OBVIOUS
  <2>3. w \in Seq(S) /\ h \in S
    <3>1. w \in [1..n -> S]
      BY <1>3, <2>2
    <3> QED
      BY <3>1, <2>2, <1>2
  <2>4. t = Append(w, h)
    BY <1>6, <2>1
  <2> QED
    BY <2>1, <2>3, <2>4, <1>4, AppendProperties
<1>8. \A i \in 1..n : d.cited[i] \in Entries
  BY <1>1, <1>2
<1> QED
  BY <1>2, <1>3, <1>5, <1>7, <1>8

\* The first of the texts decides if it tells.
LEMMA FirstTextDecides ==
    ASSUME NEW e \in Entries, NEW texts, NEW n \in Nat, DOMAIN texts = 1..(n + 1),
           texts[1] = e.words
    PROVE  InferSubsystem(Unspecified, texts) \in e.subsystems
<1> DEFINE Hits(t) == {r \in DOMAIN Rules : Rules[r].word \in texts[t]}
           telling == {t \in DOMAIN texts : Hits(t) # {}}
           first == CHOOSE t \in telling : \A u \in telling : t <= u
           rule == CHOOSE r \in Hits(first) : \A q \in Hits(first) : r <= q
<1>1. DOMAIN Rules \subseteq Nat
  BY RulesAssumption
<1>2. PICK r \in Hits(1) : (\A q \in Hits(1) : r <= q) /\ Rules[r].subsystem \in e.subsystems
  BY RulesAssumption DEF Entries
<1>3. 1 \in telling /\ telling \subseteq 1..(n + 1)
  BY <1>2
<1>4. first = 1
  <2>1. PICK T : T = telling
    OBVIOUS
  <2>2. 1 \in T /\ T \subseteq 1..(n + 1)
    BY ONLY <2>1, <1>3
  <2>3. \A u \in T : 1 <= u
    BY ONLY <2>2
  <2>4. PICK f : f = CHOOSE t \in T : \A u \in T : t <= u
    OBVIOUS
  <2>5. f \in T /\ \A u \in T : f <= u
    BY ONLY <2>2, <2>3, <2>4
  <2>6. f = 1
    BY ONLY <2>2, <2>5
  <2> QED
    BY ONLY <2>1, <2>4, <2>6
<1>5. rule = r
  <2>1. Hits(1) \subseteq Nat
    BY <1>1
  <2> HIDE DEF Hits, first
  <2>2. rule \in Hits(1) /\ \A q \in Hits(1) : rule <= q
    BY <1>2, <1>4
  <2>3. r \in Hits(1) /\ \A q \in Hits(1) : r <= q
    BY <1>2
  <2> HIDE DEF rule
  <2>4. rule \in Nat /\ r \in Nat /\ rule <= r /\ r <= rule
    BY <2>1, <2>2, <2>3
  <2> QED
    BY <2>4
<1>6. InferSubsystem(Unspecified, texts) = Rules[rule].subsystem
  <2>1. telling # {}
    BY <1>3
  <2> QED
    BY <2>1 DEF InferSubsystem
<1> QED
  BY <1>2, <1>5, <1>6

\* Texts that do not tell leave the subsystem open.
LEMMA SilentTexts ==
    ASSUME NEW texts,
           \A t \in DOMAIN texts : \A r \in DOMAIN Rules : Rules[r].word \notin texts[t]
    PROVE  InferSubsystem(Unspecified, texts) = Unspecified
<1>1. {t \in DOMAIN texts : {r \in DOMAIN Rules : Rules[r].word \in texts[t]} # {}} = {}
  OBVIOUS
<1> QED
  BY <1>1 DEF InferSubsystem

\* Without a subsystem in the context the first entry cited decides; without any
\* and without a telling hypothesis it stays open.
LEMMA InferredAffected ==
    ASSUME NEW d \in Diagnoses
    PROVE  /\ d.cited # << >> =>
                 InferSubsystem(Unspecified, Haystacks(d)) \in d.cited[1].subsystems
           /\ d.cited = << >> /\ (\A r \in DOMAIN Rules : Rules[r].word \notin d.hypothesis)
                 => InferSubsystem(Unspecified, Haystacks(d)) = Unspecified
<1>1. PICK n \in Nat : n = Len(d.cited)
  BY HaystacksAre
<1>2. PICK texts : texts = Haystacks(d)
  OBVIOUS
<1>3. /\ DOMAIN texts = 1..(n + 1) /\ texts[n + 1] = d.hypothesis
      /\ \A i \in 1..n : d.cited[i] \in Entries /\ texts[i] = d.cited[i].words
  BY <1>1, <1>2, HaystacksAre
<1>4. d.cited = << >> <=> n = 0
  <2>1. d.cited \in Seq(Entries)
    BY DEF Diagnoses
  <2> QED
    BY <1>1, <2>1
<1>5. ASSUME n # 0 PROVE InferSubsystem(Unspecified, texts) \in d.cited[1].subsystems
  <2>1. PICK e \in Entries : e = d.cited[1] /\ texts[1] = e.words
    BY <1>3, <1>5
  <2>2. InferSubsystem(Unspecified, texts) \in e.subsystems
    BY <1>3, <2>1, FirstTextDecides
  <2> QED
    BY <2>1, <2>2
<1>6. ASSUME n = 0, \A r \in DOMAIN Rules : Rules[r].word \notin d.hypothesis
      PROVE  InferSubsystem(Unspecified, texts) = Unspecified
  <2>1. DOMAIN texts = {1} /\ texts[1] = d.hypothesis
    BY <1>3, <1>6
  <2>2. \A t \in DOMAIN texts : \A r \in DOMAIN Rules : Rules[r].word \notin texts[t]
    BY <2>1, <1>6
  <2> QED
    BY <2>2, SilentTexts
<1> QED
  BY <1>2, <1>4, <1>5, <1>6

\* A higher score is no milder, in level and urgency.
NotMilder(x, y) ==
    /\ LevelRank[ScoreToLevel(x)] <= LevelRank[ScoreToLevel(y)]
    /\ UrgencyRank[SeverityToUrgency(ScoreToLevel(x))]
          <= UrgencyRank[SeverityToUrgency(ScoreToLevel(y))]

LEMMA LevelGrows ==
    ASSUME NEW x \in Int, NEW y \in Int, x <= y
    PROVE  NotMilder(x, y)
BY DEF NotMilder, ScoreToLevel, SeverityToUrgency, LevelRank, UrgencyRank

Clamped(x) == IF x < 0 THEN 0 ELSE IF x > 10000 THEN 10000 ELSE x
WeightOf(subsystem) == IF subsystem \in DOMAIN Weight THEN Weight[subsystem] ELSE DefaultWeight

LEMMA ModifierIs ==
    ASSUME NEW c \in Contexts
    PROVE  /\ ContextModifier(c) \in -10..15
           /\ ContextModifier([c EXCEPT !.comms_blackout = FALSE]) \in Int
           /\ ContextModifier([c EXCEPT !.comms_blackout = FALSE]) <= ContextModifier(c)
           /\ ContextModifier([c EXCEPT !.redundancy_available = TRUE]) \in Int
           /\ ContextModifier([c EXCEPT !.redundancy_available = TRUE]) <= ContextModifier(c)
BY DEF Contexts, ContextModifier

LEMMA ScoreIs ==
    ASSUME NEW confidence, NEW subsystem, NEW c
    PROVE  SeverityScore(confidence, subsystem, c)
              = Clamped(confidence * WeightOf(subsystem) + 100 * ContextModifier(c))
BY DEF SeverityScore, WeightOf, Clamped

LEMMA WeightIs == ASSUME NEW subsystem PROVE WeightOf(subsystem) \in 0..99
BY KnowledgeAssumption DEF WeightOf

AtMost(y, x) == y \in Int /\ x \in Int /\ y <= x

LEMMA ScoreMonotone ==
    ASSUME NEW confidence \in 0..100, NEW less \in 0..100, less <= confidence,
           NEW subsystem, NEW c, NEW d, AtMost(ContextModifier(d), ContextModifier(c))
    PROVE  AtMost(SeverityScore(less, subsystem, d), SeverityScore(confidence, subsystem, c))
<1>1. PICK m \in Int, l \in Int : m = ContextModifier(c) /\ l = ContextModifier(d) /\ l <= m
  BY DEF AtMost
<1>2. PICK w \in 0..99 : w = WeightOf(subsystem)
  BY WeightIs
<1>3. /\ SeverityScore(confidence, subsystem, c) = Clamped(confidence * w + 100 * m)
      /\ SeverityScore(less, subsystem, d) = Clamped(less * w + 100 * l)
  BY <1>1, <1>2, ScoreIs
<1>4. less * w <= confidence * w /\ less * w \in Nat /\ confidence * w \in Nat
  BY TimesMonotone
<1> QED
  BY <1>1, <1>2, <1>3, <1>4 DEF Clamped, AtMost

\* Below this score there is no emergency.
BelowEmergency(x) == x \in Int /\ x < 8500

LEMMA ScoreModest ==
    ASSUME NEW confidence \in 0..70, NEW subsystem, NEW c, AtMost(ContextModifier(c), 15)
    PROVE  BelowEmergency(SeverityScore(confidence, subsystem, c))
<1>1. PICK m \in Int : m = ContextModifier(c) /\ m <= 15
  BY DEF AtMost
<1>2. PICK w \in 0..99 : w = WeightOf(subsystem)
  BY WeightIs
<1>3. SeverityScore(confidence, subsystem, c) = Clamped(confidence * w + 100 * m)
  BY <1>1, <1>2, ScoreIs
<1>4. confidence * w <= 70 * w /\ confidence * w \in Nat
  BY TimesMonotone
<1>5. 70 * w <= 6930
  OBVIOUS
<1> QED
  BY <1>1, <1>3, <1>4, <1>5 DEF Clamped, BelowEmergency

LEMMA AssessmentIs ==
    ASSUME NEW d, NEW c, NEW s, s = InferSubsystem(c.subsystem, Haystacks(d)),
           NEW a, a = Assessment(d, c)
    PROVE  /\ a.subsystem = s
           /\ a.level = ScoreToLevel(SeverityScore(d.confidence, s, c))
           /\ a.urgency = SeverityToUrgency(ScoreToLevel(SeverityScore(d.confidence, s, c)))
BY DEF Assessment

NoGraver(a, b) ==
    /\ LevelRank[a.level] <= LevelRank[b.level]
    /\ UrgencyRank[a.urgency] <= UrgencyRank[b.urgency]

(* With no more confidence, in a context that adds no more, the same diagnosis is *)
(* assessed no graver.                                                            *)
LEMMA AssessmentGrows ==
    ASSUME NEW d, NEW g, NEW k, NEW c,
           d.cited = g.cited, d.hypothesis = g.hypothesis,
           d.confidence \in 0..100, g.confidence \in 0..100, d.confidence <= g.confidence,
           k.subsystem = c.subsystem, ContextModifier(k) \in Int, ContextModifier(c) \in Int,
           ContextModifier(k) <= ContextModifier(c)
    PROVE  NoGraver(Assessment(d, k), Assessment(g, c))
<1>1. PICK sub : sub = InferSubsystem(c.subsystem, Haystacks(g))
  OBVIOUS
<1>2. sub = InferSubsystem(k.subsystem, Haystacks(d))
  <2>1. Haystacks(d) = Haystacks(g)
    BY DEF Haystacks
  <2> QED
    BY <1>1, <2>1
<1>3. PICK x, y : /\ x = SeverityScore(g.confidence, sub, c)
                  /\ y = SeverityScore(d.confidence, sub, k)
  OBVIOUS
<1>4. y \in Int /\ x \in Int /\ y <= x
  <2>1. AtMost(ContextModifier(k), ContextModifier(c))
    BY DEF AtMost
  <2>2. AtMost(SeverityScore(d.confidence, sub, k), SeverityScore(g.confidence, sub, c))
    BY <2>1, ScoreMonotone
  <2> QED
    BY <1>3, <2>2 DEF AtMost
<1>5. NotMilder(y, x)
  BY <1>4, LevelGrows
<1>6. PICK a, b : a = Assessment(d, k) /\ b = Assessment(g, c)
  OBVIOUS
<1>7. a.level = ScoreToLevel(y) /\ a.urgency = SeverityToUrgency(ScoreToLevel(y))
  BY <1>2, <1>3, <1>6, AssessmentIs
<1>8. b.level = ScoreToLevel(x) /\ b.urgency = SeverityToUrgency(ScoreToLevel(x))
  BY <1>1, <1>3, <1>6, AssessmentIs
<1> QED
  BY <1>5, <1>6, <1>7, <1>8 DEF NotMilder, NoGraver

LEMMA SoundFromInv == CitedInv => SeveritySound
<1> SUFFICES ASSUME CitedInv, diagnosis # NoDiagnosis PROVE SeveritySound
  BY DEF SeveritySound
<1> DEFINE Silent(text) == \A r \in DOMAIN Rules : Rules[r].word \notin text
           Sound(c, severity) ==
              /\ c.subsystem = Unspecified /\ diagnosis.cited # << >> =>
                    severity.subsystem \in diagnosis.cited[1].subsystems
              /\ c.subsystem = Unspecified /\ diagnosis.cited = << >>
                 /\ Silent(diagnosis.hypothesis) => severity.subsystem = Unspecified
              /\ \A less \in {n \in Confidences : n < diagnosis.confidence} :
                    NoGraver(Assessment([diagnosis EXCEPT !.confidence = less], c), severity)
              /\ NoGraver(Assessment(diagnosis, [c EXCEPT !.comms_blackout = FALSE]),
                          severity)
              /\ NoGraver(Assessment(diagnosis, [c EXCEPT !.redundancy_available = TRUE]),
                          severity)
              /\ diagnosis.confidence <= 70 => severity.level # "emergency"
<1> SUFFICES ASSUME NEW c \in Contexts PROVE Sound(c, Assessment(diagnosis, c))
  BY DEF SeveritySound, NoGraver
<1> HIDE DEF Sound, Silent
<1>1. diagnosis \in Diagnoses
  BY DEF CitedInv
<1>2. PICK severity : severity = Assessment(diagnosis, c)
  OBVIOUS
<1>3. PICK sub : sub = InferSubsystem(c.subsystem, Haystacks(diagnosis))
  OBVIOUS
<1>4. PICK x : x = SeverityScore(diagnosis.confidence, sub, c)
  OBVIOUS
<1>5. /\ severity.subsystem = sub /\ severity.level = ScoreToLevel(x)
      /\ severity.urgency = SeverityToUrgency(ScoreToLevel(x))
  BY <1>2, <1>3, <1>4, AssessmentIs
<1>6. /\ diagnosis.confidence \in 0..100
      /\ Confidences \subseteq 0..100
  BY <1>1, KnowledgeAssumption DEF Diagnoses
<1>7. /\ ContextModifier(c) \in Int /\ ContextModifier(c) <= 15
      /\ ContextModifier([c EXCEPT !.comms_blackout = FALSE]) \in Int
      /\ ContextModifier([c EXCEPT !.comms_blackout = FALSE]) <= ContextModifier(c)
      /\ ContextModifier([c EXCEPT !.redundancy_available = TRUE]) \in Int
      /\ ContextModifier([c EXCEPT !.redundancy_available = TRUE]) <= ContextModifier(c)
  <2>1. PICK m : m = ContextModifier(c)
    OBVIOUS
  <2>2. m \in -10..15
    BY <2>1, ModifierIs
  <2>3. m \in Int /\ m <= 15
    BY <2>2
  <2> QED
    BY <2>1, <2>3, ModifierIs
<1>8. /\ c.subsystem = Unspecified /\ diagnosis.cited # << >> =>
            severity.subsystem \in diagnosis.cited[1].subsystems
      /\ c.subsystem = Unspecified /\ diagnosis.cited = << >>
         /\ Silent(diagnosis.hypothesis) => severity.subsystem = Unspecified
  BY <1>1, <1>3, <1>5, InferredAffected DEF Silent
<1>9. ASSUME NEW less \in Confidences, less < diagnosis.confidence
      PROVE  NoGraver(Assessment([diagnosis EXCEPT !.confidence = less], c), severity)
  <2>1. PICK d : d = [diagnosis EXCEPT !.confidence = less]
    OBVIOUS
  <2>2. /\ d.cited = diagnosis.cited /\ d.hypothesis = diagnosis.hypothesis
        /\ d.confidence = less
    BY <2>1, <1>1 DEF Diagnoses
  <2>3. d.confidence \in 0..100 /\ d.confidence <= diagnosis.confidence
    BY <2>2, <1>6, <1>9
  <2>4. NoGraver(Assessment(d, c), Assessment(diagnosis, c))
    BY ONLY <2>2, <2>3, <1>6, <1>7, AssessmentGrows
  <2> QED
    BY <2>1, <2>4, <1>2
<1>10. NoGraver(Assessment(diagnosis, [c EXCEPT !.comms_blackout = FALSE]), severity)
  <2>1. PICK k : k = [c EXCEPT !.comms_blackout = FALSE]
    OBVIOUS
  <2>2. k.subsystem = c.subsystem
    BY <2>1 DEF Contexts
  <2>3. ContextModifier(k) \in Int /\ ContextModifier(k) <= ContextModifier(c)
    BY <2>1, <1>7
  <2>4. diagnosis.confidence <= diagnosis.confidence
    BY <1>6
  <2>5. NoGraver(Assessment(diagnosis, k), Assessment(diagnosis, c))
    BY ONLY <2>2, <2>3, <2>4, <1>6, <1>7, AssessmentGrows
  <2> QED
    BY <2>1, <2>5, <1>2
<1>11. NoGraver(Assessment(diagnosis, [c EXCEPT !.redundancy_available = TRUE]), severity)
  <2>1. PICK k : k = [c EXCEPT !.redundancy_available = TRUE]
    OBVIOUS
  <2>2. k.subsystem = c.subsystem
    BY <2>1 DEF Contexts
  <2>3. ContextModifier(k) \in Int /\ ContextModifier(k) <= ContextModifier(c)
    BY <2>1, <1>7
  <2>4. diagnosis.confidence <= diagnosis.confidence
    BY <1>6
  <2>5. NoGraver(Assessment(diagnosis, k), Assessment(diagnosis, c))
    BY ONLY <2>2, <2>3, <2>4, <1>6, <1>7, AssessmentGrows
  <2> QED
    BY <2>1, <2>5, <1>2
<1>12. diagnosis.confidence <= 70 => severity.level # "emergency"
  <2>1. ASSUME diagnosis.confidence <= 70 PROVE x < 8500 /\ x \in Int
    <3>1. diagnosis.confidence \in 0..70 /\ AtMost(ContextModifier(c), 15)
      BY <2>1, <1>6, <1>7 DEF AtMost
    <3>2. BelowEmergency(SeverityScore(diagnosis.confidence, sub, c))
      BY <3>1, ScoreModest
    <3> QED
      BY <1>4, <3>2 DEF BelowEmergency
  <2> QED
    BY <2>1, <1>5 DEF ScoreToLevel
<1> QED
  BY <1>2, <1>8, <1>9, <1>10, <1>11, <1>12 DEF Sound

-----------------------------------------------------------------------------
(* The theorems.                                                           *)

LEMMA Invariants == Spec => [](RankInv /\ CitedInv)
<1>1. Init => RankInv /\ CitedInv
  BY RankInit, CitedInit
<1>2. RankInv /\ CitedInv /\ [Next]_vars => RankInv' /\ CitedInv'
  BY RankNext, CitedNext
<1> QED
  BY <1>1, <1>2, PTL DEF Spec

\* A ranking holds each entry once, the better scored first; a further symptom
\* lowers no score, and all primary signatures of one entry outweigh whatever
\* else is met of an entry none of whose primary signatures is.
THEOREM FairCorrect == Spec => []RankingFair
<1> QED
  BY Invariants, FairFromInv, PTL

\* If the entries of the knowledge base can be told apart, a ranking is also led
\* by what was reported.
THEOREM RankingCorrect ==
    ASSUME EntriesTellApart
    PROVE  Spec => []RankingSound
<1>1. RankInv => RankingSound
  BY FairFromInv, LeadFromInv DEF RankingSound
<1> QED
  BY <1>1, Invariants, PTL

\* Of any number of entries cited the first decides on the subsystem, and the
\* severity follows confidence and context; without confidence there is no emergency.
THEOREM SeverityCorrect == Spec => []SeveritySound
<1> QED
  BY Invariants, SoundFromInv, PTL
=============================================================================
