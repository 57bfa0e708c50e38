--------------------------- MODULE SelectionProofs ---------------------------
(***************************************************************************)
(* What Ascending and Pick return, and the least-number principle stated   *)
(* for a set, which is how these proofs reason by induction: the least     *)
(* counterexample is taken to a smaller one.                               *)
(***************************************************************************)
EXTENDS Selection, FiniteSetTheorems, FunctionTheorems, SequenceTheorems, TLAPS

\* A set of natural numbers that is not empty has a least element.
LEMMA LeastNumber ==
    ASSUME NEW T \in SUBSET Nat, T # {}
    PROVE  \E x \in T : \A y \in T : x <= y
<1> DEFINE R == OpToRel(<, Nat)
<1>1. IsWellFoundedOn(R, Nat)
  BY NatLessThanWellFounded
<1>2. \A y, x \in Nat : y < x => <<y, x>> \in R
  BY DEF OpToRel
<1> HIDE DEF R
<1>3. \E x \in T : \A y \in T : ~ (<<y, x>> \in R)
  BY <1>1, WFMin
<1>4. PICK x \in T : \A y \in T : ~ (<<y, x>> \in R)
  BY <1>3
<1>5. ASSUME NEW y \in T
      PROVE  x <= y
  <2>1. ~(y < x)
    BY <1>4, <1>2
  <2> QED BY <2>1
<1> QED BY <1>5

\* Induction up to n, for a set: what holds of 0, and goes on from each number to
\* the next.
LEMMA AllUpto ==
    ASSUME NEW n \in Nat, NEW S, 0 \in S, \A k \in 1..n : k - 1 \in S => k \in S
    PROVE  \A k \in 0..n : k \in S
<1> DEFINE B == {k \in 0..n : k \notin S}
<1> SUFFICES ASSUME B # {}
             PROVE  FALSE
  OBVIOUS
<1>1. PICK b \in B : \A k \in B : b <= k
  <2>1. B \in SUBSET Nat
    OBVIOUS
  <2> HIDE DEF B
  <2> QED BY <2>1, LeastNumber
<1>2. b \in 0..n /\ b \notin S
  OBVIOUS
<1>3. b \in 1..n /\ b - 1 \in 0..n /\ ~(b <= b - 1)
  BY <1>2
<1>4. b - 1 \in S
  <2>1. b - 1 \notin B
    <3> HIDE DEF B
    <3> QED BY <1>1, <1>3
  <2> QED BY <1>3, <2>1
<1> QED BY <1>2, <1>3, <1>4

\* n steps, each from what the one before made of it.
Iterates(A, a, n, step, g) ==
    g \in [0..n -> A] /\ g[0] = a /\ \A k \in 1..n : g[k] = step[k][g[k-1]]

LEMMA IterationExists ==
    ASSUME NEW A, NEW a \in A, NEW n \in Nat, NEW step \in [1..n -> [A -> A]]
    PROVE  \E g : Iterates(A, a, n, step, g)
<1> DEFINE S == {k \in 0..n : \E g : Iterates(A, a, k, step, g)}
<1>1. 0 \in S
  <2> DEFINE g == [i \in 0..0 |-> a]
  <2>1. g \in [0..0 -> A] /\ g[0] = a
    OBVIOUS
  <2> HIDE DEF g
  <2>2. Iterates(A, a, 0, step, g)
    BY <2>1 DEF Iterates
  <2> QED BY <2>2
<1>2. ASSUME NEW b \in 1..n, b - 1 \in S
      PROVE  b \in S
  <2>1. PICK g : Iterates(A, a, b - 1, step, g)
    BY <1>2
  <2>2. g \in [0..b-1 -> A] /\ g[0] = a /\ \A k \in 1..b-1 : g[k] = step[k][g[k-1]]
    BY <2>1 DEF Iterates
  <2>3. step[b] \in [A -> A] /\ g[b-1] \in A
    BY <2>2
  <2> DEFINE z == step[b][g[b-1]]
             f == [i \in 0..b |-> IF i = b THEN z ELSE g[i]]
  <2>4. z \in A
    BY <2>3
  <2>5. f \in [0..b -> A] /\ f[b] = z /\ \A i \in 0..b-1 : f[i] = g[i]
    <3> HIDE DEF z
    <3>1. \A i \in 0..b : i = b \/ i \in 0..b-1
      OBVIOUS
    <3> QED BY <2>2, <2>4, <3>1
  <2>8. z = step[b][g[b-1]]
    OBVIOUS
  <2> HIDE DEF f, z
  <2>6. f[0] = a
    BY <2>2, <2>5
  <2>7. ASSUME NEW k \in 1..b
        PROVE  f[k] = step[k][f[k-1]]
    <3>1. k - 1 \in 0..b-1
      OBVIOUS
    <3>2. f[k-1] = g[k-1]
      BY <2>5, <3>1
    <3>3. CASE k = b
      BY <2>5, <2>8, <3>2, <3>3
    <3>4. CASE k \in 1..b-1
      <4>1. k \in 0..b-1
        BY <3>4
      <4> QED BY <2>2, <2>5, <3>2, <3>4, <4>1
    <3> QED BY <3>3, <3>4
  <2>9. Iterates(A, a, b, step, f)
    BY <2>5, <2>6, <2>7 DEF Iterates
  <2> QED BY <2>9
<1> HIDE DEF S
<1>3. \A k \in 1..n : k - 1 \in S => k \in S
  BY <1>2
<1>4. \A k \in 0..n : k \in S
  BY <1>1, <1>3, AllUpto
<1>5. n \in S
  BY <1>4
<1> QED BY <1>5 DEF S

Rank(S, x) == Cardinality({y \in S : y < x})

LEMMA RankIs ==
    ASSUME NEW S \in SUBSET Nat, IsFiniteSet(S)
    PROVE  /\ Cardinality(S) \in Nat
           /\ \A x \in S : Rank(S, x) \in 0..Cardinality(S)-1
           /\ \A x, z \in S : x < z => Rank(S, x) < Rank(S, z)
<1> DEFINE below(x) == {y \in S : y < x}
<1>1. Cardinality(S) \in Nat /\ \A x \in S : x \in Nat
  BY FS_CardinalityType
<1>2. \A x : Rank(S, x) = Cardinality(below(x))
  BY DEF Rank
<1>3. \A x : below(x) \in SUBSET S
  OBVIOUS
<1>4. ASSUME NEW x \in S, NEW z \in S, x < z
      PROVE  below(x) \in SUBSET below(z) /\ x \in below(z)
  <2>1. \A y \in S : y < x => y < z
    BY <1>1, <1>4
  <2> QED BY <2>1, <1>4
<1>5. ASSUME NEW x \in S
      PROVE  x \notin below(x)
  <2>1. x \in Nat /\ ~(x < x)
    BY <1>1
  <2> QED BY <2>1
<1> HIDE DEF below
<1>6. \A x : IsFiniteSet(below(x)) /\ Cardinality(below(x)) \in Nat
  BY <1>3, FS_Subset, FS_CardinalityType
<1>7. ASSUME NEW x \in S
      PROVE  Rank(S, x) \in 0..Cardinality(S)-1
  <2>1. below(x) # S
    BY <1>5
  <2>2. Cardinality(below(x)) <= Cardinality(S) /\ Cardinality(S) # Cardinality(below(x))
    BY <2>1, <1>3, FS_Subset
  <2> QED BY <2>2, <1>1, <1>2, <1>6
<1>8. ASSUME NEW x \in S, NEW z \in S, x < z
      PROVE  Rank(S, x) < Rank(S, z)
  <2>1. below(x) \in SUBSET below(z) /\ below(x) # below(z)
    BY <1>4, <1>5, <1>8
  <2>2. /\ Cardinality(below(x)) <= Cardinality(below(z))
        /\ Cardinality(below(z)) # Cardinality(below(x))
    BY <2>1, <1>6, FS_Subset
  <2> QED BY <2>2, <1>2, <1>6
<1> QED BY <1>1, <1>7, <1>8

LEMMA RankOnto ==
    ASSUME NEW S \in SUBSET Nat, IsFiniteSet(S), NEW k \in 1..Cardinality(S)
    PROVE  \E x \in S : Rank(S, x) = k - 1
<1> DEFINE f == [x \in S |-> Rank(S, x)]
           T == 0..Cardinality(S)-1
<1>1. Cardinality(S) \in Nat
  BY RankIs
<1>2. f \in [S -> T]
  BY RankIs
<1>3. \A x, z \in S : f[x] = f[z] => x = z
  BY RankIs
<1>4. IsFiniteSet(T) /\ Cardinality(T) = Cardinality(S)
  <2>1. 0 \in Int /\ Cardinality(S)-1 \in Int
    BY <1>1
  <2> QED BY <2>1, <1>1, FS_Interval
<1>5. f \in Injection(S, T)
  BY <1>2, <1>3, Fun_IsInj
<1>6. f \in Surjection(S, T)
  <2> HIDE DEF f, T
  <2> QED BY <1>4, <1>5, FS_Injection
<1>7. k - 1 \in T
  BY <1>1
<1>8. \E x \in S : f[x] = k - 1
  <2> HIDE DEF f, T
  <2> QED BY <1>6, <1>7, Fun_SurjectionProperties
<1> QED BY <1>8

\* Ascending(S) is strictly increasing and has exactly the elements of S.
LEMMA AscendingIs ==
    ASSUME NEW S \in SUBSET Nat, IsFiniteSet(S)
    PROVE  /\ Cardinality(S) \in Nat
           /\ Ascending(S) \in Seq(S)
           /\ Len(Ascending(S)) = Cardinality(S)
           /\ DOMAIN Ascending(S) = 1..Cardinality(S)
           /\ \A k \in 1..Cardinality(S) :
                 Ascending(S)[k] \in S /\ Rank(S, Ascending(S)[k]) = k - 1
           /\ \A x \in S : \E k \in 1..Cardinality(S) : Ascending(S)[k] = x
           /\ \A j, k \in 1..Cardinality(S) : j < k => Ascending(S)[j] < Ascending(S)[k]
<1> DEFINE c == Cardinality(S)
           a == Ascending(S)
<1>1. c \in Nat
  BY RankIs
<1>2. a = [k \in 1..c |-> CHOOSE x \in S : Rank(S, x) = k - 1]
  BY DEF Ascending, Rank
<1> HIDE DEF c, a
<1>3. ASSUME NEW k \in 1..c
      PROVE  a[k] \in S /\ Rank(S, a[k]) = k - 1
  <2>1. a[k] = CHOOSE x \in S : Rank(S, x) = k - 1
    BY <1>2
  <2>2. \E x \in S : Rank(S, x) = k - 1
    BY RankOnto DEF c
  <2> QED BY <2>1, <2>2
<1>4. a \in [1..c -> S]
  BY <1>2, <1>3
<1>5. a \in Seq(S) /\ Len(a) = c /\ DOMAIN a = 1..c
  BY <1>1, <1>4
<1>6. ASSUME NEW x \in S
      PROVE  \E k \in 1..c : a[k] = x
  <2>1. Rank(S, x) \in 0..c-1
    BY RankIs DEF c
  <2>2. Rank(S, x) + 1 \in 1..c /\ (Rank(S, x) + 1) - 1 = Rank(S, x)
    BY <2>1, <1>1
  <2>3. PICK k \in 1..c : k - 1 = Rank(S, x)
    BY <2>2
  <2>4. a[k] \in S /\ Rank(S, a[k]) = Rank(S, x)
    BY <1>3, <2>3
  <2>5. ~(Rank(S, a[k]) < Rank(S, x)) /\ ~(Rank(S, x) < Rank(S, a[k]))
    <3>1. Rank(S, x) \in Int
      BY <2>1, <1>1
    <3> QED BY <2>4, <3>1
  <2>6. ~(a[k] < x) /\ ~(x < a[k])
    BY <2>4, <2>5, RankIs
  <2>7. a[k] \in Nat /\ x \in Nat
    BY <2>4
  <2> QED BY <2>6, <2>7
<1>7. ASSUME NEW j \in 1..c, NEW k \in 1..c, j < k
      PROVE  a[j] < a[k]
  <2>1. a[j] \in S /\ a[k] \in S /\ Rank(S, a[j]) = j - 1 /\ Rank(S, a[k]) = k - 1
    BY <1>3
  <2>2. a[j] # a[k]
    BY <2>1, <1>7
  <2>3. ~(a[k] < a[j])
    <3>1. a[k] < a[j] => k - 1 < j - 1
      BY <2>1, RankIs
    <3> QED BY <3>1, <1>7
  <2>4. a[j] \in Nat /\ a[k] \in Nat
    BY <2>1
  <2> QED BY <2>2, <2>3, <2>4
<1> QED BY <1>1, <1>3, <1>5, <1>6, <1>7 DEF a, c

\* Numbers are told apart by their ranks.
LEMMA AtRank ==
    ASSUME NEW S \in SUBSET Nat, IsFiniteSet(S), NEW k \in 1..Cardinality(S),
           NEW x \in S, Rank(S, x) = k - 1
    PROVE  Ascending(S)[k] = x
<1>1. PICK j \in 1..Cardinality(S) : Ascending(S)[j] = x
  BY AscendingIs
<1>2. Rank(S, x) = j - 1
  BY <1>1, AscendingIs
<1>3. j = k
  BY <1>2, AscendingIs
<1> QED BY <1>1, <1>3

\* The least elements of T come first, whatever follows.
LEMMA AscendingInitial ==
    ASSUME NEW T \in SUBSET Nat, IsFiniteSet(T), NEW S \in SUBSET T,
           \A x \in S : \A y \in T \ S : x < y
    PROVE  /\ IsFiniteSet(S) /\ Cardinality(S) \in Nat /\ Cardinality(T) \in Nat
           /\ Cardinality(S) <= Cardinality(T)
           /\ \A k \in 1..Cardinality(S) : Ascending(S)[k] = Ascending(T)[k]
<1>1. IsFiniteSet(S) /\ Cardinality(S) <= Cardinality(T)
  BY FS_Subset
<1>2. Cardinality(S) \in Nat /\ Cardinality(T) \in Nat
  BY <1>1, FS_CardinalityType
<1>3. ASSUME NEW k \in 1..Cardinality(S)
      PROVE  Ascending(S)[k] = Ascending(T)[k]
  <2> DEFINE x == Ascending(S)[k]
  <2>1. x \in S /\ Rank(S, x) = k - 1
    BY <1>1, AscendingIs
  <2>2. {y \in S : y < x} = {y \in T : y < x}
    <3> HIDE DEF x
    <3>1. x \in Nat /\ \A y \in T : y \in Nat
      BY <2>1
    <3>2. \A y \in T \ S : x < y
      BY <2>1
    <3>3. ASSUME NEW y \in T, y < x
          PROVE  y \in S
      BY <3>1, <3>2, <3>3
    <3> QED BY <3>3
  <2>3. Rank(T, x) = k - 1
    BY <2>1, <2>2 DEF Rank
  <2>4. k \in 1..Cardinality(T)
    BY <1>1, <1>2
  <2>5. x \in T /\ T \in SUBSET Nat
    BY <2>1
  <2> HIDE DEF x
  <2>6. Ascending(T)[k] = x
    BY <2>3, <2>4, <2>5, AtRank
  <2> QED BY <2>6 DEF x
<1> QED BY <1>1, <1>2, <1>3

LEMMA AscendingEmpty == Cardinality({}) = 0 /\ Ascending({}) = <<>>
<1>1. Cardinality({}) = 0
  BY FS_EmptySet
<1> QED BY <1>1 DEF Ascending

\* A number above all others comes last.
LEMMA AscendingAppend ==
    ASSUME NEW S \in SUBSET Nat, IsFiniteSet(S), NEW x \in Nat, \A y \in S : y < x
    PROVE  /\ IsFiniteSet(S \cup {x})
           /\ Cardinality(S \cup {x}) = Cardinality(S) + 1
           /\ Ascending(S \cup {x}) = Append(Ascending(S), x)
<1> DEFINE T == S \cup {x}
           c == Cardinality(S)
<1>1. x \notin S
  OBVIOUS
<1>2. IsFiniteSet(T) /\ Cardinality(T) = c + 1 /\ c \in Nat
  BY <1>1, FS_AddElement, FS_CardinalityType
<1>3. T \in SUBSET Nat /\ S \in SUBSET T /\ x \in T /\ \A z \in S : \A y \in T \ S : z < y
  OBVIOUS
<1>4. \A k \in 1..c : Ascending(S)[k] = Ascending(T)[k]
  <2> HIDE DEF T
  <2> QED BY <1>2, <1>3, AscendingInitial
<1>5. {y \in T : y < x} = S
  <2>1. ~(x < x)
    OBVIOUS
  <2> QED BY <2>1
<1> HIDE DEF T
<1>6. Ascending(T)[c + 1] = x
  <2> HIDE DEF c
  <2>1. Rank(T, x) = Cardinality(S)
    BY <1>5 DEF Rank
  <2>2. Rank(T, x) = (c + 1) - 1 /\ c + 1 \in 1..Cardinality(T)
    BY <2>1, <1>2 DEF c
  <2> QED BY <2>2, <1>2, <1>3, AtRank
<1>7. Ascending(T) \in Seq(Nat) /\ Len(Ascending(T)) = c + 1
  <2>1. Ascending(T) \in Seq(T) /\ Len(Ascending(T)) = c + 1
    BY <1>2, <1>3, AscendingIs
  <2> QED BY <2>1, <1>3, SeqMonotonic
<1>8. Ascending(S) \in Seq(Nat) /\ Len(Ascending(S)) = c
  <2>1. Ascending(S) \in Seq(S) /\ Len(Ascending(S)) = c
    BY AscendingIs
  <2> QED BY <2>1, SeqMonotonic
<1> HIDE DEF c
<1>9. Ascending(T) = Append(Ascending(S), x)
  <2> DEFINE u == Ascending(T)
             v == Append(Ascending(S), x)
  <2>1. v \in Seq(Nat) /\ Len(v) = c + 1
    BY <1>8
  <2>2. \A k \in 1..c+1 : u[k] = v[k]
    BY <1>2, <1>4, <1>6, <1>8
  <2> HIDE DEF u, v
  <2>3. Len(u) = c + 1 /\ u \in Seq(Nat)
    BY <1>7 DEF u
  <2> QED BY <2>1, <2>2, <2>3, SeqEqual DEF u, v
<1> QED BY <1>2, <1>9 DEF T, c

\* The whole of an interval.
LEMMA AscendingAll ==
    ASSUME NEW m \in Nat
    PROVE  IsFiniteSet(1..m) /\ Cardinality(1..m) = m /\ Ascending(1..m) = [k \in 1..m |-> k]
<1>1. IsFiniteSet(1..m) /\ Cardinality(1..m) = m
  BY FS_Interval
<1>2. ASSUME NEW k \in 1..m
      PROVE  Ascending(1..m)[k] = k
  <2>1. {y \in 1..m : y < k} = 1..k-1
    OBVIOUS
  <2>2. Cardinality(1..k-1) = k - 1
    BY FS_Interval
  <2>3. Rank(1..m, k) = k - 1
    BY <2>1, <2>2 DEF Rank
  <2> QED BY <2>3, <1>1, AtRank
<1>3. Ascending(1..m) \in Seq(1..m) /\ DOMAIN Ascending(1..m) = 1..m
  BY <1>1, AscendingIs
<1> QED BY <1>1, <1>2, <1>3

LEMMA Bounded ==
    ASSUME NEW m \in Nat, NEW S \in SUBSET (1..m)
    PROVE  S \in SUBSET Nat /\ IsFiniteSet(S) /\ Cardinality(S) \in 0..m
<1>1. IsFiniteSet(1..m) /\ Cardinality(1..m) = m
  BY AscendingAll
<1>2. IsFiniteSet(S) /\ Cardinality(S) <= m
  BY <1>1, FS_Subset
<1>3. Cardinality(S) \in Nat
  BY <1>2, FS_CardinalityType
<1> QED BY <1>2, <1>3

\* Pick keeps elements of s, in the order of their places.
LEMMA PickIs ==
    ASSUME NEW A, NEW s \in Seq(A), NEW S \in SUBSET (1..Len(s))
    PROVE  /\ IsFiniteSet(S) /\ Cardinality(S) \in 0..Len(s)
           /\ Pick(s, S) \in Seq(A)
           /\ Len(Pick(s, S)) = Cardinality(S)
           /\ \A k \in 1..Cardinality(S) :
                 Ascending(S)[k] \in S /\ Pick(s, S)[k] = s[Ascending(S)[k]]
<1>0. Len(s) \in Nat
  OBVIOUS
<1>2. IsFiniteSet(1..Len(s)) /\ Cardinality(1..Len(s)) = Len(s)
  BY <1>0, AscendingAll
<1>1. IsFiniteSet(S) /\ Cardinality(S) <= Cardinality(1..Len(s))
  BY <1>2, FS_Subset
<1>3. S \in SUBSET Nat
  OBVIOUS
<1>4. /\ Len(Ascending(S)) = Cardinality(S) /\ Cardinality(S) \in Nat
      /\ \A k \in 1..Cardinality(S) : Ascending(S)[k] \in S
  BY <1>1, <1>3, AscendingIs
<1> DEFINE p == Pick(s, S)
           c == Cardinality(S)
<1>5. p = [k \in 1..c |-> s[Ascending(S)[k]]]
  BY <1>4 DEF Pick
<1>6. \A k \in 1..c : s[Ascending(S)[k]] \in A
  BY <1>4, ElementOfSeq
<1> HIDE DEF p, c
<1>7. p \in [1..c -> A] /\ c \in Nat
  BY <1>4, <1>5, <1>6 DEF c
<1> QED BY <1>1, <1>2, <1>4, <1>5, <1>7 DEF p, c

LEMMA PickAll ==
    ASSUME NEW A, NEW s \in Seq(A)
    PROVE  Pick(s, 1..Len(s)) = s
<1> DEFINE p == Pick(s, 1..Len(s))
           D == 1..Len(s)
<1>0. Len(s) \in Nat /\ D \in SUBSET (1..Len(s))
  OBVIOUS
<1>3. Cardinality(D) = Len(s) /\ \A k \in 1..Len(s) : Ascending(D)[k] = k
  BY <1>0, AscendingAll
<1>4. Pick(s, D) \in Seq(A) /\ Len(Pick(s, D)) = Cardinality(D)
      /\ \A k \in 1..Cardinality(D) : Pick(s, D)[k] = s[Ascending(D)[k]]
  <2> HIDE DEF D
  <2> QED BY <1>0, PickIs
<1>1. p \in Seq(A) /\ Len(p) = Len(s)
  BY <1>3, <1>4
<1>2. \A k \in 1..Len(s) : p[k] = s[k]
  BY <1>3, <1>4
<1> HIDE DEF p
<1>5. p = s
  BY <1>1, <1>2, SeqEqual
<1> QED BY <1>5 DEF p

----------------------------------------------------------------------------
(* A strict total order of finitely many things gives each a place.         *)

Orders(D, R) ==
    /\ \A x \in D : <<x, x>> \notin R
    /\ \A x, y, z \in D : <<x, y>> \in R /\ <<y, z>> \in R => <<x, z>> \in R
    /\ \A x, y \in D : x = y \/ <<x, y>> \in R \/ <<y, x>> \in R

PlaceIn(D, R, x) == Cardinality({y \in D : <<y, x>> \in R})

LEMMA PlaceIs ==
    ASSUME NEW D, IsFiniteSet(D), NEW R, Orders(D, R)
    PROVE  /\ Cardinality(D) \in Nat
           /\ \A x \in D : PlaceIn(D, R, x) \in 0..Cardinality(D)-1
           /\ \A x, z \in D : <<x, z>> \in R => PlaceIn(D, R, x) < PlaceIn(D, R, z)
           /\ \A x, z \in D : PlaceIn(D, R, x) = PlaceIn(D, R, z) => x = z
           /\ \A k \in 1..Cardinality(D) : \E x \in D : PlaceIn(D, R, x) = k - 1
<1> DEFINE before(x) == {y \in D : <<y, x>> \in R}
           n == Cardinality(D)
<1>1. n \in Nat
  BY FS_CardinalityType
<1>2. \A x : PlaceIn(D, R, x) = Cardinality(before(x))
  BY DEF PlaceIn
<1>3. \A x : before(x) \in SUBSET D
  OBVIOUS
<1>4. \A x \in D : x \notin before(x)
  BY DEF Orders
<1>5. \A x, z \in D : <<x, z>> \in R => before(x) \in SUBSET before(z) /\ x \in before(z)
  BY DEF Orders
<1> HIDE DEF before
<1>6. \A x : IsFiniteSet(before(x)) /\ Cardinality(before(x)) \in Nat
  BY <1>3, FS_Subset, FS_CardinalityType
<1>7. ASSUME NEW x \in D
      PROVE  PlaceIn(D, R, x) \in 0..n-1
  <2>1. before(x) # D
    BY <1>4
  <2>2. Cardinality(before(x)) <= n /\ n # Cardinality(before(x))
    BY <2>1, <1>3, FS_Subset
  <2> QED BY <2>2, <1>1, <1>2, <1>6
<1>8. ASSUME NEW x \in D, NEW z \in D, <<x, z>> \in R
      PROVE  PlaceIn(D, R, x) < PlaceIn(D, R, z)
  <2>1. before(x) \in SUBSET before(z) /\ before(x) # before(z)
    BY <1>4, <1>5, <1>8
  <2>2. /\ Cardinality(before(x)) <= Cardinality(before(z))
        /\ Cardinality(before(z)) # Cardinality(before(x))
    BY <2>1, <1>6, FS_Subset
  <2> QED BY <2>2, <1>2, <1>6
<1>9. ASSUME NEW x \in D, NEW z \in D, PlaceIn(D, R, x) = PlaceIn(D, R, z)
      PROVE  x = z
  <2>1. PlaceIn(D, R, x) \in Nat /\ PlaceIn(D, R, z) \in Nat
    BY <1>1, <1>7
  <2>2. <<x, z>> \notin R /\ <<z, x>> \notin R
    BY <1>8, <1>9, <2>1
  <2> QED BY <2>2 DEF Orders
<1> DEFINE f == [x \in D |-> PlaceIn(D, R, x)]
           T == 0..n-1
<1>10. f \in [D -> T] /\ \A x, z \in D : f[x] = f[z] => x = z
  BY <1>7, <1>9
<1>11. IsFiniteSet(T) /\ Cardinality(T) = n
  <2>1. 0 \in Int /\ n - 1 \in Int
    BY <1>1
  <2> QED BY <2>1, <1>1, FS_Interval
<1>12. f \in Surjection(D, T)
  <2> HIDE DEF f, T
  <2>1. f \in Injection(D, T)
    BY <1>10, Fun_IsInj
  <2> QED BY <2>1, <1>11, FS_Injection DEF n
<1>13. ASSUME NEW k \in 1..n
       PROVE  \E x \in D : PlaceIn(D, R, x) = k - 1
  <2>1. k - 1 \in T
    BY <1>1
  <2>2. \E x \in D : f[x] = k - 1
    <3> HIDE DEF f, T
    <3> QED BY <2>1, <1>12, Fun_SurjectionProperties
  <2> QED BY <2>2
<1> QED BY <1>1, <1>7, <1>8, <1>9, <1>13 DEF n

\* The number that comes k-th.
PlaceAt(n, R, k) == CHOOSE i \in 1..n : PlaceIn(1..n, R, i) = k - 1

\* Each of the numbers up to n comes at one place.
LEMMA PlaceAtIs ==
    ASSUME NEW n \in Nat, NEW R, Orders(1..n, R)
    PROVE  /\ \A k \in 1..n : PlaceAt(n, R, k) \in 1..n
           /\ \A i \in 1..n : \E k \in 1..n : PlaceAt(n, R, k) = i
           /\ \A j, k \in 1..n : PlaceAt(n, R, j) = PlaceAt(n, R, k) => j = k
           /\ \A j, k \in 1..n : j < k => <<PlaceAt(n, R, j), PlaceAt(n, R, k)>> \in R
<1> DEFINE D == 1..n
           at(k) == PlaceAt(n, R, k)
           p(i) == PlaceIn(D, R, i)
<1>1. IsFiniteSet(D) /\ Cardinality(D) = n
  BY AscendingAll
<1>2. Orders(D, R)
  OBVIOUS
<1>3. \A i \in D : i \in Int
  OBVIOUS
<1>4. /\ \A i \in D : p(i) \in 0..n-1
      /\ \A i, j \in D : <<i, j>> \in R => p(i) < p(j)
      /\ \A i, j \in D : p(i) = p(j) => i = j
      /\ \A k \in 1..n : \E i \in D : p(i) = k - 1
  <2> HIDE DEF D, p
  <2>1. /\ \A i \in D : PlaceIn(D, R, i) \in 0..Cardinality(D)-1
        /\ \A i, j \in D : <<i, j>> \in R => PlaceIn(D, R, i) < PlaceIn(D, R, j)
        /\ \A i, j \in D : PlaceIn(D, R, i) = PlaceIn(D, R, j) => i = j
        /\ \A k \in 1..Cardinality(D) : \E i \in D : PlaceIn(D, R, i) = k - 1
    <3>1. IsFiniteSet(D)
      BY <1>1
    <3> QED BY <3>1, <1>2, PlaceIs
  <2> QED BY <1>1, <2>1 DEF p
<1>5. \A k : at(k) = CHOOSE i \in D : p(i) = k - 1
  BY DEF PlaceAt
<1>6. \A i \in 0..n-1 : i + 1 \in D /\ (i + 1) - 1 = i
  OBVIOUS
<1>7. \A k \in D : k \in 1..n
  OBVIOUS
<1> HIDE DEF D, at, p
<1>8. ASSUME NEW k \in D
      PROVE  at(k) \in D /\ p(at(k)) = k - 1
  BY <1>4, <1>5, <1>7
<1>9. ASSUME NEW i \in D
      PROVE  \E k \in D : at(k) = i
  <2> DEFINE k == p(i) + 1
  <2>1. k \in D /\ k - 1 = p(i)
    BY <1>4, <1>6
  <2> HIDE DEF k
  <2>2. at(k) \in D /\ p(at(k)) = p(i)
    BY <1>8, <2>1
  <2> QED BY <1>4, <2>1, <2>2
<1>10. ASSUME NEW j \in D, NEW k \in D, at(j) = at(k)
       PROVE  j = k
  <2>1. j - 1 = k - 1 /\ j \in Int /\ k \in Int
    BY <1>3, <1>8, <1>10
  <2> QED BY <2>1
<1>11. ASSUME NEW j \in D, NEW k \in D, j < k
       PROVE  <<at(j), at(k)>> \in R
  <2>1. /\ at(j) \in D /\ at(k) \in D /\ j \in Int /\ k \in Int
        /\ p(at(j)) = j - 1 /\ p(at(k)) = k - 1
    BY <1>3, <1>8
  <2>2. at(j) # at(k)
    BY <1>10, <1>11, <2>1
  <2>3. <<at(k), at(j)>> \notin R
    <3>1. <<at(k), at(j)>> \in R => k - 1 < j - 1
      BY <1>4, <2>1
    <3> QED BY <3>1, <1>11, <2>1
  <2> QED BY <1>2, <2>1, <2>2, <2>3 DEF Orders
<1> QED BY <1>8, <1>9, <1>10, <1>11 DEF D, at

\* A set of numbers that is not empty and bounded has a greatest element.
LEMMA GreatestNumber ==
    ASSUME NEW m \in Nat, NEW T \in SUBSET (0..m), T # {}
    PROVE  \E x \in T : \A y \in T : y <= x
<1> DEFINE U == {k \in Nat : \E x \in T : k = m - x}
<1>1. U \in SUBSET Nat /\ U # {}
  <2>1. PICK x \in T : TRUE
    OBVIOUS
  <2>2. m - x \in Nat
    OBVIOUS
  <2>3. m - x \in U
    BY <2>2
  <2> QED BY <2>3
<1>2. PICK k \in U : \A y \in U : k <= y
  <2> HIDE DEF U
  <2> QED BY <1>1, LeastNumber
<1>3. PICK x \in T : k = m - x
  OBVIOUS
<1>4. ASSUME NEW y \in T
      PROVE  y <= x
  <2>1. m - y \in U /\ x \in 0..m /\ y \in 0..m
    OBVIOUS
  <2>2. k <= m - y
    BY <1>2, <2>1
  <2> QED BY <1>3, <2>1, <2>2
<1> QED BY <1>4

\* A function of the first n numbers is a sequence.
LEMMA SeqIs ==
    ASSUME NEW S, NEW n \in Nat, NEW f, f = [k \in 1..n |-> f[k]], \A k \in 1..n : f[k] \in S
    PROVE  f \in Seq(S)
<1>1. f \in [1..n -> S]
  OBVIOUS
<1> QED BY <1>1

=============================================================================
