---------------------------- MODULE SearchProofs ----------------------------
(***************************************************************************)
(* The line-by-line search returns what the statement over whole files     *)
(* says, for every archive, every set of options and every limit.          *)
(***************************************************************************)
EXTENDS Search, SelectionProofs

(***************************************************************************)
(* What a search is made of.                                               *)
(***************************************************************************)

LEMMA SearchParts ==
    ASSUME NEW s \in Searches
    PROVE  /\ s.archive \in Seq(Entry) /\ s.opts \in Option
           /\ Len(s.archive) \in Nat /\ DOMAIN s.archive = 1..Len(s.archive)
           /\ s.opts.before \in Nat /\ s.opts.after \in Nat /\ s.opts.max \in Nat \ {0}
           /\ s.opts.filter \in BOOLEAN /\ s.opts.indexed \in BOOLEAN
           /\ PerFileCap \in Nat \ {0}
<1>1. s \in [archive : Archive, opts : Option]
  BY SearchAssumption
<1>2. s.archive \in Seq(Entry) /\ s.opts \in Option
  BY <1>1 DEF Archive
<1>3. \A o \in Option : /\ o.before \in Nat /\ o.after \in Nat /\ o.max \in Nat \ {0}
                        /\ o.filter \in BOOLEAN /\ o.indexed \in BOOLEAN
  BY DEF Option
<1> QED BY <1>2, <1>3, SearchAssumption, LenProperties

LEMMA EntryParts ==
    ASSUME NEW s \in Searches, NEW i \in 1..Len(s.archive)
    PROVE  /\ s.archive[i].lines \in Seq(Line)
           /\ Len(s.archive[i].lines) \in Nat
           /\ DOMAIN s.archive[i].lines = 1..Len(s.archive[i].lines)
           /\ s.archive[i].text \in {"blob", "unindexed", "binary"}
<1>1. s.archive[i] \in Entry
  BY SearchParts, ElementOfSeq
<1>2. \A x \in Entry : x.lines \in Seq(Line) /\ x.text \in {"blob", "unindexed", "binary"}
  BY DEF Entry
<1>3. s.archive[i].lines \in Seq(Line)
  BY <1>1, <1>2
<1> QED BY <1>1, <1>2, <1>3, LenProperties

\* The scanner gets as far as the first line it cannot hold.
LEMMA ReadableIs ==
    ASSUME NEW lines \in Seq(Line)
    PROVE  /\ Readable(lines) \in 0..Len(lines)
           /\ Scannable(lines) = 1..Readable(lines)
<1> DEFINE H == {k \in 1..Len(lines) : lines[k].huge}
<1>1. Len(lines) \in Nat /\ DOMAIN lines = 1..Len(lines)
  BY LenProperties
<1>2. \E m \in 0..Len(lines) : Scannable(lines) = 1..m
  <2>1. CASE H = {}
    <3>1. \A x \in 1..Len(lines) : ~lines[x].huge
      BY <2>1
    <3>2. \A k \in 1..Len(lines) : \A x \in 1..k : x \in 1..Len(lines)
      BY <1>1
    <3>3. Scannable(lines) = 1..Len(lines)
      BY <1>1, <3>1, <3>2 DEF Scannable
    <3>4. Len(lines) \in 0..Len(lines)
      BY <1>1
    <3> QED BY <3>3, <3>4
  <2>2. CASE H # {}
    <3>1. H \in SUBSET Nat
      BY <1>1
    <3>2. PICK h \in H : \A y \in H : h <= y
      <4> HIDE DEF H
      <4> QED BY <2>2, <3>1, LeastNumber
    <3>3. h \in 1..Len(lines) /\ lines[h].huge
      BY <3>2
    <3>4. \A x \in 1..h-1 : x \in 1..Len(lines) /\ ~lines[x].huge
      <4> SUFFICES ASSUME NEW x \in 1..h-1
                   PROVE  x \in 1..Len(lines) /\ ~lines[x].huge
        OBVIOUS
      <4>1. x \in 1..Len(lines) /\ ~(h <= x)
        BY <1>1, <3>3
      <4>2. x \notin H
        <5> HIDE DEF H
        <5> QED BY <4>1, <3>2
      <4> QED BY <4>1, <4>2
    <3>5. ASSUME NEW k \in 1..Len(lines)
          PROVE  (\A x \in 1..k : ~lines[x].huge) <=> k \in 1..h-1
      <4>1. CASE k < h
        <5>1. \A x \in 1..k : x \in 1..h-1
          BY <4>1, <3>3
        <5> QED BY <5>1, <3>4, <4>1, <3>3
      <4>2. CASE h <= k
        <5>1. h \in 1..k
          BY <4>2, <3>3
        <5> QED BY <5>1, <3>3, <4>2
      <4> QED BY <4>1, <4>2, <3>3, <1>1
    <3>6. Scannable(lines) = 1..h-1
      BY <1>1, <3>4, <3>5 DEF Scannable
    <3>7. h-1 \in 0..Len(lines)
      BY <1>1, <3>3
    <3> QED BY <3>6, <3>7
  <2> QED BY <2>1, <2>2
<1>3. PICK m \in 0..Len(lines) : Scannable(lines) = 1..m
  BY <1>2
<1>4. m \in Nat
  BY <1>1
<1>5. Cardinality(1..m) = m
  BY <1>4, AscendingAll
<1> QED BY <1>3, <1>5 DEF Readable

(***************************************************************************)
(* The hits of an entry among its first m lines.                           *)
(***************************************************************************)

WorthIn(s, i, m) == {k \in 1..m : WorthKeeping(s, s.archive[i].lines[k])}

LEMMA HitsAtIs ==
    ASSUME NEW s, NEW i, NEW m \in Nat
    PROVE  /\ HitsAt(s, i, m) \in Seq(Nat) /\ Len(HitsAt(s, i, m)) \in Nat
           /\ DOMAIN HitsAt(s, i, m) = 1..Len(HitsAt(s, i, m))
           /\ \A j \in 1..Len(HitsAt(s, i, m)) :
                 /\ HitsAt(s, i, m)[j] \in 1..m
                 /\ WorthKeeping(s, s.archive[i].lines[HitsAt(s, i, m)[j]])
           /\ \A j, k \in 1..Len(HitsAt(s, i, m)) :
                 j < k => HitsAt(s, i, m)[j] < HitsAt(s, i, m)[k]
           /\ \A k \in 1..m : WorthKeeping(s, s.archive[i].lines[k]) =>
                 \E j \in 1..Len(HitsAt(s, i, m)) : HitsAt(s, i, m)[j] = k
<1> DEFINE S == WorthIn(s, i, m)
           at == HitsAt(s, i, m)
<1>1. S \in SUBSET (1..m) /\ \A k \in S : WorthKeeping(s, s.archive[i].lines[k])
  BY DEF WorthIn
<1>2. \A k \in 1..m : WorthKeeping(s, s.archive[i].lines[k]) => k \in S
  BY DEF WorthIn
<1>3. at = Ascending(S)
  BY DEF HitsAt, WorthIn
<1> HIDE DEF S, at
<1>4. S \in SUBSET Nat /\ IsFiniteSet(S)
  BY <1>1, Bounded
<1>5. at \in Seq(Nat)
  <2>1. at \in Seq(S)
    BY <1>3, <1>4, AscendingIs
  <2> QED BY <2>1, <1>4, SeqMonotonic
<1>6. /\ Len(at) = Cardinality(S)
      /\ DOMAIN at = 1..Len(at)
      /\ \A j \in 1..Len(at) : at[j] \in S
      /\ \A k \in S : \E j \in 1..Len(at) : at[j] = k
      /\ \A j, k \in 1..Len(at) : j < k => at[j] < at[k]
  BY <1>3, <1>4, AscendingIs
<1>7. \A j \in 1..Len(at) : at[j] \in 1..m /\ WorthKeeping(s, s.archive[i].lines[at[j]])
  BY <1>1, <1>6
<1>8. \A k \in 1..m : WorthKeeping(s, s.archive[i].lines[k]) =>
                 \E j \in 1..Len(at) : at[j] = k
  BY <1>2, <1>6
<1>9. Len(at) \in Nat
  BY <1>5, LenProperties
<1> QED BY <1>5, <1>6, <1>7, <1>8, <1>9 DEF at

\* A line worth keeping comes last.
LEMMA HitsAtNext ==
    ASSUME NEW s, NEW i, NEW m \in Nat
    PROVE  HitsAt(s, i, m + 1) =
              IF WorthKeeping(s, s.archive[i].lines[m + 1])
              THEN Append(HitsAt(s, i, m), m + 1) ELSE HitsAt(s, i, m)
<1> DEFINE S == WorthIn(s, i, m)
<1>1. S \in SUBSET (1..m)
  BY DEF WorthIn
<1>2. WorthIn(s, i, m + 1) =
        IF WorthKeeping(s, s.archive[i].lines[m + 1]) THEN S \cup {m + 1} ELSE S
  <2>1. 1..m+1 = (1..m) \cup {m + 1}
    OBVIOUS
  <2> QED BY <2>1 DEF WorthIn
<1>3. HitsAt(s, i, m) = Ascending(S) /\ HitsAt(s, i, m + 1) = Ascending(WorthIn(s, i, m + 1))
  BY DEF HitsAt, WorthIn
<1> HIDE DEF S
<1>4. S \in SUBSET Nat /\ IsFiniteSet(S) /\ \A y \in S : y < m + 1
  <2>1. \A y \in S : y < m + 1
    BY <1>1
  <2> QED BY <1>1, <2>1, Bounded
<1>5. Ascending(S \cup {m + 1}) = Append(Ascending(S), m + 1)
  BY <1>4, AscendingAppend
<1> QED BY <1>2, <1>3, <1>5

\* The hits of more lines begin with those of fewer.
LEMMA HitsAtInitial ==
    ASSUME NEW s, NEW i, NEW m \in Nat, NEW r \in Nat, m <= r
    PROVE  /\ Len(HitsAt(s, i, m)) <= Len(HitsAt(s, i, r))
           /\ \A j \in 1..Len(HitsAt(s, i, m)) : HitsAt(s, i, m)[j] = HitsAt(s, i, r)[j]
<1> DEFINE S == WorthIn(s, i, m)
           T == WorthIn(s, i, r)
<1>1. S \in SUBSET T /\ T \in SUBSET (1..r) /\ \A x \in S : \A y \in T \ S : x < y
  BY DEF WorthIn
<1>3. HitsAt(s, i, m) = Ascending(S) /\ HitsAt(s, i, r) = Ascending(T)
  BY DEF HitsAt, WorthIn
<1> HIDE DEF S, T
<1>4. T \in SUBSET Nat /\ IsFiniteSet(T)
  BY <1>1, Bounded
<1>5. /\ IsFiniteSet(S) /\ Cardinality(S) <= Cardinality(T)
      /\ \A k \in 1..Cardinality(S) : Ascending(S)[k] = Ascending(T)[k]
  BY <1>1, <1>4, AscendingInitial
<1>6. Len(Ascending(S)) = Cardinality(S) /\ Len(Ascending(T)) = Cardinality(T)
  <2>1. S \in SUBSET Nat
    BY <1>1, <1>4
  <2> QED BY <2>1, <1>4, <1>5, AscendingIs
<1> QED BY <1>3, <1>5, <1>6

(***************************************************************************)
(* The context of a hit on line k among the first m lines.                 *)
(***************************************************************************)

Around(s, lines, k, m) ==
    {x \in 1..k-1 : x + s.opts.before >= k /\ KeepClipped(s, lines[x])}
    \cup {x \in 1..m : k < x /\ x <= k + s.opts.after /\ Keep(s, lines[x])}

InContext(k, x) == [line |-> x, before |-> x < k]

LEMMA InContextIs ==
    ASSUME NEW k \in Nat, NEW x \in Nat
    PROVE  /\ InContext(k, x) \in Context
           /\ k <= x => InContext(k, x) = [line |-> x, before |-> FALSE]
           /\ x < k => InContext(k, x) = [line |-> x, before |-> TRUE]
<1>1. (x < k) \in BOOLEAN /\ (k <= x => (x < k) = FALSE) /\ (x < k => (x < k) = TRUE)
  OBVIOUS
<1> DEFINE b == x < k
<1>2. InContext(k, x) = [line |-> x, before |-> b]
  BY DEF InContext
<1>3. b \in BOOLEAN /\ (k <= x => b = FALSE) /\ (x < k => b = TRUE)
  BY <1>1
<1> HIDE DEF b
<1>4. [line |-> x, before |-> b] \in Context
  BY <1>3 DEF Context
<1> QED BY <1>2, <1>3, <1>4

LEMMA WindowIs ==
    ASSUME NEW s, NEW lines, NEW m \in Nat, NEW k \in 1..m
    PROVE  /\ Around(s, lines, k, m) \in SUBSET (1..m)
           /\ Around(s, lines, k, m) \in SUBSET Nat /\ IsFiniteSet(Around(s, lines, k, m))
           /\ Cardinality(Around(s, lines, k, m)) \in Nat
           /\ Ascending(Around(s, lines, k, m)) \in Seq(Nat)
           /\ Len(Ascending(Around(s, lines, k, m))) = Cardinality(Around(s, lines, k, m))
           /\ \A c \in 1..Cardinality(Around(s, lines, k, m)) :
                 WindowUpto(s, lines, k, m)[c] = InContext(k, Ascending(Around(s, lines, k, m))[c])
           /\ WindowUpto(s, lines, k, m) \in Seq(Context)
           /\ Len(WindowUpto(s, lines, k, m)) = Cardinality(Around(s, lines, k, m))
<1> DEFINE A == Around(s, lines, k, m)
           w == WindowUpto(s, lines, k, m)
           a == Ascending(A)
<1>1. A \in SUBSET (1..m)
  BY DEF Around
<1>2. w = [c \in DOMAIN a |-> InContext(k, a[c])]
  BY DEF WindowUpto, Around, InContext
<1> HIDE DEF A, w
<1>3. A \in SUBSET Nat /\ IsFiniteSet(A)
  BY <1>1, Bounded
<1>4. /\ a \in Seq(A) /\ Len(a) = Cardinality(A) /\ Cardinality(A) \in Nat
      /\ DOMAIN a = 1..Cardinality(A)
      /\ \A c \in 1..Cardinality(A) : a[c] \in A
  BY <1>3, AscendingIs
<1>5. a \in Seq(Nat)
  BY <1>3, <1>4, SeqMonotonic
<1> HIDE DEF a
<1>6. w = [c \in 1..Cardinality(A) |-> InContext(k, a[c])]
  BY <1>2, <1>4
<1>7. \A c \in 1..Cardinality(A) : InContext(k, a[c]) \in Context
  <2>1. \A c \in 1..Cardinality(A) : a[c] \in Nat
    BY <1>3, <1>4
  <2> QED BY <2>1, InContextIs
<1>8. w \in Seq(Context) /\ Len(w) = Cardinality(A)
  <2>1. w \in [1..Cardinality(A) -> Context]
    BY <1>6, <1>7
  <2> QED BY <2>1, <1>4
<1> QED BY <1>1, <1>3, <1>4, <1>5, <1>6, <1>8 DEF A, w, a

\* The next line joins the context when the filter keeps it and it is near.
LEMMA WindowNext ==
    ASSUME NEW s \in Searches, NEW lines, NEW m \in Nat, NEW k \in 1..m
    PROVE  WindowUpto(s, lines, k, m + 1) =
              IF m + 1 <= k + s.opts.after /\ Keep(s, lines[m + 1])
              THEN Append(WindowUpto(s, lines, k, m), [line |-> m + 1, before |-> FALSE])
              ELSE WindowUpto(s, lines, k, m)
<1> DEFINE A == Around(s, lines, k, m)
           B == Around(s, lines, k, m + 1)
           u == WindowUpto(s, lines, k, m)
           w == WindowUpto(s, lines, k, m + 1)
           near == m + 1 <= k + s.opts.after /\ Keep(s, lines[m + 1])
           last == [line |-> m + 1, before |-> FALSE]
           t == Append(u, last)
<1>1. B = IF near THEN A \cup {m + 1} ELSE A
  <2>1. 1..m+1 = (1..m) \cup {m + 1} /\ k < m + 1
    OBVIOUS
  <2> QED BY <2>1 DEF Around
<1>2. k \in 1..m+1 /\ m + 1 \in Nat
  OBVIOUS
<1> HIDE DEF A, B, u, w, near
<1>3. /\ A \in SUBSET (1..m) /\ A \in SUBSET Nat /\ IsFiniteSet(A) /\ Cardinality(A) \in Nat
      /\ Ascending(A) \in Seq(Nat) /\ Len(Ascending(A)) = Cardinality(A)
      /\ \A c \in 1..Cardinality(A) : u[c] = InContext(k, Ascending(A)[c])
      /\ u \in Seq(Context) /\ Len(u) = Cardinality(A)
  BY WindowIs DEF A, u
<1>4. /\ \A c \in 1..Cardinality(B) : w[c] = InContext(k, Ascending(B)[c])
      /\ w \in Seq(Context) /\ Len(w) = Cardinality(B)
  BY <1>2, WindowIs DEF B, w
<1>5. CASE near
  <2>1. \A y \in A : y < m + 1
    BY <1>3
  <2>2. Cardinality(B) = Cardinality(A) + 1 /\ Ascending(B) = Append(Ascending(A), m + 1)
    BY <1>1, <1>2, <1>3, <1>5, <2>1, AscendingAppend
  <2>3. last \in Context /\ InContext(k, m + 1) = last
    <3>1. k \in Nat /\ k <= m + 1
      BY <1>2
    <3> QED BY <3>1, <1>2, InContextIs
  <2>4. /\ t \in Seq(Context) /\ Len(t) = Cardinality(A) + 1
        /\ \A c \in 1..Cardinality(A) : t[c] = u[c]
        /\ t[Cardinality(A) + 1] = last
    BY <1>3, <2>3, AppendProperties
  <2>5. /\ \A c \in 1..Cardinality(A) : Ascending(B)[c] = Ascending(A)[c]
        /\ Ascending(B)[Cardinality(A) + 1] = m + 1
    BY <1>2, <1>3, <2>2, AppendProperties
  <2>6. \A c \in 1..Cardinality(A) : w[c] = u[c]
    BY <1>3, <1>4, <2>2, <2>5
  <2>7. w[Cardinality(A) + 1] = last
    BY <1>3, <1>4, <2>2, <2>3, <2>5
  <2> HIDE DEF t, last
  <2>8. \A c \in 1..Cardinality(A) + 1 : w[c] = t[c]
    BY <1>3, <2>4, <2>6, <2>7
  <2>9. w = t
    BY <1>3, <1>4, <2>2, <2>4, <2>8, SeqEqual
  <2> QED BY <1>5, <2>9 DEF near, w, t, u, last
<1>6. CASE ~near
  BY <1>1, <1>3, <1>4, <1>6 DEF near, w, u
<1> QED BY <1>5, <1>6

\* On its own line a hit has the ring buffer for context.
LEMMA WindowAtLine ==
    ASSUME NEW s, NEW lines, NEW k \in Nat \ {0}
    PROVE  WindowUpto(s, lines, k, k) = Leading(s, lines, k)
<1> DEFINE A == Around(s, lines, k, k)
           L == {x \in 1..k-1 : x + s.opts.before >= k /\ KeepClipped(s, lines[x])}
<1>1. A = L
  BY DEF Around
<1>2. L \in SUBSET (1..k-1)
  OBVIOUS
<1>3. k \in 1..k /\ k \in Nat /\ k - 1 \in Nat
  OBVIOUS
<1>4. Leading(s, lines, k) = [c \in DOMAIN Ascending(L) |-> [line |-> Ascending(L)[c], before |-> TRUE]]
  BY DEF Leading
<1> HIDE DEF A, L
<1>5. WindowUpto(s, lines, k, k) = [c \in 1..Cardinality(A) |-> InContext(k, Ascending(A)[c])]
  <2>1. /\ WindowUpto(s, lines, k, k) \in Seq(Context)
        /\ Len(WindowUpto(s, lines, k, k)) = Cardinality(A)
        /\ \A c \in 1..Cardinality(A) :
              WindowUpto(s, lines, k, k)[c] = InContext(k, Ascending(A)[c])
    BY <1>3, WindowIs DEF A
  <2>2. WindowUpto(s, lines, k, k) \in [1..Cardinality(A) -> Context]
    BY <2>1, LenProperties
  <2> QED BY <2>1, <2>2
<1>6. /\ DOMAIN Ascending(L) = 1..Cardinality(L)
      /\ \A c \in 1..Cardinality(L) : Ascending(L)[c] \in L
  BY <1>2, <1>3, Bounded, AscendingIs
<1>7. \A c \in 1..Cardinality(L) :
         InContext(k, Ascending(L)[c]) = [line |-> Ascending(L)[c], before |-> TRUE]
  <2>1. \A x \in L : x < k /\ x \in Nat
    BY <1>2
  <2> QED BY <1>3, <1>6, <2>1, InContextIs
<1> QED BY <1>1, <1>4, <1>5, <1>6, <1>7

\* It is whole as soon as the last line near enough has been read.
LEMMA WindowWhole ==
    ASSUME NEW s \in Searches, NEW lines, NEW m \in Nat, NEW r \in Nat, m <= r,
           NEW k \in 1..m, k + s.opts.after <= m
    PROVE  WindowUpto(s, lines, k, m) = WindowUpto(s, lines, k, r)
<1>1. s.opts.after \in Nat
  BY SearchParts
<1>2. Around(s, lines, k, m) = Around(s, lines, k, r)
  BY <1>1 DEF Around
<1>3. k \in 1..r
  OBVIOUS
<1> DEFINE u == WindowUpto(s, lines, k, m)
           w == WindowUpto(s, lines, k, r)
           A == Around(s, lines, k, m)
<1>7. /\ u \in Seq(Context) /\ Len(u) = Cardinality(A)
      /\ \A c \in 1..Cardinality(A) : u[c] = InContext(k, Ascending(A)[c])
  BY WindowIs
<1>8. /\ w \in Seq(Context) /\ Len(w) = Cardinality(A)
      /\ \A c \in 1..Cardinality(A) : w[c] = InContext(k, Ascending(A)[c])
  <2> DEFINE B == Around(s, lines, k, r)
  <2>1. /\ w \in Seq(Context) /\ Len(w) = Cardinality(B)
        /\ \A c \in 1..Cardinality(B) : w[c] = InContext(k, Ascending(B)[c])
    BY <1>3, WindowIs
  <2>2. A = B
    BY <1>2
  <2> HIDE DEF A, B, w
  <2> QED BY <2>1, <2>2
<1>4. u \in Seq(Context) /\ w \in Seq(Context) /\ Len(u) = Len(w)
  BY <1>7, <1>8
<1>5. \A c \in 1..Len(u) : u[c] = w[c]
  BY <1>7, <1>8
<1> HIDE DEF u, w
<1>6. u = w
  BY <1>4, <1>5, SeqEqual
<1> QED BY <1>6 DEF u, w

\* What a hit has of its context is the beginning of it.
LEMMA WindowGrows ==
    ASSUME NEW s, NEW lines, NEW m \in Nat, NEW r \in Nat, m <= r, NEW k \in 1..m
    PROVE  IsPrefix(WindowUpto(s, lines, k, m), WindowUpto(s, lines, k, r))
<1> DEFINE A == Around(s, lines, k, m)
           B == Around(s, lines, k, r)
           u == WindowUpto(s, lines, k, m)
           w == WindowUpto(s, lines, k, r)
<1>1. A \in SUBSET B /\ \A x \in A : \A y \in B \ A : x < y
  BY DEF Around
<1>2. k \in 1..r
  OBVIOUS
<1> HIDE DEF A, B, u, w
<1>3. /\ \A c \in 1..Cardinality(A) : u[c] = InContext(k, Ascending(A)[c])
      /\ u \in Seq(Context) /\ Len(u) = Cardinality(A)
  BY WindowIs DEF A, u
<1>4. /\ B \in SUBSET Nat /\ IsFiniteSet(B)
      /\ \A c \in 1..Cardinality(B) : w[c] = InContext(k, Ascending(B)[c])
      /\ w \in Seq(Context) /\ Len(w) = Cardinality(B)
  BY <1>2, WindowIs DEF B, w
<1>5. /\ Cardinality(A) \in Nat /\ Cardinality(B) \in Nat /\ Cardinality(A) <= Cardinality(B)
      /\ \A c \in 1..Cardinality(A) : Ascending(A)[c] = Ascending(B)[c]
  BY <1>1, <1>4, AscendingInitial
<1>6. \A c \in 1..Cardinality(A) : u[c] = w[c]
  BY <1>3, <1>4, <1>5
<1>7. SubSeq(u, 1, Len(u)) = SubSeq(w, 1, Len(u))
  <2>1. \A c \in 1..Len(u) : u[c] \in Context /\ w[c] \in Context
    BY <1>3, <1>4, <1>5, ElementOfSeq
  <2>2. /\ SubSeq(u, 1, Len(u)) \in Seq(Context) /\ Len(SubSeq(u, 1, Len(u))) = Len(u)
        /\ \A c \in 1..Len(u) : SubSeq(u, 1, Len(u))[c] = u[c]
    BY <1>3, <1>5, <2>1, SubSeqProperties
  <2>3. /\ SubSeq(w, 1, Len(u)) \in Seq(Context) /\ Len(SubSeq(w, 1, Len(u))) = Len(u)
        /\ \A c \in 1..Len(u) : SubSeq(w, 1, Len(u))[c] = w[c]
    BY <1>3, <1>5, <2>1, SubSeqProperties
  <2> QED BY <1>3, <1>6, <2>2, <2>3, SeqEqual
<1> QED BY <1>3, <1>4, <1>5, <1>7 DEF IsPrefix, u, w

LEMMA HitUptoIs ==
    ASSUME NEW s \in Searches, NEW i \in 1..Len(s.archive), NEW m \in Nat, NEW k \in 1..m
    PROVE  /\ HitUpto(s, i, k, m) \in Result
           /\ HitUpto(s, i, k, m).entry = i /\ HitUpto(s, i, k, m).line = k
           /\ HitUpto(s, i, k, m).filtered = ~Keep(s, s.archive[i].lines[k])
           /\ HitUpto(s, i, k, m).context = WindowUpto(s, s.archive[i].lines, k, m)
<1> DEFINE f == ~Keep(s, s.archive[i].lines[k])
           c == WindowUpto(s, s.archive[i].lines, k, m)
<1>1. HitUpto(s, i, k, m) = [entry |-> i, line |-> k, filtered |-> f, context |-> c]
  BY DEF HitUpto
<1>2. f \in BOOLEAN
  BY DEF Keep
<1>3. c \in Seq(Context)
  BY WindowIs
<1>4. i \in Nat /\ k \in Nat
  BY SearchParts
<1> HIDE DEF f, c
<1>5. [entry |-> i, line |-> k, filtered |-> f, context |-> c] \in Result
  BY <1>2, <1>3, <1>4 DEF Result
<1>6. HitUpto(s, i, k, m).filtered = f
  BY <1>1
<1> QED BY <1>1, <1>5, <1>6 DEF f, c

\* A result that takes line k as trailing context.
Taken(h, k) == [h EXCEPT !.context = Append(@, [line |-> k, before |-> FALSE])]

LEMMA TakesLine ==
    ASSUME NEW h \in Result, NEW x
    PROVE  [h EXCEPT !.context = Append(@, x)]
             = [entry |-> h.entry, line |-> h.line, filtered |-> h.filtered,
                context |-> Append(h.context, x)]
<1> DEFINE c == Append(h.context, x)
<1>1. [h EXCEPT !.context = Append(@, x)] = [h EXCEPT !.context = c]
  OBVIOUS
<1> HIDE DEF c
<1>2. [h EXCEPT !.context = c]
        = [entry |-> h.entry, line |-> h.line, filtered |-> h.filtered, context |-> c]
  BY DEF Result
<1> QED BY <1>1, <1>2 DEF c

NextContext(s, i, k, m) ==
    m + 1 <= k + s.opts.after /\ Keep(s, s.archive[i].lines[m + 1])

\* A hit that takes the next line, and one that does not.
LEMMA HitUptoNext ==
    ASSUME NEW s \in Searches, NEW i \in 1..Len(s.archive), NEW m \in Nat, NEW k \in 1..m
    PROVE  HitUpto(s, i, k, m + 1) =
              IF NextContext(s, i, k, m)
              THEN Taken(HitUpto(s, i, k, m), m + 1)
              ELSE HitUpto(s, i, k, m)
<1> DEFINE f == ~Keep(s, s.archive[i].lines[k])
           c == WindowUpto(s, s.archive[i].lines, k, m)
           d == WindowUpto(s, s.archive[i].lines, k, m + 1)
           x == [line |-> m + 1, before |-> FALSE]
<1>1. HitUpto(s, i, k, m) = [entry |-> i, line |-> k, filtered |-> f, context |-> c]
  BY DEF HitUpto
<1>2. HitUpto(s, i, k, m + 1) = [entry |-> i, line |-> k, filtered |-> f, context |-> d]
  BY DEF HitUpto
<1>3. d = IF NextContext(s, i, k, m) THEN Append(c, x) ELSE c
  BY WindowNext DEF NextContext
<1> HIDE DEF f, c, d, x
<1>4. CASE NextContext(s, i, k, m)
  <2>1. Taken(HitUpto(s, i, k, m), m + 1)
          = [entry |-> i, line |-> k, filtered |-> f, context |-> Append(c, x)]
    <3> DEFINE h == HitUpto(s, i, k, m)
    <3>1. h \in Result
      BY HitUptoIs
    <3>2. h.entry = i /\ h.line = k /\ h.filtered = f /\ h.context = c
      BY <1>1
    <3> HIDE DEF h
    <3>3. [h EXCEPT !.context = Append(@, x)]
            = [entry |-> h.entry, line |-> h.line, filtered |-> h.filtered,
               context |-> Append(h.context, x)]
      BY <3>1, TakesLine
    <3> QED BY <3>2, <3>3 DEF h, Taken, x
  <2> QED BY <1>2, <1>3, <1>4, <2>1 DEF x
<1>5. CASE ~NextContext(s, i, k, m)
  BY <1>1, <1>2, <1>3, <1>5
<1> QED BY <1>4, <1>5

(***************************************************************************)
(* One line of the scan.                                                   *)
(***************************************************************************)

\* What line k makes of the results o while the list w waits.
TakenBy(s, o, w, k, line, fed) ==
    /\ fed \in Seq(Result) /\ Len(fed) = Len(o)
    /\ \A r \in 1..Len(o) :
          fed[r] = IF Keep(s, line) /\ \E x \in 1..Len(w) : w[x].idx = r
                   THEN Taken(o[r], k) ELSE o[r]

LEMMA WithTrailingIs ==
    ASSUME NEW s, NEW results \in Seq(Result), NEW waiting \in Seq(Waiting), NEW k \in Nat, NEW line
    PROVE  TakenBy(s, results, waiting, k, line, WithTrailing(s, results, waiting, k, line))
<1> DEFINE fed == WithTrailing(s, results, waiting, k, line)
           at(r) == \E x \in 1..Len(waiting) : waiting[x].idx = r
           f == [r \in 1..Len(results) |-> IF at(r) THEN Taken(results[r], k) ELSE results[r]]
<1>1. /\ Len(results) \in Nat /\ DOMAIN results = 1..Len(results)
      /\ DOMAIN waiting = 1..Len(waiting)
      /\ \A r \in 1..Len(results) : results[r] \in Result
  BY LenProperties, ElementOfSeq
<1>2. fed = IF Keep(s, line) THEN f ELSE results
  BY <1>1 DEF WithTrailing, Taken
<1> HIDE DEF at
<1>4. \A h \in Result : Taken(h, k) \in Result
  <2> SUFFICES ASSUME NEW h \in Result
               PROVE  Taken(h, k) \in Result
    OBVIOUS
  <2> DEFINE x == [line |-> k, before |-> FALSE]
  <2>1. h.context \in Seq(Context) /\ x \in Context
    BY DEF Result, Context
  <2>2. Append(h.context, x) \in Seq(Context)
    BY <2>1, AppendProperties
  <2>3. Taken(h, k) = [h EXCEPT !.context = Append(@, x)]
    BY DEF Taken
  <2> HIDE DEF x
  <2> QED BY <2>2, <2>3 DEF Result
<1>5. \A r \in 1..Len(results) :
        (IF at(r) THEN Taken(results[r], k) ELSE results[r]) \in Result
  BY <1>1, <1>4
<1>6. f \in [1..Len(results) -> Result]
  BY <1>5
<1>7. f \in Seq(Result) /\ Len(f) = Len(results)
  <2> HIDE DEF f
  <2> QED BY <1>1, <1>6
<1>8. \A r \in 1..Len(results) : f[r] = IF at(r) THEN Taken(results[r], k) ELSE results[r]
  OBVIOUS
<1> HIDE DEF f, fed
<1>9. /\ fed \in Seq(Result) /\ Len(fed) = Len(results)
      /\ \A r \in 1..Len(results) :
            fed[r] = IF Keep(s, line) /\ at(r) THEN Taken(results[r], k) ELSE results[r]
  BY <1>2, <1>7, <1>8
<1> QED BY <1>9 DEF TakenBy, fed, at

LEMMA CountDownIs ==
    ASSUME NEW w \in Seq(Waiting)
    PROVE  /\ CountDown(w) \in Seq(Waiting)
           /\ \A x \in 1..Len(CountDown(w)) : \E y \in 1..Len(w) :
                 CountDown(w)[x].idx = w[y].idx /\ CountDown(w)[x].need = w[y].need - 1
           /\ \A y \in 1..Len(w) : w[y].need - 1 > 0 => \E x \in 1..Len(CountDown(w)) :
                 CountDown(w)[x].idx = w[y].idx /\ CountDown(w)[x].need = w[y].need - 1
<1> DEFINE less == [x \in 1..Len(w) |-> [w[x] EXCEPT !.need = @ - 1]]
           S == {x \in 1..Len(w) : less[x].need > 0}
           W == [idx : Nat, need : Nat]
           p == Pick(less, S)
<1>1. /\ Len(w) \in Nat /\ DOMAIN w = 1..Len(w)
      /\ \A x \in 1..Len(w) : w[x] \in Waiting
  BY LenProperties, ElementOfSeq
<1>2. CountDown(w) = p
  BY <1>1 DEF CountDown
<1>3. ASSUME NEW x \in 1..Len(w)
      PROVE  /\ less[x] \in W /\ less[x].idx = w[x].idx /\ less[x].need = w[x].need - 1
  BY <1>1 DEF Waiting
<1>4. less \in Seq(W) /\ Len(less) = Len(w)
  <2>1. less \in [1..Len(w) -> W]
    BY <1>3
  <2> HIDE DEF less, W
  <2> QED BY <1>1, <2>1
<1>5. S \in SUBSET (1..Len(less)) /\ \A x \in 1..Len(w) : x \in S <=> less[x].need > 0
  BY <1>4
<1> HIDE DEF less, S, p
<1>6. /\ IsFiniteSet(S) /\ p \in Seq(W) /\ Len(p) = Cardinality(S)
      /\ Cardinality(S) \in Nat
      /\ \A k \in 1..Cardinality(S) : Ascending(S)[k] \in S /\ p[k] = less[Ascending(S)[k]]
  <2>1. less \in Seq(W)
    BY <1>4
  <2> HIDE DEF W
  <2> QED BY <1>5, <2>1, PickIs DEF p
<1>7. ASSUME NEW x \in 1..Len(p)
      PROVE  /\ p[x] \in Waiting
             /\ \E y \in 1..Len(w) : p[x].idx = w[y].idx /\ p[x].need = w[y].need - 1
  <2> DEFINE y == Ascending(S)[x]
  <2>1. y \in S /\ p[x] = less[y]
    BY <1>6
  <2>2. y \in 1..Len(w) /\ less[y].need > 0
    BY <1>4, <1>5, <2>1
  <2>3. less[y] \in W /\ less[y].idx = w[y].idx /\ less[y].need = w[y].need - 1
    BY <1>3, <2>2
  <2> HIDE DEF y
  <2>4. less[y] \in Waiting
    BY <2>2, <2>3 DEF Waiting
  <2> QED BY <2>1, <2>2, <2>3, <2>4
<1>8. p \in Seq(Waiting)
  <2>1. p \in [1..Len(p) -> Waiting]
    BY <1>6, <1>7, LenProperties
  <2>2. Len(p) \in Nat
    BY <1>6
  <2> HIDE DEF W
  <2> QED BY <2>1, <2>2
<1>9. ASSUME NEW y \in 1..Len(w), w[y].need - 1 > 0
      PROVE  \E x \in 1..Len(p) : p[x].idx = w[y].idx /\ p[x].need = w[y].need - 1
  <2>1. y \in S
    BY <1>3, <1>5, <1>9
  <2>2. S \in SUBSET Nat
    BY <1>1, <1>4, <1>5
  <2>3. PICK x \in 1..Cardinality(S) : Ascending(S)[x] = y
    BY <1>6, <2>1, <2>2, AscendingIs
  <2>4. p[x] = less[y]
    BY <1>6, <2>3
  <2>5. x \in 1..Len(p)
    BY <1>6
  <2> QED BY <1>3, <2>4, <2>5
<1> QED BY <1>2, <1>7, <1>8, <1>9


(***************************************************************************)
(* How far the scan of a file is, and what of its context is still owed.   *)
(***************************************************************************)

\* How many results of a file there is room for when it begins after st.
Limit(s, st) == IF PerFileCap < s.opts.max - st THEN PerFileCap ELSE s.opts.max - st

Fewer(a, b) == IF a < b THEN a ELSE b

\* After m lines of entry i the results from st on are its first h hits, each
\* with the context that these lines hold.
Scanned(s, i, m, o, st, h) ==
    /\ h = Fewer(Len(HitsAt(s, i, m)), Limit(s, st))
    /\ Len(o) = st + h
    /\ \A j \in 1..h : o[st + j] = HitUpto(s, i, HitsAt(s, i, m)[j], m)

\* Exactly the results whose window reaches beyond line m wait, each for the
\* number of lines that are left of it.
Waits(s, i, m, st, h, w) ==
    /\ \A j \in 1..h : HitsAt(s, i, m)[j] + s.opts.after > m =>
          \E x \in 1..Len(w) : w[x].idx = st + j
    /\ \A x \in 1..Len(w) : \E j \in 1..h :
          w[x].idx = st + j /\ w[x].need = HitsAt(s, i, m)[j] + s.opts.after - m

LEMMA LimitIs ==
    ASSUME NEW s \in Searches, NEW st \in Nat, st < s.opts.max
    PROVE  Limit(s, st) \in Nat \ {0}
BY SearchParts DEF Limit

\* The results when line m + 1 of entry i has been added to those that wait.
Fed(s, i, m, o, w) == WithTrailing(s, o, w, m + 1, s.archive[i].lines[m + 1])

LEMMA FedIs ==
    ASSUME NEW s, NEW i, NEW m \in Nat, NEW o \in Seq(Result), NEW w \in Seq(Waiting)
    PROVE  TakenBy(s, o, w, m + 1, s.archive[i].lines[m + 1], Fed(s, i, m, o, w))
<1> DEFINE k == m + 1
           line == s.archive[i].lines[k]
<1>1. k \in Nat /\ Fed(s, i, m, o, w) = WithTrailing(s, o, w, k, line)
  BY DEF Fed
<1> HIDE DEF k, line
<1>2. TakenBy(s, o, w, k, line, Fed(s, i, m, o, w))
  BY <1>1, WithTrailingIs
<1> QED BY <1>2 DEF k, line

\* The results before st are the same, those from it on have one more line.
Further(s, i, m, o, st, h, fed) ==
    /\ fed \in Seq(Result) /\ Len(fed) = Len(o)
    /\ \A r \in 1..st : fed[r] = o[r]
    /\ \A j \in 1..h : fed[st + j] = HitUpto(s, i, HitsAt(s, i, m)[j], m + 1)

LEMMA FedOn ==
    ASSUME NEW s \in Searches, NEW i \in 1..Len(s.archive), NEW m \in Nat, NEW st \in Nat,
           NEW h \in Nat, NEW o \in Seq(Result), NEW w \in Seq(Waiting), st < s.opts.max,
           Scanned(s, i, m, o, st, h), Waits(s, i, m, st, h, w)
    PROVE  Further(s, i, m, o, st, h, Fed(s, i, m, o, w))
<1> DEFINE at == HitsAt(s, i, m)
           fed == Fed(s, i, m, o, w)
           line == s.archive[i].lines[m + 1]
<1>1. /\ fed \in Seq(Result) /\ Len(fed) = Len(o)
      /\ \A r \in 1..Len(o) :
            fed[r] = IF Keep(s, line) /\ \E y \in 1..Len(w) : w[y].idx = r
                     THEN Taken(o[r], m + 1) ELSE o[r]
  <2>1. TakenBy(s, o, w, m + 1, s.archive[i].lines[m + 1], Fed(s, i, m, o, w))
    BY FedIs
  <2> QED BY <2>1 DEF TakenBy
<1>2. \A j \in 1..Len(at) : at[j] \in 1..m
  BY HitsAtIs
<1>3. Len(at) \in Nat
  BY HitsAtIs
<1>4. s.opts.after \in Nat
  BY SearchParts
<1>5. \A y \in 1..Len(w) : w[y] \in Waiting
  BY ElementOfSeq
<1>6. \A y \in 1..Len(w) : w[y].idx \in Nat /\ w[y].need \in Nat \ {0}
  BY <1>5 DEF Waiting
<1>7. /\ \A j \in 1..h : at[j] + s.opts.after > m => \E y \in 1..Len(w) : w[y].idx = st + j
      /\ \A y \in 1..Len(w) : \E j \in 1..h :
            w[y].idx = st + j /\ w[y].need = at[j] + s.opts.after - m
  BY DEF Waits
<1>8. /\ \A j \in 1..h : o[st + j] = HitUpto(s, i, at[j], m)
      /\ Len(o) = st + h /\ h = Fewer(Len(at), Limit(s, st))
  BY DEF Scanned
<1>11. h <= Len(at)
  <2> HIDE DEF at
  <2> QED BY <1>3, <1>8, LimitIs DEF Fewer
<1> HIDE DEF at, fed, line
<1>9. ASSUME NEW r \in 1..st
      PROVE  fed[r] = o[r]
  <2>1. ~\E y \in 1..Len(w) : w[y].idx = r
    BY <1>7
  <2>2. r \in 1..Len(o)
    BY <1>8
  <2> QED BY <1>1, <2>1, <2>2
<1>10. ASSUME NEW j \in 1..h
       PROVE  fed[st + j] = HitUpto(s, i, at[j], m + 1)
  <2>1. j \in 1..Len(at) /\ st + j \in 1..Len(o)
    BY <1>3, <1>8, <1>11
  <2>2. at[j] \in 1..m
    BY <1>2, <2>1
  <2>3. (\E y \in 1..Len(w) : w[y].idx = st + j) <=> m + 1 <= at[j] + s.opts.after
    <3>1. ASSUME NEW y \in 1..Len(w), w[y].idx = st + j
          PROVE  m + 1 <= at[j] + s.opts.after
      <4>1. PICK q \in 1..h : w[y].idx = st + q /\ w[y].need = at[q] + s.opts.after - m
        BY <1>7
      <4>2. q = j
        BY <4>1, <3>1
      <4>3. w[y].need \in Nat \ {0} /\ w[y].need = at[j] + s.opts.after - m
        BY <1>6, <4>1, <4>2
      <4> DEFINE a == at[j]
                 b == s.opts.after
                 d == w[y].need
      <4>4. a \in Nat /\ b \in Nat /\ d \in Nat \ {0} /\ d = a + b - m
        BY <1>4, <2>2, <4>3
      <4> HIDE DEF a, b, d
      <4>5. m + 1 <= a + b
        BY <4>4
      <4> QED BY <4>5 DEF a, b
    <3>2. ASSUME m + 1 <= at[j] + s.opts.after
          PROVE  \E y \in 1..Len(w) : w[y].idx = st + j
      <4>1. at[j] + s.opts.after > m
        BY <1>4, <2>2, <3>2
      <4> QED BY <1>7, <4>1
    <3> QED BY <3>1, <3>2
  <2>4. HitUpto(s, i, at[j], m + 1) =
          IF NextContext(s, i, at[j], m)
          THEN Taken(HitUpto(s, i, at[j], m), m + 1)
          ELSE HitUpto(s, i, at[j], m)
    BY <2>2, HitUptoNext
  <2>5. NextContext(s, i, at[j], m) <=> m + 1 <= at[j] + s.opts.after /\ Keep(s, line)
    BY DEF NextContext, line
  <2> QED BY <1>1, <1>8, <2>1, <2>3, <2>4, <2>5
<1> QED BY <1>1, <1>9, <1>10 DEF at, fed, Further

LEMMA WaitsOn ==
    ASSUME NEW s \in Searches, NEW i \in 1..Len(s.archive), NEW m \in Nat, NEW st \in Nat,
           NEW h \in Nat, NEW w \in Seq(Waiting),
           h <= Len(HitsAt(s, i, m)), Waits(s, i, m, st, h, w)
    PROVE  /\ CountDown(w) \in Seq(Waiting)
           /\ Waits(s, i, m + 1, st, h, CountDown(w))
<1> DEFINE at == HitsAt(s, i, m)
           new == HitsAt(s, i, m + 1)
           p == CountDown(w)
<1>1. /\ p \in Seq(Waiting)
      /\ \A x \in 1..Len(p) : \E y \in 1..Len(w) :
            p[x].idx = w[y].idx /\ p[x].need = w[y].need - 1
      /\ \A y \in 1..Len(w) : w[y].need - 1 > 0 => \E x \in 1..Len(p) :
            p[x].idx = w[y].idx /\ p[x].need = w[y].need - 1
  BY CountDownIs
<1>2. \A j \in 1..Len(at) : at[j] \in Nat
  BY HitsAtIs
<1>3. Len(at) \in Nat
  BY HitsAtIs
<1>4. \A j \in 1..Len(at) : new[j] = at[j]
  <2>1. m + 1 \in Nat /\ m <= m + 1
    OBVIOUS
  <2> QED BY <2>1, HitsAtInitial
<1>5. s.opts.after \in Nat
  BY SearchParts
<1>6. /\ \A j \in 1..h : at[j] + s.opts.after > m => \E y \in 1..Len(w) : w[y].idx = st + j
      /\ \A y \in 1..Len(w) : \E j \in 1..h :
            w[y].idx = st + j /\ w[y].need = at[j] + s.opts.after - m
  BY DEF Waits
<1>7. \A j \in 1..h : j \in 1..Len(at)
  BY <1>3
<1> HIDE DEF at, new, p
<1>8. ASSUME NEW j \in 1..h, new[j] + s.opts.after > m + 1
      PROVE  \E x \in 1..Len(p) : p[x].idx = st + j
  <2>1. new[j] = at[j] /\ at[j] \in Nat
    BY <1>2, <1>4, <1>7
  <2>2. at[j] + s.opts.after > m
    BY <1>5, <1>8, <2>1
  <2>3. PICK y \in 1..Len(w) : w[y].idx = st + j
    BY <1>6, <2>2
  <2>4. PICK k \in 1..h : w[y].idx = st + k /\ w[y].need = at[k] + s.opts.after - m
    BY <1>6
  <2>5. k = j
    BY <2>3, <2>4
  <2>6. w[y].need - 1 > 0
    BY <1>5, <1>8, <2>1, <2>4, <2>5
  <2> QED BY <1>1, <2>3, <2>6
<1>9. ASSUME NEW x \in 1..Len(p)
      PROVE  \E j \in 1..h : p[x].idx = st + j /\ p[x].need = new[j] + s.opts.after - (m + 1)
  <2>1. PICK y \in 1..Len(w) : p[x].idx = w[y].idx /\ p[x].need = w[y].need - 1
    BY <1>1
  <2>2. PICK j \in 1..h : w[y].idx = st + j /\ w[y].need = at[j] + s.opts.after - m
    BY <1>6
  <2>3. new[j] = at[j] /\ at[j] \in Nat
    BY <1>2, <1>4, <1>7
  <2>4. p[x].need = new[j] + s.opts.after - (m + 1)
    <3> DEFINE a == at[j]
               b == s.opts.after
    <3>1. a \in Nat /\ b \in Nat /\ p[x].need = (a + b - m) - 1
      BY <1>5, <2>1, <2>2, <2>3
    <3> HIDE DEF a, b
    <3>2. p[x].need = a + b - (m + 1)
      BY <3>1
    <3> QED BY <2>3, <3>2 DEF a, b
  <2> QED BY <2>1, <2>2, <2>4
<1> QED BY <1>1, <1>8, <1>9 DEF Waits, new, p

\* The scan of entry i is one line further: what comes before the file's first
\* result is untouched.
ScannedOn(s, i, m, o, st, h, w) ==
    /\ o \in Seq(Result) /\ w \in Seq(Waiting)
    /\ Scanned(s, i, m + 1, o, st, h)
    /\ Waits(s, i, m + 1, st, h, w)

SameBefore(st, o, more) == \A r \in 1..st : more[r] = o[r]

\* A line that adds no result: it is not worth keeping, or the limits are reached.
LEMMA ScanOn ==
    ASSUME NEW s \in Searches, NEW i \in 1..Len(s.archive), NEW m \in Nat, NEW st \in Nat,
           NEW h \in Nat, NEW o \in Seq(Result), NEW w \in Seq(Waiting), st < s.opts.max,
           Scanned(s, i, m, o, st, h), Waits(s, i, m, st, h, w),
           NEW fed, fed = Fed(s, i, m, o, w),
           \/ ~WorthKeeping(s, s.archive[i].lines[m + 1])
           \/ ~(h < PerFileCap /\ Len(o) < s.opts.max)
    PROVE  ScannedOn(s, i, m, fed, st, h, CountDown(w)) /\ SameBefore(st, o, fed)
<1> DEFINE at == HitsAt(s, i, m)
           new == HitsAt(s, i, m + 1)
<1>1. at \in Seq(Nat) /\ Len(at) \in Nat /\ Limit(s, st) \in Nat \ {0} /\ s.opts.max \in Nat
      /\ PerFileCap \in Nat
  BY HitsAtIs, LimitIs, SearchParts
<1>2. h = Fewer(Len(at), Limit(s, st)) /\ Len(o) = st + h
      /\ \A j \in 1..h : o[st + j] = HitUpto(s, i, at[j], m)
  BY DEF Scanned
<1>3. h <= Len(at)
  BY <1>1, <1>2 DEF Fewer
<1>4. /\ fed \in Seq(Result) /\ Len(fed) = Len(o)
      /\ \A r \in 1..st : fed[r] = o[r]
      /\ \A j \in 1..h : fed[st + j] = HitUpto(s, i, at[j], m + 1)
  <2>1. Further(s, i, m, o, st, h, fed)
    BY FedOn
  <2> QED BY <2>1 DEF Further
<1>5. CountDown(w) \in Seq(Waiting) /\ Waits(s, i, m + 1, st, h, CountDown(w))
  BY <1>3, WaitsOn
<1>6. \A j \in 1..h : new[j] = at[j]
  <2>1. m + 1 \in Nat /\ m <= m + 1
    OBVIOUS
  <2>2. \A j \in 1..Len(at) : new[j] = at[j]
    BY <2>1, HitsAtInitial
  <2> HIDE DEF at, new
  <2> QED BY <1>1, <1>3, <2>2
<1>7. h = Fewer(Len(new), Limit(s, st))
  <2>1. new = IF WorthKeeping(s, s.archive[i].lines[m + 1]) THEN Append(at, m + 1) ELSE at
    BY HitsAtNext
  <2>2. Len(Append(at, m + 1)) = Len(at) + 1
    <3>1. m + 1 \in Nat
      OBVIOUS
    <3> HIDE DEF at
    <3> QED BY <1>1, <3>1, AppendProperties
  <2> HIDE DEF at, new
  <2>3. CASE ~WorthKeeping(s, s.archive[i].lines[m + 1])
    BY <1>2, <2>1, <2>3
  <2>4. CASE ~(h < PerFileCap /\ Len(o) < s.opts.max)
    <3>1. h = Limit(s, st)
      BY <1>1, <1>2, <2>4 DEF Limit, Fewer
    <3> QED BY <1>1, <1>2, <2>1, <2>2, <3>1 DEF Fewer
  <2> QED BY <2>3, <2>4
<1> HIDE DEF at, new
<1>8. \A j \in 1..h : fed[st + j] = HitUpto(s, i, new[j], m + 1)
  BY <1>4, <1>6
<1>9. Scanned(s, i, m + 1, fed, st, h)
  BY <1>2, <1>4, <1>7, <1>8 DEF Scanned, new
<1> QED BY <1>4, <1>5, <1>9 DEF ScannedOn, SameBefore

\* A line that becomes a result.
LEMMA ScanHit ==
    ASSUME NEW s \in Searches, NEW i \in 1..Len(s.archive), NEW m \in Nat, NEW st \in Nat,
           NEW h \in Nat, NEW o \in Seq(Result), NEW w \in Seq(Waiting), st < s.opts.max,
           Scanned(s, i, m, o, st, h), Waits(s, i, m, st, h, w),
           NEW fed, fed = Fed(s, i, m, o, w),
           WorthKeeping(s, s.archive[i].lines[m + 1]),
           h < PerFileCap, Len(o) < s.opts.max,
           NEW more, more = Append(fed, LineHit(s, i, s.archive[i].lines, m + 1)),
           NEW wait, wait = IF s.opts.after > 0
                            THEN Append(CountDown(w), [idx |-> Len(more), need |-> s.opts.after])
                            ELSE CountDown(w)
    PROVE  ScannedOn(s, i, m, more, st, h + 1, wait) /\ SameBefore(st, o, more)
<1> DEFINE at == HitsAt(s, i, m)
           new == HitsAt(s, i, m + 1)
           p == CountDown(w)
           hit == LineHit(s, i, s.archive[i].lines, m + 1)
           need == [idx |-> Len(more), need |-> s.opts.after]
<1>1. at \in Seq(Nat) /\ Len(at) \in Nat /\ Limit(s, st) \in Nat \ {0} /\ s.opts.max \in Nat
      /\ PerFileCap \in Nat /\ s.opts.after \in Nat
  BY HitsAtIs, LimitIs, SearchParts
<1>2. h = Fewer(Len(at), Limit(s, st)) /\ Len(o) = st + h
      /\ \A j \in 1..h : o[st + j] = HitUpto(s, i, at[j], m)
  BY DEF Scanned
<1>3. h = Len(at) /\ h + 1 <= Limit(s, st)
  <2> DEFINE a == Len(at)
             mx == s.opts.max
  <2>1. a \in Nat /\ h = Fewer(a, Limit(s, st)) /\ mx \in Nat /\ st + h < mx
    BY <1>1, <1>2
  <2>2. Limit(s, st) = IF PerFileCap < mx - st THEN PerFileCap ELSE mx - st
    BY DEF Limit
  <2> HIDE DEF a, mx
  <2>3. h < Limit(s, st)
    BY <1>1, <2>1, <2>2
  <2>4. h = a
    BY <2>1, <2>3 DEF Fewer
  <2> QED BY <1>1, <2>3, <2>4 DEF a
<1>4. /\ fed \in Seq(Result) /\ Len(fed) = Len(o)
      /\ \A r \in 1..st : fed[r] = o[r]
      /\ \A j \in 1..h : fed[st + j] = HitUpto(s, i, at[j], m + 1)
  <2>1. Further(s, i, m, o, st, h, fed)
    BY FedOn
  <2> QED BY <2>1 DEF Further
<1>5. p \in Seq(Waiting) /\ Waits(s, i, m + 1, st, h, p)
  BY <1>3, WaitsOn
<1>6. new = Append(at, m + 1)
  BY HitsAtNext
<1>7. Len(new) = h + 1 /\ new[h + 1] = m + 1 /\ \A j \in 1..h : new[j] = at[j]
  <2>1. m + 1 \in Nat
    OBVIOUS
  <2> HIDE DEF at, new
  <2> QED BY <1>1, <1>3, <1>6, <2>1, AppendProperties
<1>8. hit = HitUpto(s, i, m + 1, m + 1) /\ hit \in Result
  <2>1. m + 1 \in Nat \ {0} /\ m + 1 \in 1..m+1
    OBVIOUS
  <2>2. hit = HitUpto(s, i, m + 1, m + 1)
    BY <2>1, WindowAtLine DEF LineHit, HitUpto
  <2> HIDE DEF hit
  <2> QED BY <2>1, <2>2, HitUptoIs
<1>9. more = Append(fed, hit)
  OBVIOUS
<1>10. wait = IF s.opts.after > 0 THEN Append(p, need) ELSE p
  OBVIOUS
<1> HIDE DEF at, new, p, hit
<1>11. /\ more \in Seq(Result) /\ Len(more) = Len(o) + 1 /\ more[Len(o) + 1] = hit
       /\ \A r \in 1..Len(o) : more[r] = fed[r]
  BY <1>4, <1>8, <1>9, AppendProperties
<1>12. \A r \in 1..st : more[r] = o[r]
  BY <1>2, <1>4, <1>11
<1>13. Scanned(s, i, m + 1, more, st, h + 1)
  <2>1. h + 1 = Fewer(Len(new), Limit(s, st))
    BY <1>1, <1>3, <1>7 DEF Fewer
  <2>2. ASSUME NEW j \in 1..h+1
        PROVE  more[st + j] = HitUpto(s, i, new[j], m + 1)
    <3>1. CASE j = h + 1
      <4>1. st + j = Len(o) + 1
        BY <1>2, <3>1
      <4>2. more[st + j] = hit
        BY <1>11, <4>1
      <4>3. new[j] = m + 1
        BY <1>7, <3>1
      <4> QED BY <1>8, <4>2, <4>3
    <3>2. CASE j \in 1..h
      <4>1. st + j \in 1..Len(o)
        BY <1>2, <3>2
      <4> QED BY <1>4, <1>7, <1>11, <3>2, <4>1
    <3>3. j = h + 1 \/ j \in 1..h
      OBVIOUS
    <3> QED BY <3>1, <3>2, <3>3
  <2>3. Len(more) = st + (h + 1)
    BY <1>2, <1>11
  <2> QED BY <2>1, <2>2, <2>3 DEF Scanned, new
<1>16. s.opts.after > 0 => need \in Waiting
  <2> DEFINE a == Len(more)
             b == s.opts.after
  <2>1. a \in Nat /\ b \in Nat
    BY <1>1, <1>2, <1>11
  <2>2. need = [idx |-> a, need |-> b]
    OBVIOUS
  <2> HIDE DEF a, b, need
  <2>3. b > 0 => need \in Waiting
    BY <2>1, <2>2 DEF Waiting
  <2> QED BY <2>3 DEF b
<1>14. wait \in Seq(Waiting)
  <2>1. CASE s.opts.after > 0
    <3>1. need \in Waiting
      BY <1>16, <2>1
    <3>2. wait = Append(p, need)
      BY <1>10, <2>1
    <3> HIDE DEF need
    <3>3. Append(p, need) \in Seq(Waiting)
      BY <1>5, <3>1, AppendProperties, Zenon
    <3> QED BY <3>2, <3>3, Zenon
  <2>2. CASE ~(s.opts.after > 0)
    BY <1>5, <1>10, <2>2
  <2> QED BY <2>1, <2>2
<1>15. Waits(s, i, m + 1, st, h + 1, wait)
  <2>1. /\ \A j \in 1..h : new[j] + s.opts.after > m + 1 => \E x \in 1..Len(p) : p[x].idx = st + j
        /\ \A x \in 1..Len(p) : \E j \in 1..h :
              p[x].idx = st + j /\ p[x].need = new[j] + s.opts.after - (m + 1)
    BY <1>5 DEF Waits, new
  <2>2. need.idx = st + (h + 1) /\ need.need = new[h + 1] + s.opts.after - (m + 1)
    <3> DEFINE a == s.opts.after
    <3>1. need.idx = Len(more) /\ need.need = a
      OBVIOUS
    <3>2. Len(more) = st + (h + 1)
      BY <1>2, <1>11
    <3>3. a \in Nat
      BY <1>1
    <3> HIDE DEF need, a
    <3>4. a = (m + 1) + a - (m + 1)
      BY <3>3
    <3> QED BY <1>7, <3>1, <3>2, <3>4 DEF a
  <2> HIDE DEF need
  <2>3. CASE s.opts.after > 0
    <3>1. /\ Len(wait) = Len(p) + 1 /\ wait[Len(p) + 1] = need /\ Len(p) \in Nat
          /\ \A x \in 1..Len(p) : wait[x] = p[x]
      <4>1. wait = Append(p, need)
        BY <1>10, <2>3
      <4>2. need \in Waiting
        BY <1>16, <2>3
      <4> QED BY <1>5, <4>1, <4>2, AppendProperties, LenProperties
    <3>2. ASSUME NEW j \in 1..h+1, new[j] + s.opts.after > m + 1
          PROVE  \E x \in 1..Len(wait) : wait[x].idx = st + j
      <4>1. CASE j = h + 1
        <5>1. Len(p) + 1 \in 1..Len(wait)
          BY <3>1
        <5> QED BY <2>2, <3>1, <4>1, <5>1
      <4>2. CASE j \in 1..h
        <5>1. PICK x \in 1..Len(p) : p[x].idx = st + j
          BY <2>1, <3>2, <4>2
        <5>2. x \in 1..Len(wait)
          BY <3>1
        <5> QED BY <3>1, <5>1, <5>2
      <4> QED BY <4>1, <4>2
    <3>3. ASSUME NEW x \in 1..Len(wait)
          PROVE  \E j \in 1..h+1 :
                    wait[x].idx = st + j /\ wait[x].need = new[j] + s.opts.after - (m + 1)
      <4>1. CASE x = Len(p) + 1
        <5>1. h + 1 \in 1..h+1
          OBVIOUS
        <5> QED BY <2>2, <3>1, <4>1, <5>1
      <4>2. CASE x \in 1..Len(p)
        <5>1. PICK j \in 1..h : p[x].idx = st + j /\ p[x].need = new[j] + s.opts.after - (m + 1)
          BY <2>1, <4>2
        <5>2. j \in 1..h+1
          OBVIOUS
        <5> QED BY <3>1, <4>2, <5>1, <5>2
      <4> QED BY <3>1, <4>1, <4>2
    <3> QED BY <3>2, <3>3 DEF Waits, new
  <2>4. CASE ~(s.opts.after > 0)
    <3>1. wait = p
      BY <1>10, <2>4
    <3>2. \A j \in 1..h+1 : new[j] + s.opts.after > m + 1 => j \in 1..h
      BY <1>1, <1>7, <2>4
    <3>3. \A j \in 1..h : j \in 1..h+1
      OBVIOUS
    <3>4. \A j \in 1..h+1 : new[j] + s.opts.after > m + 1 => \E x \in 1..Len(wait) : wait[x].idx = st + j
      BY <2>1, <3>1, <3>2
    <3>5. \A x \in 1..Len(wait) : \E j \in 1..h+1 :
              wait[x].idx = st + j /\ wait[x].need = new[j] + s.opts.after - (m + 1)
      BY <2>1, <3>1, <3>3
    <3> QED BY <3>4, <3>5 DEF Waits, new
  <2> QED BY <2>3, <2>4
<1> QED BY <1>11, <1>12, <1>13, <1>14, <1>15 DEF ScannedOn, SameBefore

\* What one line does to the results, the count of hits and the waiting list.
LineStep(s, i, m, o, h, w, more, g, wait) ==
    LET fed == Fed(s, i, m, o, w)
    IN  IF WorthKeeping(s, s.archive[i].lines[m + 1]) /\ h < PerFileCap /\ Len(o) < s.opts.max
        THEN /\ more = Append(fed, LineHit(s, i, s.archive[i].lines, m + 1))
             /\ g = h + 1
             /\ wait = IF s.opts.after > 0
                       THEN Append(CountDown(w), [idx |-> Len(more), need |-> s.opts.after])
                       ELSE CountDown(w)
        ELSE more = fed /\ g = h /\ wait = CountDown(w)

LEMMA ScanStep ==
    ASSUME NEW s \in Searches, NEW i \in 1..Len(s.archive), NEW m \in Nat, NEW st \in Nat,
           NEW h \in Nat, NEW o \in Seq(Result), NEW w \in Seq(Waiting), st < s.opts.max,
           Scanned(s, i, m, o, st, h), Waits(s, i, m, st, h, w),
           NEW more, NEW g, NEW wait, LineStep(s, i, m, o, h, w, more, g, wait)
    PROVE  ScannedOn(s, i, m, more, st, g, wait) /\ SameBefore(st, o, more)
<1>1. CASE WorthKeeping(s, s.archive[i].lines[m + 1]) /\ h < PerFileCap /\ Len(o) < s.opts.max
  <2>1. /\ more = Append(Fed(s, i, m, o, w), LineHit(s, i, s.archive[i].lines, m + 1))
        /\ g = h + 1
        /\ wait = IF s.opts.after > 0
                  THEN Append(CountDown(w), [idx |-> Len(more), need |-> s.opts.after])
                  ELSE CountDown(w)
    BY <1>1 DEF LineStep
  <2> QED BY <1>1, <2>1, ScanHit
<1>2. CASE ~(WorthKeeping(s, s.archive[i].lines[m + 1]) /\ h < PerFileCap /\ Len(o) < s.opts.max)
  <2>1. more = Fed(s, i, m, o, w) /\ g = h /\ wait = CountDown(w)
    BY <1>2 DEF LineStep
  <2>2. \/ ~WorthKeeping(s, s.archive[i].lines[m + 1])
        \/ ~(h < PerFileCap /\ Len(o) < s.opts.max)
    BY <1>2
  <2> QED BY <2>1, <2>2, ScanOn
<1> QED BY <1>1, <1>2

\* Before its first line a file has no results.
LEMMA ScanStart ==
    ASSUME NEW s \in Searches, NEW i \in 1..Len(s.archive), NEW o \in Seq(Result),
           Len(o) < s.opts.max
    PROVE  Scanned(s, i, 0, o, Len(o), 0) /\ Waits(s, i, 0, Len(o), 0, <<>>)
<1>1. HitsAt(s, i, 0) = <<>>
  <2>1. HitsAt(s, i, 0) = Ascending({})
    <3>1. {k \in 1..0 : WorthKeeping(s, s.archive[i].lines[k])} = {}
      OBVIOUS
    <3> QED BY <3>1 DEF HitsAt
  <2> QED BY <2>1, AscendingEmpty
<1>2. Len(o) \in Nat
  BY LenProperties
<1>3. Limit(s, Len(o)) \in Nat \ {0}
  BY <1>2, LimitIs
<1>4. 0 = Fewer(Len(HitsAt(s, i, 0)), Limit(s, Len(o)))
  BY <1>1, <1>3 DEF Fewer
<1> QED BY <1>1, <1>2, <1>4 DEF Scanned, Waits

(***************************************************************************)
(* The end of a file.                                                      *)
(***************************************************************************)

\* The scan may stop after m lines: no further line changes the results.
Complete(s, i, m, st, h) ==
    /\ h = Fewer(Len(HitsAt(s, i, Readable(s.archive[i].lines))), Limit(s, st))
    /\ \A j \in 1..h : HitUpto(s, i, HitsAt(s, i, m)[j], m) = Hit(s, i, HitsAt(s, i, m)[j])

\* The scanner has nothing more.
LEMMA CompleteAtEnd ==
    ASSUME NEW s, NEW i, NEW m, NEW o, NEW st, NEW h,
           m = Readable(s.archive[i].lines), Scanned(s, i, m, o, st, h)
    PROVE  Complete(s, i, m, st, h)
BY DEF Scanned, Complete, Hit

\* The results are full and nothing waits: the early stop loses nothing.
LEMMA CompleteWhenFull ==
    ASSUME NEW s \in Searches, NEW i \in 1..Len(s.archive),
           NEW m \in 0..Readable(s.archive[i].lines), NEW o \in Seq(Result),
           NEW st \in Nat, st < s.opts.max, NEW h \in Nat,
           Scanned(s, i, m, o, st, h), Waits(s, i, m, st, h, <<>>), Len(o) >= s.opts.max
    PROVE  Complete(s, i, m, st, h)
<1> DEFINE at == HitsAt(s, i, m)
           r == Readable(s.archive[i].lines)
           all == HitsAt(s, i, r)
           l == Limit(s, st)
<1>1. r \in Nat /\ m \in Nat /\ m <= r
  <2>1. s.archive[i].lines \in Seq(Line) /\ Len(s.archive[i].lines) \in Nat
    BY EntryParts
  <2>2. r \in 0..Len(s.archive[i].lines)
    BY <2>1, ReadableIs
  <2> HIDE DEF r
  <2>3. r \in Nat
    BY <2>1, <2>2
  <2> QED BY <2>3 DEF r
<1>2. Len(at) \in Nat /\ Len(all) \in Nat /\ Len(at) <= Len(all)
  BY <1>1, HitsAtIs, HitsAtInitial
<1>3. l \in Nat \ {0}
  BY LimitIs
<1>4. h = Fewer(Len(at), l) /\ Len(o) = st + h
  BY DEF Scanned
<1>5. s.opts.max \in Nat /\ PerFileCap \in Nat /\ s.opts.after \in Nat
  BY SearchParts
<1>6. h >= l
  <2>1. l <= s.opts.max - st
    BY <1>5 DEF Limit
  <2> HIDE DEF l
  <2> QED BY <1>3, <1>4, <1>5, <2>1
<1>7. h = Fewer(Len(all), l)
  <2> HIDE DEF at, all, l, r
  <2> QED BY <1>2, <1>3, <1>4, <1>6 DEF Fewer
<1>8. h <= Len(at)
  <2> HIDE DEF at, all, l, r
  <2> QED BY <1>2, <1>3, <1>4 DEF Fewer
<1>9. ASSUME NEW j \in 1..h
      PROVE  HitUpto(s, i, at[j], m) = Hit(s, i, at[j])
  <2>1. at[j] \in 1..m
    <3>1. j \in 1..Len(at)
      <4> HIDE DEF at
      <4> QED BY <1>2, <1>8
    <3> QED BY <1>1, <3>1, HitsAtIs
  <2>2. ~(at[j] + s.opts.after > m)
    BY DEF Waits
  <2>3. at[j] + s.opts.after <= m
    <3> HIDE DEF at
    <3> QED BY <1>1, <1>5, <2>1, <2>2
  <2>4. WindowUpto(s, s.archive[i].lines, at[j], m) = WindowUpto(s, s.archive[i].lines, at[j], r)
    <3> DEFINE k == at[j]
    <3>1. k \in 1..m /\ k + s.opts.after <= m
      BY <2>1, <2>3
    <3> HIDE DEF k, r
    <3>2. WindowUpto(s, s.archive[i].lines, k, m) = WindowUpto(s, s.archive[i].lines, k, r)
      BY <1>1, <3>1, WindowWhole
    <3> QED BY <3>2 DEF k
  <2> QED BY <2>4 DEF HitUpto, Hit
<1> QED BY <1>7, <1>9 DEF Complete

(***************************************************************************)
(* The state of the search, step by step.                                  *)
(***************************************************************************)

\* The file that is being read has room for results and its results are the
\* hits of the lines read so far; before it is swept nothing is missing,
\* unless the deadline cut it.
FileInv ==
    /\ phase \in {"lines", "sweep"} =>
         /\ Selected(search, e) /\ Reads(search, pass, e)
         /\ start < search.opts.max
    /\ phase = "lines" =>
         /\ n <= Readable(search.archive[e].lines)
         /\ Scanned(search, e, n, out, start, hits)
         /\ Waits(search, e, n, start, hits, pend)
    /\ phase = "sweep" =>
         \E m \in 0..Readable(search.archive[e].lines) :
            /\ Scanned(search, e, m, out, start, hits)
            /\ ~cut => Complete(search, e, m, start, hits)
    /\ cut => expired /\ pass # "archive"
    /\ cut /\ pass = "indexed" => phase # "lines"

LEMMA NameHitIs ==
    ASSUME NEW i \in Nat
    PROVE  NameHit(i) \in Result /\ NameHit(i).entry = i /\ NameHit(i).line = 0
BY DEF NameHit, Result

\* The sweep keeps results, in their order.
LEMMA SweptType ==
    ASSUME NEW s, NEW o \in Seq(Result)
    PROVE  Swept(s, o) \in Seq(Result)
<1> DEFINE S == {r \in DOMAIN o : Survives(o[r])}
<1>1. Len(o) \in Nat /\ DOMAIN o = 1..Len(o)
  BY LenProperties
<1>2. S \in SUBSET (1..Len(o))
  BY <1>1
<1>3. Pick(o, S) \in Seq(Result)
  <2> HIDE DEF S
  <2> QED BY <1>2, PickIs, Zenon
<1> QED BY <1>3 DEF Swept

LEMMA InitTypes ==
    ASSUME Init
    PROVE  TypeOK /\ FileInv
<1>1. search \in Searches /\ search.opts.indexed \in BOOLEAN /\ Len(search.archive) \in Nat
  BY SearchParts DEF Init
<1>2. <<>> \in Seq(Result) /\ <<>> \in Seq(Waiting) /\ <<>> \in Seq(Nat)
  OBVIOUS
<1>3. 0 \in 0..Len(search.archive)
  BY <1>1
<1> QED BY <1>1, <1>2, <1>3 DEF Init, TypeOK, FileInv

\* The facts about the entry that is being read.
LEMMA AtEntry ==
    ASSUME TypeOK
    PROVE  /\ search \in Searches /\ Len(search.archive) \in Nat /\ e \in Nat
           /\ search.opts.max \in Nat \ {0}
           /\ Len(out) \in Nat
           /\ phase \in {"lines", "sweep"} => e \in 1..Len(search.archive)
           /\ e < Len(search.archive) => e + 1 \in 1..Len(search.archive)
<1>1. search \in Searches /\ Len(search.archive) \in Nat /\ search.opts.max \in Nat \ {0}
  BY SearchParts DEF TypeOK
<1>2. e \in 0..Len(search.archive) /\ (phase \in {"lines", "sweep"} => e # 0)
  BY DEF TypeOK
<1>3. Len(out) \in Nat
  BY LenProperties DEF TypeOK
<1> QED BY <1>1, <1>2, <1>3

LEMMA StopEntriesTypes ==
    ASSUME TypeOK, FileInv, StopEntries
    PROVE  TypeOK' /\ FileInv'
<1>1. /\ phase = "entry"
      /\ UNCHANGED <<search, out, capped, expired, cut, n, start, hits, pend>>
      /\ timedOut' \in BOOLEAN
      /\ \/ pass = "indexed" /\ pass' = "leftout" /\ e' = 0 /\ phase' = "entry"
         \/ phase' = "done" /\ pass' = pass /\ e' = e
  BY DEF StopEntries, EndPass, fileVars, TypeOK
<1>2. 0 \in 0..Len(search.archive)
  BY AtEntry
<1>3. TypeOK'
  BY <1>1, <1>2 DEF TypeOK
<1>4. FileInv'
  BY <1>1 DEF FileInv
<1> QED BY <1>3, <1>4

LEMMA NextEntryTypes ==
    ASSUME TypeOK, FileInv, NextEntry
    PROVE  TypeOK' /\ FileInv'
<1> DEFINE reads == Selected(search, e') /\ Reads(search, pass, e') /\ Len(out') < search.opts.max
<1>1. /\ phase = "entry" /\ e < Len(search.archive) /\ Len(out) < search.opts.max /\ ~CtxErr
      /\ e' = e + 1
      /\ out' = IF Named(search, pass, e') THEN Append(out, NameHit(e')) ELSE out
      /\ \/ /\ reads /\ phase' = "lines"
            /\ n' = 0 /\ hits' = 0 /\ pend' = <<>> /\ start' = Len(out')
         \/ phase' = phase /\ UNCHANGED <<n, start, hits, pend>>
      /\ UNCHANGED <<search, pass, capped, timedOut, expired, cut>>
  BY DEF NextEntry, fileVars
<1> HIDE DEF reads
<1>2. e' \in 1..Len(search.archive) /\ e' \in 0..Len(search.archive) /\ e' # 0 /\ e' \in Nat
      /\ search \in Searches
  BY <1>1, AtEntry
<1>3. out' \in Seq(Result)
  <2>1. NameHit(e') \in Result /\ out \in Seq(Result)
    BY <1>2, NameHitIs DEF TypeOK
  <2>2. Append(out, NameHit(e')) \in Seq(Result)
    BY <2>1, AppendProperties
  <2> QED BY <1>1, <2>1, <2>2
<1>4. Len(out') \in Nat
  BY <1>3, LenProperties
<1>5. <<>> \in Seq(Waiting)
  OBVIOUS
<1>9. n' \in Nat /\ start' \in Nat /\ hits' \in Nat /\ pend' \in Seq(Waiting)
      /\ phase' \in {"entry", "lines"}
  <2>1. n \in Nat /\ start \in Nat /\ hits \in Nat /\ pend \in Seq(Waiting)
    BY DEF TypeOK
  <2>2. CASE n' = 0 /\ hits' = 0 /\ pend' = <<>> /\ start' = Len(out') /\ phase' = "lines"
    BY <1>4, <1>5, <2>2
  <2>3. CASE phase' = phase /\ UNCHANGED <<n, start, hits, pend>>
    BY <1>1, <2>1, <2>3
  <2> QED BY <1>1, <2>2, <2>3
<1>6. TypeOK'
  BY <1>1, <1>2, <1>3, <1>9 DEF TypeOK
<1>7. CASE reads /\ phase' = "lines" /\ n' = 0 /\ hits' = 0 /\ pend' = <<>> /\ start' = Len(out')
  <2>1. Scanned(search, e', 0, out', Len(out'), 0) /\ Waits(search, e', 0, Len(out'), 0, <<>>)
    BY <1>2, <1>3, <1>7, ScanStart DEF reads
  <2>2. 0 <= Readable(search.archive[e'].lines)
    <3>1. search.archive[e'].lines \in Seq(Line) /\ Len(search.archive[e'].lines) \in Nat
      BY <1>2, EntryParts
    <3>2. Readable(search.archive[e'].lines) \in 0..Len(search.archive[e'].lines)
      BY <3>1, ReadableIs
    <3> QED BY <3>1, <3>2
  <2>3. cut => expired /\ pass # "archive"
    BY DEF FileInv
  <2>4. ~(cut /\ pass = "indexed")
    BY <1>1, <2>3 DEF CtxErr
  <2> QED BY <1>1, <1>6, <1>7, <2>1, <2>2, <2>3, <2>4 DEF FileInv, reads
<1>8. CASE phase' = phase /\ UNCHANGED <<n, start, hits, pend>>
  BY <1>1, <1>6, <1>8 DEF FileInv
<1> QED BY <1>1, <1>7, <1>8

LEMMA ExpireTypes ==
    ASSUME TypeOK, FileInv, Expire
    PROVE  TypeOK' /\ FileInv'
BY DEF Expire, fileVars, TypeOK, FileInv

\* A line is read, or the deadline stops the scan at it.
LEMMA ScanLineParts ==
    ASSUME TypeOK, FileInv, ScanLine
    PROVE  /\ phase = "lines" /\ n' = n + 1
           /\ n + 1 \in 1..Readable(search.archive[e].lines)
           /\ UNCHANGED <<search, pass, e, start, capped, timedOut, expired>>
           /\ \/ CtxErr /\ cut' = TRUE /\ phase' = "sweep" /\ UNCHANGED <<out, hits, pend>>
              \/ /\ LineStep(search, e, n, out, hits, pend, out', hits', pend')
                 /\ phase' = IF Len(out') >= search.opts.max /\ pend' = <<>> THEN "sweep" ELSE "lines"
                 /\ cut' = cut
<1> DEFINE lines == search.archive[e].lines
<1>1. e \in 1..Len(search.archive) /\ search \in Searches
  BY AtEntry DEF ScanLine
<1>2. lines \in Seq(Line)
  BY <1>1, EntryParts
<1>3. Scannable(lines) = 1..Readable(lines)
  BY <1>2, ReadableIs
<1>4. n + 1 \in Scannable(lines)
  BY DEF ScanLine
<1>5. CASE n' % CheckEvery = 0 /\ CtxErr
  BY <1>3, <1>4, <1>5 DEF ScanLine
<1>6. CASE ~(n' % CheckEvery = 0 /\ CtxErr)
  <2>1. /\ LineStep(search, e, n, out, hits, pend, out', hits', pend')
        /\ phase' = IF Len(out') >= search.opts.max /\ pend' = <<>> THEN "sweep" ELSE "lines"
        /\ cut' = cut
    BY <1>6 DEF ScanLine, LineStep, Fed
  <2> QED BY <1>3, <1>4, <2>1 DEF ScanLine
<1> QED BY <1>5, <1>6

LEMMA ScanLineTypes ==
    ASSUME TypeOK, FileInv, ScanLine
    PROVE  TypeOK' /\ FileInv'
<1> DEFINE r == Readable(search.archive[e].lines)
<1>1. /\ search \in Searches /\ e \in 1..Len(search.archive)
      /\ out \in Seq(Result) /\ pend \in Seq(Waiting) /\ n \in Nat /\ start \in Nat /\ hits \in Nat
  BY AtEntry, ScanLineParts DEF TypeOK
<1>2. /\ phase = "lines" /\ n' = n + 1 /\ n + 1 \in 1..r
      /\ UNCHANGED <<search, pass, e, start, capped, timedOut, expired>>
  BY ScanLineParts
<1>3. /\ Selected(search, e) /\ Reads(search, pass, e) /\ start < search.opts.max
      /\ Scanned(search, e, n, out, start, hits)
      /\ Waits(search, e, n, start, hits, pend)
      /\ cut => expired /\ pass # "archive"
      /\ cut /\ pass = "indexed" => phase # "lines"
  BY <1>2 DEF FileInv
<1>4. r \in Nat
  <2>1. search.archive[e].lines \in Seq(Line) /\ Len(search.archive[e].lines) \in Nat
    BY <1>1, EntryParts
  <2>2. r \in 0..Len(search.archive[e].lines)
    BY <2>1, ReadableIs
  <2> HIDE DEF r
  <2> QED BY <2>1, <2>2
<1>5. CASE CtxErr /\ cut' = TRUE /\ phase' = "sweep" /\ UNCHANGED <<out, hits, pend>>
  <2>1. TypeOK'
    BY <1>1, <1>2, <1>5 DEF TypeOK
  <2>2. n \in 0..r
    <3> HIDE DEF r
    <3> QED BY <1>1, <1>2, <1>4
  <2>3. expired /\ pass = "indexed"
    BY <1>5 DEF CtxErr
  <2> QED BY <1>2, <1>3, <1>5, <2>1, <2>2, <2>3 DEF FileInv
<1>6. CASE /\ LineStep(search, e, n, out, hits, pend, out', hits', pend')
           /\ phase' = IF Len(out') >= search.opts.max /\ pend' = <<>> THEN "sweep" ELSE "lines"
           /\ cut' = cut
  <2>1. ScannedOn(search, e, n, out', start, hits', pend')
    BY <1>1, <1>3, <1>6, ScanStep
  <2>2. /\ out' \in Seq(Result) /\ pend' \in Seq(Waiting)
        /\ Scanned(search, e, n + 1, out', start, hits')
        /\ Waits(search, e, n + 1, start, hits', pend')
    BY <2>1 DEF ScannedOn
  <2>3. hits' \in Nat
    BY <1>1, <1>6 DEF LineStep
  <2>4. TypeOK'
    BY <1>1, <1>2, <1>6, <2>2, <2>3 DEF TypeOK
  <2>5. n + 1 <= r /\ n + 1 \in 0..r
    <3> HIDE DEF r
    <3> QED BY <1>1, <1>2, <1>4
  <2>6. ASSUME phase' = "sweep"
        PROVE  Complete(search, e, n + 1, start, hits')
    <3>1. Len(out') >= search.opts.max /\ pend' = <<>>
      BY <1>6, <2>6
    <3>2. Waits(search, e, n + 1, start, hits', <<>>)
      BY <2>2, <3>1
    <3> QED BY <1>1, <1>3, <2>2, <2>3, <2>5, <3>1, <3>2, CompleteWhenFull
  <2> QED BY <1>2, <1>3, <1>6, <2>2, <2>4, <2>5, <2>6 DEF FileInv
<1> QED BY <1>5, <1>6, ScanLineParts

LEMMA EndOfFileTypes ==
    ASSUME TypeOK, FileInv, EndOfFile
    PROVE  TypeOK' /\ FileInv'
<1> DEFINE r == Readable(search.archive[e].lines)
<1>1. /\ phase = "lines" /\ phase' = "sweep" /\ n + 1 \notin Scannable(search.archive[e].lines)
      /\ UNCHANGED <<search, pass, e, n, out, start, hits, pend, capped, timedOut, expired, cut>>
  BY DEF EndOfFile
<1>2. search \in Searches /\ e \in 1..Len(search.archive) /\ n \in Nat
  BY <1>1, AtEntry DEF TypeOK
<1>3. r \in Nat /\ Scannable(search.archive[e].lines) = 1..r
  <2>1. search.archive[e].lines \in Seq(Line) /\ Len(search.archive[e].lines) \in Nat
    BY <1>2, EntryParts
  <2>2. r \in 0..Len(search.archive[e].lines) /\ Scannable(search.archive[e].lines) = 1..r
    BY <2>1, ReadableIs
  <2> HIDE DEF r
  <2> QED BY <2>1, <2>2
<1>4. n <= r /\ Scanned(search, e, n, out, start, hits)
  BY <1>1 DEF FileInv
<1>5. n = r /\ n \in 0..r
  <2> HIDE DEF r
  <2> QED BY <1>1, <1>2, <1>3, <1>4
<1>6. Complete(search, e, n, start, hits)
  BY <1>4, <1>5, CompleteAtEnd
<1>7. TypeOK'
  BY <1>1 DEF TypeOK
<1> QED BY <1>1, <1>4, <1>5, <1>6, <1>7 DEF FileInv

LEMMA SweepTypes ==
    ASSUME TypeOK, FileInv, Sweep
    PROVE  TypeOK' /\ FileInv'
<1>1. /\ phase = "sweep" /\ phase' = "entry"
      /\ out' = SubSeq(out, 1, start) \o Swept(search, SubSeq(out, start + 1, Len(out)))
      /\ capped' = IF hits >= PerFileCap THEN Append(capped, e) ELSE capped
      /\ UNCHANGED <<search, pass, e, n, start, hits, pend, timedOut, expired, cut>>
  BY DEF Sweep, fileVars
<1>2. out \in Seq(Result) /\ start \in Nat /\ Len(out) \in Nat /\ hits \in Nat
  BY LenProperties DEF TypeOK
<1>3. start <= Len(out)
  BY <1>1, <1>2 DEF FileInv, Scanned
<1>4. SubSeq(out, 1, start) \in Seq(Result) /\ SubSeq(out, start + 1, Len(out)) \in Seq(Result)
  <2>1. \A k \in 1..Len(out) : out[k] \in Result
    BY <1>2, ElementOfSeq
  <2> QED BY <1>2, <1>3, <2>1, SubSeqProperties
<1>5. Swept(search, SubSeq(out, start + 1, Len(out))) \in Seq(Result)
  BY <1>4, SweptType
<1>6. out' \in Seq(Result)
  BY <1>1, <1>4, <1>5, ConcatProperties
<1>7. capped' \in Seq(Nat)
  <2>1. capped \in Seq(Nat) /\ e \in Nat
    BY AtEntry DEF TypeOK
  <2>2. Append(capped, e) \in Seq(Nat)
    BY <2>1, AppendProperties
  <2> QED BY <1>1, <2>1, <2>2
<1>8. TypeOK'
  BY <1>1, <1>6, <1>7 DEF TypeOK
<1> QED BY <1>1, <1>8 DEF FileInv

LEMMA NextTypes ==
    ASSUME TypeOK, FileInv, [Next]_vars
    PROVE  TypeOK' /\ FileInv'
<1>1. CASE UNCHANGED vars
  BY <1>1 DEF vars, TypeOK, FileInv
<1> QED BY <1>1, StopEntriesTypes, NextEntryTypes, ScanLineTypes, EndOfFileTypes, SweepTypes,
           ExpireTypes DEF Next

\* Every field of the search keeps its type, and at any time the results of the
\* file that is read are the first of its hits, each with the context of the
\* lines read so far, as the countdowns of searchLines account for it.
THEOREM SearchTypes == Spec => [](TypeOK /\ FileInv)
<1>1. Init => TypeOK /\ FileInv
  BY InitTypes
<1>2. (TypeOK /\ FileInv) /\ [Next]_vars => (TypeOK /\ FileInv)'
  BY NextTypes
<1> QED BY <1>1, <1>2, PTL DEF Spec

(***************************************************************************)
(* The full scan, entry by entry.                                          *)
(***************************************************************************)

LEMMA PartIs ==
    ASSUME NEW A, NEW q \in Seq(A), NEW a \in Nat \ {0}, NEW b \in Nat, a <= b + 1, b <= Len(q)
    PROVE  /\ SubSeq(q, a, b) \in Seq(A)
           /\ Len(SubSeq(q, a, b)) = b + 1 - a
           /\ \A k \in 1..b+1-a : SubSeq(q, a, b)[k] = q[a + k - 1]
<1>1. Len(q) \in Nat /\ a \in Int /\ b \in Int
  BY LenProperties
<1>2. \A k \in a..b : q[k] \in A
  BY <1>1, ElementOfSeq
<1>3. /\ SubSeq(q, a, b) \in Seq(A)
      /\ Len(SubSeq(q, a, b)) = IF a <= b THEN b - a + 1 ELSE 0
      /\ \A k \in 1..b-a+1 : SubSeq(q, a, b)[k] = q[a + k - 1]
  BY <1>1, <1>2, SubSeqProperties
<1>4. b - a + 1 = b + 1 - a /\ (IF a <= b THEN b - a + 1 ELSE 0) = b + 1 - a
  BY <1>1
<1> QED BY <1>3, <1>4

LEMMA UptoIs ==
    ASSUME NEW A, NEW q \in Seq(A), NEW k \in Nat
    PROVE  /\ Upto(q, k) \in Seq(A)
           /\ Len(Upto(q, k)) = Fewer(Len(q), k)
           /\ \A j \in 1..Fewer(Len(q), k) : Upto(q, k)[j] = q[j]
<1> DEFINE b == IF k < Len(q) THEN k ELSE Len(q)
<1>1. Len(q) \in Nat
  BY LenProperties
<1>2. b \in Nat /\ b <= Len(q) /\ b = Fewer(Len(q), k) /\ 1 <= b + 1 /\ 1 \in Nat \ {0}
  BY <1>1 DEF Fewer
<1>3. Upto(q, k) = SubSeq(q, 1, b)
  BY DEF Upto
<1> HIDE DEF b
<1>4. /\ SubSeq(q, 1, b) \in Seq(A)
      /\ Len(SubSeq(q, 1, b)) = b + 1 - 1
      /\ \A j \in 1..b+1-1 : SubSeq(q, 1, b)[j] = q[1 + j - 1]
  BY <1>2, PartIs
<1>5. b + 1 - 1 = b /\ \A j \in 1..b : 1 + j - 1 = j
  BY <1>2
<1> QED BY <1>2, <1>3, <1>4, <1>5

\* What there is to find in entry i: its matches under the limits, when st
\* results come before them.
Found(s, i, st) == Upto(Upto(Matches(s, i), PerFileCap), s.opts.max - st)

\* The scanner's reach is within the file.
LEMMA ReadableOf ==
    ASSUME NEW s \in Searches, NEW i \in 1..Len(s.archive)
    PROVE  /\ Readable(s.archive[i].lines) \in Nat
           /\ Readable(s.archive[i].lines) <= Len(s.archive[i].lines)
           /\ Scannable(s.archive[i].lines) = 1..Readable(s.archive[i].lines)
<1> DEFINE r == Readable(s.archive[i].lines)
<1>1. s.archive[i].lines \in Seq(Line) /\ Len(s.archive[i].lines) \in Nat
  BY EntryParts
<1>2. r \in 0..Len(s.archive[i].lines) /\ Scannable(s.archive[i].lines) = 1..r
  BY <1>1, ReadableIs
<1> HIDE DEF r
<1>3. r \in Nat /\ r <= Len(s.archive[i].lines)
  BY <1>1, <1>2
<1> QED BY <1>2, <1>3 DEF r

MatchesAre(s, i, q) ==
    /\ q \in Seq(Result)
    /\ Len(q) = Len(HitsAt(s, i, Readable(s.archive[i].lines)))
    /\ \A j \in 1..Len(q) : q[j] = Hit(s, i, HitsAt(s, i, Readable(s.archive[i].lines))[j])

LEMMA MatchesIs ==
    ASSUME NEW s \in Searches, NEW i \in 1..Len(s.archive)
    PROVE  MatchesAre(s, i, Matches(s, i))
<1> DEFINE r == Readable(s.archive[i].lines)
           at == HitsAt(s, i, r)
           q == [h \in 1..Len(at) |-> Hit(s, i, at[h])]
<1>1. r \in Nat
  BY ReadableOf
<1>2. DOMAIN at = 1..Len(at) /\ Len(at) \in Nat
  BY <1>1, HitsAtIs
<1>3. Matches(s, i) = q
  BY <1>2 DEF Matches, MatchesUpto
<1>4. \A j \in 1..Len(at) : at[j] \in 1..r
  BY <1>1, HitsAtIs
<1> HIDE DEF at
<1>5. \A j \in 1..Len(at) : Hit(s, i, at[j]) \in Result
  BY <1>1, <1>4, HitUptoIs DEF Hit
<1>6. q \in [1..Len(at) -> Result]
  BY <1>5
<1>7. \A j \in 1..Len(at) : q[j] = Hit(s, i, at[j])
  OBVIOUS
<1> HIDE DEF q
<1>8. q \in Seq(Result) /\ Len(q) = Len(at)
  BY <1>2, <1>6
<1> QED BY <1>3, <1>7, <1>8 DEF MatchesAre, at

FoundIsFor(s, i, st, q) ==
    /\ q \in Seq(Result)
    /\ Len(q) = Fewer(Len(HitsAt(s, i, Readable(s.archive[i].lines))), Limit(s, st))
    /\ \A j \in 1..Len(q) : q[j] = Hit(s, i, HitsAt(s, i, Readable(s.archive[i].lines))[j])

LEMMA FoundIs ==
    ASSUME NEW s \in Searches, NEW i \in 1..Len(s.archive), NEW st \in Nat, st <= s.opts.max
    PROVE  FoundIsFor(s, i, st, Found(s, i, st))
<1> DEFINE q == Matches(s, i)
           c == Upto(q, PerFileCap)
           f == Upto(c, s.opts.max - st)
           l == Len(HitsAt(s, i, Readable(s.archive[i].lines)))
<1>1. q \in Seq(Result) /\ Len(q) = l
      /\ \A j \in 1..Len(q) : q[j] = Hit(s, i, HitsAt(s, i, Readable(s.archive[i].lines))[j])
  BY MatchesIs DEF MatchesAre
<1>2. PerFileCap \in Nat /\ s.opts.max - st \in Nat /\ s.opts.max \in Nat
  BY SearchParts
<1> HIDE DEF q
<1>3. c \in Seq(Result) /\ Len(c) = Fewer(l, PerFileCap)
      /\ \A j \in 1..Fewer(l, PerFileCap) : c[j] = q[j]
  BY <1>1, <1>2, UptoIs
<1> HIDE DEF c
<1>4. f \in Seq(Result) /\ Len(f) = Fewer(Len(c), s.opts.max - st)
      /\ \A j \in 1..Fewer(Len(c), s.opts.max - st) : f[j] = c[j]
  BY <1>2, <1>3, UptoIs
<1>5. l \in Nat
  BY <1>1, LenProperties
<1>6. Found(s, i, st) = f
  BY DEF Found, c, q
<1> HIDE DEF f, l
<1>7. Len(f) = Fewer(l, Limit(s, st))
  BY <1>2, <1>3, <1>4, <1>5 DEF Fewer, Limit
<1>8. \A j \in 1..Len(f) : j \in 1..Len(c) /\ j \in 1..Len(q)
  BY <1>1, <1>2, <1>3, <1>4, <1>5 DEF Fewer
<1>9. \A j \in 1..Len(f) : f[j] = q[j]
  BY <1>3, <1>4, <1>8
<1>10. \A j \in 1..Len(f) : f[j] = Hit(s, i, HitsAt(s, i, Readable(s.archive[i].lines))[j])
  BY <1>1, <1>8, <1>9
<1> QED BY <1>4, <1>6, <1>7, <1>10 DEF FoundIsFor, l

\* A file that was read to its end has left what there is to find.
LEMMA FileFound ==
    ASSUME NEW s \in Searches, NEW i \in 1..Len(s.archive),
           NEW m \in 0..Readable(s.archive[i].lines), NEW o \in Seq(Result),
           NEW st \in Nat, st < s.opts.max, NEW h \in Nat,
           Scanned(s, i, m, o, st, h), Complete(s, i, m, st, h)
    PROVE  SubSeq(o, st + 1, Len(o)) = Found(s, i, st)
<1> DEFINE r == Readable(s.archive[i].lines)
           f == Found(s, i, st)
           p == SubSeq(o, st + 1, Len(o))
<1>1. /\ f \in Seq(Result) /\ Len(f) = Fewer(Len(HitsAt(s, i, r)), Limit(s, st))
      /\ \A j \in 1..Len(f) : f[j] = Hit(s, i, HitsAt(s, i, r)[j])
  <2>1. st <= s.opts.max
    BY SearchParts
  <2> QED BY <2>1, FoundIs DEF FoundIsFor
<1>2. /\ h = Fewer(Len(HitsAt(s, i, r)), Limit(s, st))
      /\ \A j \in 1..h : HitUpto(s, i, HitsAt(s, i, m)[j], m) = Hit(s, i, HitsAt(s, i, m)[j])
  BY DEF Complete
<1>3. /\ h = Fewer(Len(HitsAt(s, i, m)), Limit(s, st)) /\ Len(o) = st + h
      /\ \A j \in 1..h : o[st + j] = HitUpto(s, i, HitsAt(s, i, m)[j], m)
  BY DEF Scanned
<1>4. r \in Nat /\ m \in Nat /\ m <= r
  <2>1. r \in Nat
    BY ReadableOf
  <2> HIDE DEF r
  <2>2. m \in 0..r
    BY DEF r
  <2> QED BY <2>1, <2>2
<1>5. Len(HitsAt(s, i, m)) \in Nat /\ \A j \in 1..Len(HitsAt(s, i, m)) : HitsAt(s, i, m)[j] = HitsAt(s, i, r)[j]
  BY <1>4, HitsAtIs, HitsAtInitial
<1>6. Limit(s, st) \in Nat
  BY LimitIs
<1> HIDE DEF f, r
<1>7. \A j \in 1..h : j \in 1..Len(HitsAt(s, i, m))
  BY <1>3, <1>5, <1>6 DEF Fewer
<1>8. \A j \in 1..h : o[st + j] = f[j]
  BY <1>1, <1>2, <1>3, <1>5, <1>7
<1>9. p \in Seq(Result) /\ Len(p) = h /\ \A j \in 1..h : p[j] = o[st + j]
  <2> DEFINE a == st + 1
             b == Len(o)
  <2>1. a \in Nat \ {0} /\ b \in Nat /\ a <= b + 1 /\ b <= Len(o) /\ b + 1 - a = h
        /\ \A j \in 1..h : a + j - 1 = st + j
    BY <1>3
  <2>2. p = SubSeq(o, a, b)
    OBVIOUS
  <2> HIDE DEF a, b, p
  <2>3. p \in Seq(Result) /\ Len(p) = b + 1 - a /\ \A j \in 1..b+1-a : p[j] = o[a + j - 1]
    BY <2>1, <2>2, PartIs
  <2> QED BY <2>1, <2>3
<1> HIDE DEF p
<1>10. p = f
  BY <1>1, <1>2, <1>8, <1>9, SeqEqual
<1> QED BY <1>10 DEF p, f

NamedOf(s, results, i) ==
    IF s.archive[i].name /\ ~s.opts.restricted THEN Append(results, NameHit(i)) ELSE results

\* One list of results begins with another.
Begins(o, full) ==
    /\ Len(o) <= Len(full)
    /\ \A r \in 1..Len(o) : full[r] = o[r]

LEMMA NamedOfIs ==
    ASSUME NEW s \in Searches, NEW i \in 1..Len(s.archive), NEW o \in Seq(Result)
    PROVE  /\ NamedOf(s, o, i) \in Seq(Result)
           /\ Len(NamedOf(s, o, i)) \in {Len(o), Len(o) + 1}
           /\ Begins(o, NamedOf(s, o, i))
<1>1. NameHit(i) \in Result /\ Len(o) \in Nat
  <2>1. i \in Nat
    BY SearchParts
  <2> QED BY <2>1, NameHitIs, LenProperties
<1> DEFINE t == Append(o, NameHit(i))
<1>2. t \in Seq(Result) /\ Len(t) = Len(o) + 1 /\ \A r \in 1..Len(o) : t[r] = o[r]
  BY <1>1, AppendProperties
<1>3. NamedOf(s, o, i) = t \/ NamedOf(s, o, i) = o
  BY DEF NamedOf
<1> HIDE DEF t
<1>4. Begins(o, t) /\ Begins(o, o)
  BY <1>1, <1>2 DEF Begins
<1> QED BY <1>1, <1>2, <1>3, <1>4

LEMMA ConcatBegins ==
    ASSUME NEW A, NEW o \in Seq(A), NEW p \in Seq(A)
    PROVE  Begins(o, o \o p)
<1>1. Len(o) \in Nat /\ Len(p) \in Nat
  BY LenProperties
<1>2. Len(o \o p) = Len(o) + Len(p) /\ \A r \in 1..Len(o) + Len(p) : (o \o p)[r] = IF r <= Len(o) THEN o[r] ELSE p[r - Len(o)]
  BY ConcatProperties
<1>3. \A r \in 1..Len(o) : r \in 1..Len(o) + Len(p) /\ r <= Len(o)
  BY <1>1
<1> QED BY <1>1, <1>2, <1>3 DEF Begins

LEMMA SweptEmpty ==
    ASSUME NEW s
    PROVE  Swept(s, <<>>) = <<>>
<1> DEFINE S == {r \in DOMAIN <<>> : Survives(<<>>[r])}
<1>1. S = {}
  OBVIOUS
<1>2. Pick(<<>>, {}) = <<>>
  BY AscendingEmpty DEF Pick
<1> HIDE DEF S
<1>3. Pick(<<>>, S) = <<>>
  BY <1>1, <1>2
<1> QED BY <1>3 DEF Swept, S

\* What entry i adds to the results o.
Added(s, o, i, new) ==
    /\ new \in Seq(Result)
    /\ Begins(o, new)
    /\ Len(o) >= s.opts.max => new = o

LEMMA AddEntryIs ==
    ASSUME NEW s \in Searches, NEW i \in 1..Len(s.archive), NEW o \in Seq(Result)
    PROVE  Added(s, o, i, AddEntry(s, o, i))
<1> DEFINE t == NamedOf(s, o, i)
           f == Swept(s, Found(s, i, Len(t)))
<1>0. Len(o) \in Nat /\ s.opts.max \in Nat
  BY LenProperties, SearchParts
<1>1. AddEntry(s, o, i) =
        IF Selected(s, i) /\ Len(o) < s.opts.max
        THEN IF s.archive[i].text = "binary" THEN t ELSE t \o f
        ELSE o
  BY DEF AddEntry, NamedOf, Found
<1>2. t \in Seq(Result) /\ Len(t) \in {Len(o), Len(o) + 1} /\ Begins(o, t)
  BY NamedOfIs
<1>3. CASE Selected(s, i) /\ Len(o) < s.opts.max
  <2>1. Len(t) \in Nat /\ Len(t) <= s.opts.max
    <3> HIDE DEF t
    <3> QED BY <1>0, <1>2, <1>3
  <2>2. Found(s, i, Len(t)) \in Seq(Result)
    <3> HIDE DEF t
    <3> QED BY <2>1, FoundIs DEF FoundIsFor
  <2>3. f \in Seq(Result)
    BY <2>2, SweptType
  <2> HIDE DEF t, f
  <2>4. t \o f \in Seq(Result) /\ Begins(t, t \o f)
    BY <1>2, <2>3, ConcatProperties, ConcatBegins
  <2>5. Begins(o, t \o f)
    <3>1. Len(t \o f) \in Nat
      BY <2>4, LenProperties
    <3>2. \A r \in 1..Len(o) : r \in 1..Len(t)
      BY <1>0, <1>2, <2>1 DEF Begins
    <3> QED BY <1>0, <1>2, <2>1, <2>4, <3>1, <3>2 DEF Begins
  <2> QED BY <1>0, <1>1, <1>2, <1>3, <2>4, <2>5 DEF Added
<1>4. CASE ~(Selected(s, i) /\ Len(o) < s.opts.max)
  <2>1. Begins(o, o)
    BY <1>0 DEF Begins
  <2> QED BY <1>1, <1>4, <2>1 DEF Added
<1> QED BY <1>3, <1>4

\* The recursion that defines ScanOf has a solution: were there a first length
\* without one, the solution below it could be continued.
ScansUpto(s, g, m) ==
    /\ g = [i \in 0..m |-> g[i]]
    /\ g[0] = <<>>
    /\ \A i \in 1..m : g[i] = AddEntry(s, g[i-1], i)

LEMMA ScanExists ==
    ASSUME NEW s, NEW m \in Nat
    PROVE  \E g : ScansUpto(s, g, m)
<1> DEFINE B == {k \in Nat : ~\E g : ScansUpto(s, g, k)}
<1> SUFFICES B = {}
  OBVIOUS
<1> SUFFICES ASSUME B # {}
             PROVE  FALSE
  OBVIOUS
<1>1. PICK b \in B : \A k \in B : b <= k
  <2>1. B \in SUBSET Nat
    OBVIOUS
  <2> HIDE DEF B
  <2> QED BY <2>1, LeastNumber
<1>2. b \in Nat /\ ~\E g : ScansUpto(s, g, b)
  OBVIOUS
<1>3. CASE b = 0
  <2> DEFINE g == [i \in 0..0 |-> <<>>]
  <2>1. g[0] = <<>> /\ g = [i \in 0..0 |-> g[i]]
    OBVIOUS
  <2>2. ScansUpto(s, g, 0)
    <3> HIDE DEF g
    <3> QED BY <2>1 DEF ScansUpto
  <2> QED BY <1>2, <1>3, <2>2
<1>4. CASE b # 0
  <2>1. b - 1 \in Nat /\ ~(b <= b - 1)
    BY <1>2, <1>4
  <2>2. b - 1 \notin B
    <3> HIDE DEF B
    <3> QED BY <1>1, <2>1
  <2>3. PICK g : ScansUpto(s, g, b - 1)
    BY <2>1, <2>2
  <2>4. /\ g[0] = <<>>
        /\ \A i \in 1..b-1 : g[i] = AddEntry(s, g[i-1], i)
    BY <2>3 DEF ScansUpto
  <2> DEFINE f == [i \in 0..b |-> IF i = b THEN AddEntry(s, g[b-1], b) ELSE g[i]]
  <2>5. /\ f = [i \in 0..b |-> f[i]]
        /\ f[b] = AddEntry(s, g[b-1], b)
        /\ \A i \in 0..b-1 : f[i] = g[i]
    BY <1>2
  <2> HIDE DEF f
  <2>6. f[0] = <<>>
    BY <1>2, <1>4, <2>4, <2>5
  <2>7. ASSUME NEW i \in 1..b
        PROVE  f[i] = AddEntry(s, f[i-1], i)
    <3>1. i - 1 \in 0..b-1 /\ f[i-1] = g[i-1]
      <4>1. i - 1 \in 0..b-1
        BY <1>2
      <4>2. \A x \in 0..b-1 : f[x] = g[x]
        BY <2>5
      <4> QED BY <4>1, <4>2
    <3>2. CASE i = b
      BY <2>5, <3>1, <3>2
    <3>3. CASE i # b
      <4>1. i \in 1..b-1 /\ i \in 0..b-1
        BY <1>2, <3>3
      <4> QED BY <2>4, <2>5, <3>1, <4>1
    <3> QED BY <3>2, <3>3
  <2>8. ScansUpto(s, f, b)
    BY <2>5, <2>6, <2>7 DEF ScansUpto
  <2> QED BY <1>2, <2>8
<1> QED BY <1>3, <1>4

LEMMA ScanOfIs ==
    ASSUME NEW s \in Searches
    PROVE  /\ ScanOf(s)[0] = <<>>
           /\ \A i \in 1..Len(s.archive) : ScanOf(s)[i] = AddEntry(s, ScanOf(s)[i-1], i)
<1> DEFINE N == Len(s.archive)
           R(g) == g = [i \in 0..N |-> IF i = 0 THEN <<>> ELSE AddEntry(s, g[i-1], i)]
<1>1. N \in Nat
  BY SearchParts
<1>2. \E g : R(g)
  <2>1. PICK g : ScansUpto(s, g, N)
    BY <1>1, ScanExists
  <2>2. /\ g = [i \in 0..N |-> g[i]] /\ g[0] = <<>>
        /\ \A i \in 1..N : g[i] = AddEntry(s, g[i-1], i)
    BY <2>1 DEF ScansUpto
  <2>3. \A i \in 0..N : g[i] = IF i = 0 THEN <<>> ELSE AddEntry(s, g[i-1], i)
    <3>1. \A i \in 0..N : i = 0 \/ i \in 1..N
      BY <1>1
    <3> QED BY <2>2, <3>1
  <2> HIDE DEF N
  <2>4. R(g)
    BY <2>2, <2>3
  <2> QED BY <2>4
<1>3. ScanOf(s) = CHOOSE g : R(g)
  BY DEF ScanOf
<1>4. R(ScanOf(s))
  <2> HIDE DEF R
  <2> QED BY <1>2, <1>3
<1> HIDE DEF N
<1>5. \A i \in 0..N : ScanOf(s)[i] = IF i = 0 THEN <<>> ELSE AddEntry(s, ScanOf(s)[i-1], i)
  <2> DEFINE g == ScanOf(s)
  <2>1. g = [i \in 0..N |-> IF i = 0 THEN <<>> ELSE AddEntry(s, g[i-1], i)]
    BY <1>4
  <2> HIDE DEF g
  <2>2. \A i \in 0..N : g[i] = IF i = 0 THEN <<>> ELSE AddEntry(s, g[i-1], i)
    BY <2>1
  <2> QED BY <2>2 DEF g
<1>6. ScanOf(s)[0] = <<>>
  BY <1>1, <1>5
<1>7. \A i \in 1..N : ScanOf(s)[i] = AddEntry(s, ScanOf(s)[i-1], i)
  BY <1>1, <1>5
<1> QED BY <1>6, <1>7 DEF N

LEMMA ScanType ==
    ASSUME NEW s \in Searches, NEW i \in 0..Len(s.archive)
    PROVE  ScanOf(s)[i] \in Seq(Result)
<1> DEFINE B == {k \in 0..Len(s.archive) : ScanOf(s)[k] \notin Seq(Result)}
<1>0. Len(s.archive) \in Nat
  BY SearchParts
<1> SUFFICES ASSUME B # {}
             PROVE  FALSE
  OBVIOUS
<1>1. PICK b \in B : \A k \in B : b <= k
  <2>1. B \in SUBSET Nat
    BY <1>0
  <2> HIDE DEF B
  <2> QED BY <2>1, LeastNumber
<1>2. b \in 0..Len(s.archive) /\ ScanOf(s)[b] \notin Seq(Result)
  OBVIOUS
<1>3. b # 0
  <2>1. <<>> \in Seq(Result)
    OBVIOUS
  <2> QED BY <1>2, <2>1, ScanOfIs
<1>4. b \in 1..Len(s.archive) /\ b - 1 \in 0..Len(s.archive) /\ ~(b <= b - 1)
  BY <1>0, <1>2, <1>3
<1>5. ScanOf(s)[b - 1] \in Seq(Result)
  <2>1. b - 1 \notin B
    <3> HIDE DEF B
    <3> QED BY <1>1, <1>4
  <2> QED BY <1>4, <2>1
<1>6. Added(s, ScanOf(s)[b - 1], b, AddEntry(s, ScanOf(s)[b - 1], b))
  BY <1>4, <1>5, AddEntryIs
<1>7. ScanOf(s)[b] = AddEntry(s, ScanOf(s)[b - 1], b)
  BY <1>4, ScanOfIs
<1> QED BY <1>2, <1>6, <1>7 DEF Added

\* The results of more entries begin with those of fewer, and full results stay.
LEMMA ScanGrows ==
    ASSUME NEW s \in Searches, NEW i \in 0..Len(s.archive), NEW j \in i..Len(s.archive)
    PROVE  /\ Begins(ScanOf(s)[i], ScanOf(s)[j])
           /\ Len(ScanOf(s)[i]) >= s.opts.max => ScanOf(s)[j] = ScanOf(s)[i]
<1> DEFINE G(k) == /\ Begins(ScanOf(s)[i], ScanOf(s)[k])
                   /\ Len(ScanOf(s)[i]) >= s.opts.max => ScanOf(s)[k] = ScanOf(s)[i]
           B == {k \in i..Len(s.archive) : ~G(k)}
<1>0. Len(s.archive) \in Nat /\ i \in Nat
  BY SearchParts
<1> SUFFICES ASSUME B # {}
             PROVE  FALSE
  OBVIOUS
<1>1. PICK b \in B : \A k \in B : b <= k
  <2>1. B \in SUBSET Nat
    BY <1>0
  <2> HIDE DEF B
  <2> QED BY <2>1, LeastNumber
<1>2. b \in i..Len(s.archive) /\ ~G(b)
  OBVIOUS
<1>3. ScanOf(s)[i] \in Seq(Result) /\ Len(ScanOf(s)[i]) \in Nat
  BY ScanType, LenProperties
<1>4. b # i
  <2>1. G(i)
    BY <1>3 DEF Begins
  <2> QED BY <1>2, <2>1
<1>5. b \in 1..Len(s.archive) /\ b - 1 \in i..Len(s.archive) /\ b - 1 \in 0..Len(s.archive)
      /\ ~(b <= b - 1)
  BY <1>0, <1>2, <1>4
<1>6. G(b - 1)
  <2>1. b - 1 \notin B
    <3> HIDE DEF B
    <3> QED BY <1>1, <1>5
  <2> QED BY <1>5, <2>1
<1>7. ScanOf(s)[b - 1] \in Seq(Result) /\ Len(ScanOf(s)[b - 1]) \in Nat
  BY <1>5, ScanType, LenProperties
<1>8. Added(s, ScanOf(s)[b - 1], b, ScanOf(s)[b])
  <2>1. ScanOf(s)[b] = AddEntry(s, ScanOf(s)[b - 1], b)
    BY <1>5, ScanOfIs
  <2> QED BY <1>5, <1>7, <2>1, AddEntryIs
<1>9. Len(ScanOf(s)[b]) \in Nat
  BY <1>8, LenProperties DEF Added
<1>10. Begins(ScanOf(s)[i], ScanOf(s)[b])
  <2> DEFINE p == ScanOf(s)[i]
             q == ScanOf(s)[b - 1]
             t == ScanOf(s)[b]
  <2>1. Begins(p, q) /\ Begins(q, t) /\ Len(p) \in Nat /\ Len(q) \in Nat /\ Len(t) \in Nat
    BY <1>3, <1>6, <1>7, <1>8, <1>9 DEF Added
  <2> HIDE DEF p, q, t
  <2>2. \A r \in 1..Len(p) : r \in 1..Len(q)
    BY <2>1 DEF Begins
  <2>3. Begins(p, t)
    BY <2>1, <2>2 DEF Begins
  <2> QED BY <2>3 DEF p, t
<1>11. Len(ScanOf(s)[i]) >= s.opts.max => ScanOf(s)[b] = ScanOf(s)[i]
  BY <1>6, <1>8 DEF Added
<1> QED BY <1>2, <1>10, <1>11

(***************************************************************************)
(* The scan line by line is the full scan.                                 *)
(***************************************************************************)

SamePlaces(o, full) ==
    /\ Len(o) <= Len(full)
    /\ \A r \in 1..Len(o) : o[r].entry = full[r].entry /\ o[r].line = full[r].line

\* Between two entries the results are those of the full scan of the entries
\* so far; inside a file what precedes its results is, and is kept.
SameInv ==
    InArchiveOrder =>
        /\ pass # "leftout"
        /\ phase # "done" => ~timedOut
        /\ phase = "entry" =>
             /\ ~cut => out = ScanOf(search)[e]
             /\ ~search.opts.filter => SamePlaces(out, ScanOf(search)[e])
        /\ phase \in {"lines", "sweep"} =>
             /\ Len(ScanOf(search)[e-1]) < search.opts.max
             /\ Len(NamedOf(search, ScanOf(search)[e-1], e)) = start
             /\ Begins(NamedOf(search, ScanOf(search)[e-1], e), out)
        /\ SameAsFullScan

LEMMA SamePlacesSelf ==
    ASSUME NEW o \in Seq(Result)
    PROVE  SamePlaces(o, o)
BY LenProperties DEF SamePlaces

LEMMA SamePlacesConcat ==
    ASSUME NEW t \in Seq(Result), NEW p \in Seq(Result), NEW f \in Seq(Result), SamePlaces(p, f)
    PROVE  SamePlaces(t \o p, t \o f)
<1>1. Len(t) \in Nat /\ Len(p) \in Nat /\ Len(f) \in Nat
  BY LenProperties
<1>2. /\ Len(t \o p) = Len(t) + Len(p)
      /\ \A r \in 1..Len(t) + Len(p) : (t \o p)[r] = IF r <= Len(t) THEN t[r] ELSE p[r - Len(t)]
  BY ConcatProperties
<1>3. /\ Len(t \o f) = Len(t) + Len(f)
      /\ \A r \in 1..Len(t) + Len(f) : (t \o f)[r] = IF r <= Len(t) THEN t[r] ELSE f[r - Len(t)]
  BY ConcatProperties
<1>4. Len(p) <= Len(f) /\ \A r \in 1..Len(p) : p[r].entry = f[r].entry /\ p[r].line = f[r].line
  BY DEF SamePlaces
<1>5. ASSUME NEW r \in 1..Len(t) + Len(p)
      PROVE  (t \o p)[r].entry = (t \o f)[r].entry /\ (t \o p)[r].line = (t \o f)[r].line
  <2>1. r \in 1..Len(t) + Len(f)
    BY <1>1, <1>4
  <2>2. CASE r <= Len(t)
    BY <1>2, <1>3, <2>1, <2>2
  <2>3. CASE ~(r <= Len(t))
    <3>1. r - Len(t) \in 1..Len(p)
      BY <1>1, <2>3
    <3> QED BY <1>2, <1>3, <1>4, <2>1, <2>3, <3>1
  <2> QED BY <2>2, <2>3
<1> QED BY <1>1, <1>2, <1>3, <1>4, <1>5 DEF SamePlaces

\* What a cut file has left is the beginning of what there is to find.
LEMMA CutFound ==
    ASSUME NEW s \in Searches, NEW i \in 1..Len(s.archive),
           NEW m \in 0..Readable(s.archive[i].lines), NEW o \in Seq(Result),
           NEW st \in Nat, st < s.opts.max, NEW h \in Nat, Scanned(s, i, m, o, st, h)
    PROVE  SamePlaces(SubSeq(o, st + 1, Len(o)), Found(s, i, st))
<1> DEFINE r == Readable(s.archive[i].lines)
           f == Found(s, i, st)
           p == SubSeq(o, st + 1, Len(o))
<1>1. /\ f \in Seq(Result) /\ Len(f) = Fewer(Len(HitsAt(s, i, r)), Limit(s, st))
      /\ \A j \in 1..Len(f) : f[j] = Hit(s, i, HitsAt(s, i, r)[j])
  <2>1. st <= s.opts.max
    BY SearchParts
  <2> QED BY <2>1, FoundIs DEF FoundIsFor
<1>2. /\ h = Fewer(Len(HitsAt(s, i, m)), Limit(s, st)) /\ Len(o) = st + h
      /\ \A j \in 1..h : o[st + j] = HitUpto(s, i, HitsAt(s, i, m)[j], m)
  BY DEF Scanned
<1>3. r \in Nat /\ m \in Nat /\ m <= r
  <2>1. r \in Nat
    BY ReadableOf
  <2> HIDE DEF r
  <2>2. m \in 0..r
    BY DEF r
  <2> QED BY <2>1, <2>2
<1>4. /\ Len(HitsAt(s, i, m)) \in Nat /\ Len(HitsAt(s, i, m)) <= Len(HitsAt(s, i, r))
      /\ Len(HitsAt(s, i, r)) \in Nat
      /\ \A j \in 1..Len(HitsAt(s, i, m)) : HitsAt(s, i, m)[j] = HitsAt(s, i, r)[j]
  BY <1>3, HitsAtIs, HitsAtInitial
<1>5. Limit(s, st) \in Nat
  BY LimitIs
<1>6. p \in Seq(Result) /\ Len(p) = h /\ \A j \in 1..h : p[j] = o[st + j]
  <2> DEFINE a == st + 1
             b == Len(o)
  <2>1. a \in Nat \ {0} /\ b \in Nat /\ a <= b + 1 /\ b <= Len(o) /\ b + 1 - a = h
        /\ \A j \in 1..h : a + j - 1 = st + j
    BY <1>2
  <2>2. p = SubSeq(o, a, b)
    OBVIOUS
  <2> HIDE DEF a, b, p
  <2>3. p \in Seq(Result) /\ Len(p) = b + 1 - a /\ \A j \in 1..b+1-a : p[j] = o[a + j - 1]
    BY <2>1, <2>2, PartIs
  <2> QED BY <2>1, <2>3
<1> HIDE DEF f, p, r
<1>7. h <= Len(f) /\ \A j \in 1..h : j \in 1..Len(HitsAt(s, i, m)) /\ j \in 1..Len(f)
  BY <1>1, <1>2, <1>4, <1>5 DEF Fewer
<1>8. \A j \in 1..h : p[j].entry = f[j].entry /\ p[j].line = f[j].line
  <2>1. ASSUME NEW k, NEW x
        PROVE  HitUpto(s, i, k, x).entry = i /\ HitUpto(s, i, k, x).line = k
    BY DEF HitUpto
  <2>2. ASSUME NEW k
        PROVE  Hit(s, i, k).entry = i /\ Hit(s, i, k).line = k
    BY <2>1 DEF Hit
  <2>3. ASSUME NEW j \in 1..h
        PROVE  p[j].entry = f[j].entry /\ p[j].line = f[j].line
    <3>1. p[j] = HitUpto(s, i, HitsAt(s, i, m)[j], m) /\ f[j] = Hit(s, i, HitsAt(s, i, r)[j])
      BY <1>1, <1>2, <1>6, <1>7
    <3>2. HitsAt(s, i, m)[j] = HitsAt(s, i, r)[j]
      BY <1>4, <1>7
    <3> QED BY <2>1, <2>2, <3>1, <3>2
  <2> QED BY <2>3
<1>9. SamePlaces(p, f)
  BY <1>6, <1>7, <1>8 DEF SamePlaces
<1> QED BY <1>9 DEF p, f

LEMMA AddEntryCases ==
    ASSUME NEW s, NEW o, NEW i
    PROVE  /\ ~Selected(s, i) => AddEntry(s, o, i) = o
           /\ ~(Len(o) < s.opts.max) => AddEntry(s, o, i) = o
           /\ Selected(s, i) /\ Len(o) < s.opts.max /\ s.archive[i].text = "binary" =>
                AddEntry(s, o, i) = NamedOf(s, o, i)
           /\ Selected(s, i) /\ Len(o) < s.opts.max /\ s.archive[i].text # "binary" =>
                AddEntry(s, o, i) =
                   NamedOf(s, o, i) \o Swept(s, Found(s, i, Len(NamedOf(s, o, i))))
BY DEF AddEntry, NamedOf, Found

NoMatch(s, i) == \A k \in DOMAIN s.archive[i].lines : ~s.archive[i].lines[k].match

\* A text that is not searched, because it is no text, because the results are
\* full or because no line of it matches, adds nothing but the name.
LEMMA PassedOver ==
    ASSUME NEW s \in Searches, NEW i \in 1..Len(s.archive), NEW o \in Seq(Result),
           Len(o) < s.opts.max, Selected(s, i),
           \/ s.archive[i].text = "binary"
           \/ Len(NamedOf(s, o, i)) >= s.opts.max
           \/ NoMatch(s, i)
    PROVE  AddEntry(s, o, i) = NamedOf(s, o, i)
<1> DEFINE t == NamedOf(s, o, i)
           f == Found(s, i, Len(t))
           r == Readable(s.archive[i].lines)
<1>1. CASE s.archive[i].text = "binary"
  BY <1>1, AddEntryCases
<1>2. CASE s.archive[i].text # "binary"
  <2>1. t \in Seq(Result) /\ Len(t) \in {Len(o), Len(o) + 1}
    BY NamedOfIs
  <2>2. Len(o) \in Nat /\ s.opts.max \in Nat /\ PerFileCap \in Nat \ {0}
    BY LenProperties, SearchParts
  <2>3. Len(t) \in Nat /\ Len(t) <= s.opts.max
    <3> HIDE DEF t
    <3> QED BY <2>1, <2>2
  <2>4. f \in Seq(Result) /\ Len(f) = Fewer(Len(HitsAt(s, i, r)), Limit(s, Len(t)))
    <3> HIDE DEF t
    <3> QED BY <2>3, FoundIs DEF FoundIsFor
  <2>5. r \in Nat /\ r <= Len(s.archive[i].lines)
    BY ReadableOf
  <2>6. Len(HitsAt(s, i, r)) \in Nat
    BY <2>5, HitsAtIs
  <2>7. Len(f) = 0
    <3>1. CASE NoMatch(s, i)
      <4>1. DOMAIN s.archive[i].lines = 1..Len(s.archive[i].lines) /\ Len(s.archive[i].lines) \in Nat
        BY EntryParts
      <4>2. \A k \in 1..r : k \in DOMAIN s.archive[i].lines
        <5> HIDE DEF r
        <5> QED BY <2>5, <4>1
      <4>3. \A k \in 1..r : ~WorthKeeping(s, s.archive[i].lines[k])
        BY <3>1, <4>2 DEF NoMatch, WorthKeeping
      <4>4. Len(HitsAt(s, i, r)) = 0
        <5>1. {k \in 1..r : WorthKeeping(s, s.archive[i].lines[k])} = {}
          BY <4>3
        <5>2. HitsAt(s, i, r) = <<>>
          BY <5>1, AscendingEmpty DEF HitsAt
        <5> QED BY <5>2
      <4>5. Limit(s, Len(t)) \in Nat
        <5> HIDE DEF t
        <5> QED BY <2>2, <2>3 DEF Limit
      <4> HIDE DEF t, f, r
      <4> QED BY <2>4, <4>4, <4>5 DEF Fewer
    <3>2. CASE Len(t) >= s.opts.max
      <4>1. Limit(s, Len(t)) = 0
        <5> HIDE DEF t
        <5> QED BY <2>2, <2>3, <3>2 DEF Limit
      <4> HIDE DEF t, f, r
      <4> QED BY <2>4, <2>6, <4>1 DEF Fewer
    <3> QED BY <1>2, <3>1, <3>2
  <2>8. f = <<>>
    <3> HIDE DEF f
    <3> QED BY <2>4, <2>7, EmptySeq
  <2>9. AddEntry(s, o, i) = t \o Swept(s, f)
    BY <1>2, AddEntryCases
  <2>10. Swept(s, f) = <<>>
    <3> HIDE DEF f
    <3> QED BY <2>8, SweptEmpty
  <2>11. t \o <<>> = t
    <3> HIDE DEF t
    <3> QED BY <2>1, ConcatEmptySeq
  <2> QED BY <2>9, <2>10, <2>11
<1> QED BY <1>1, <1>2

\* When the blob holds every file both passes read all text.
LEMMA ReadsText ==
    ASSUME TypeOK, InArchiveOrder, pass # "leftout", NEW i \in 1..Len(search.archive)
    PROVE  Reads(search, pass, i) <=> search.archive[i].text # "binary"
<1>1. search \in Searches
  BY DEF TypeOK
<1>2. search.archive[i].text \in {"blob", "unindexed", "binary"} /\ DOMAIN search.archive = 1..Len(search.archive)
  BY <1>1, EntryParts, SearchParts
<1>3. pass = "archive" \/ (pass = "indexed" /\ search.opts.indexed)
  <2>1. pass \in {"archive", "indexed", "leftout"}
    BY DEF TypeOK
  <2>2. pass # "archive" => search.opts.indexed
    BY DEF TypeOK
  <2> QED BY <2>1, <2>2
<1>4. pass = "indexed" => search.archive[i].text # "unindexed"
  BY <1>2, <1>3 DEF InArchiveOrder, TypeOK
<1> QED BY <1>2, <1>3, <1>4 DEF Reads

LEMMA InitSame ==
    ASSUME Init
    PROVE  SameInv
<1>1. search \in Searches /\ ScanOf(search)[0] = <<>>
  BY ScanOfIs DEF Init
<1>2. phase = "entry" /\ e = 0 /\ out = <<>> /\ timedOut = FALSE /\ pass # "leftout"
  BY DEF Init
<1>3. <<>> \in Seq(Result)
  OBVIOUS
<1>4. SamePlaces(<<>>, <<>>)
  BY <1>3, SamePlacesSelf
<1> QED BY <1>1, <1>2, <1>4 DEF SameInv, SameAsFullScan, Done

\* The search that ends has the full result, or the beginning of it.
LEMMA StopEntriesSame ==
    ASSUME TypeOK, FileInv, SameInv, StopEntries
    PROVE  SameInv'
<1> SUFFICES ASSUME InArchiveOrder'
             PROVE  SameInv'
  BY DEF SameInv
<1> DEFINE N == Len(search.archive)
           scan == ScanOf(search)
<1>1. /\ phase = "entry"
      /\ e = N \/ Len(out) >= search.opts.max \/ CtxErr
      /\ timedOut' = (timedOut \/ (e < N /\ Len(out) < search.opts.max /\ CtxErr))
      /\ search' = search /\ out' = out /\ cut' = cut
  BY DEF StopEntries, EndPass
<1>2. InArchiveOrder
  BY <1>1 DEF InArchiveOrder
<1>3. /\ pass # "leftout" /\ ~timedOut
      /\ ~cut => out = scan[e]
      /\ ~search.opts.filter => SamePlaces(out, scan[e])
  BY <1>1, <1>2 DEF SameInv
<1>4. pass = "indexed" => LeftOut(search) = {}
  <2>1. pass = "indexed" => search.opts.indexed
    BY DEF TypeOK
  <2> QED BY <1>2, <2>1 DEF InArchiveOrder, LeftOut
<1>5. phase' = "done" /\ pass' = pass
  BY <1>4 DEF StopEntries, EndPass
<1>6. search \in Searches /\ N \in Nat /\ e \in 0..N /\ N \in e..N /\ Len(out) \in Nat
      /\ search.opts.max \in Nat
  <2>1. search \in Searches /\ N \in Nat /\ Len(out) \in Nat /\ search.opts.max \in Nat /\ e \in 0..N
    BY AtEntry DEF TypeOK
  <2> HIDE DEF N
  <2> QED BY <2>1
<1>7. /\ Begins(scan[e], scan[N])
      /\ Len(scan[e]) >= search.opts.max => scan[N] = scan[e]
  BY <1>6, ScanGrows
<1>8. Len(scan[e]) \in Nat /\ Len(scan[N]) \in Nat
  <2>1. N \in 0..N
    BY <1>6
  <2> QED BY <1>6, <2>1, ScanType, LenProperties
<1>9. ~timedOut' /\ ~cut => out = scan[N]
  <2> SUFFICES ASSUME ~timedOut', ~cut
               PROVE  out = scan[N]
    OBVIOUS
  <2>1. e = N \/ Len(out) >= search.opts.max
    <3>1. ~(e < N /\ Len(out) < search.opts.max /\ CtxErr)
      BY <1>1
    <3> HIDE DEF N
    <3> QED BY <1>1, <1>6, <3>1
  <2>2. out = scan[e]
    BY <1>3
  <2> QED BY <1>7, <2>1, <2>2
<1>10. ~search.opts.filter => SamePlaces(out, scan[N])
  <2> SUFFICES ASSUME SamePlaces(out, scan[e])
               PROVE  SamePlaces(out, scan[N])
    BY <1>3
  <2> DEFINE p == scan[e]
             q == scan[N]
  <2>1. Len(p) \in Nat /\ Len(q) \in Nat /\ Begins(p, q)
    BY <1>7, <1>8
  <2>2. SamePlaces(out, p)
    OBVIOUS
  <2> HIDE DEF p, q
  <2>3. \A r \in 1..Len(out) : r \in 1..Len(p)
    BY <1>6, <2>1, <2>2 DEF SamePlaces
  <2>4. SamePlaces(out, q)
    BY <1>6, <2>1, <2>2, <2>3 DEF SamePlaces, Begins
  <2> QED BY <2>4 DEF q
<1>11. DOMAIN out = 1..Len(out)
  BY LenProperties DEF TypeOK
<1>12. SameAsFullScan'
  <2>1. FullScan(search) = scan[N]
    BY DEF FullScan
  <2>2. ~search.opts.filter => StoppedEarlyIsPrefix'
    BY <1>1, <1>10, <1>11, <2>1 DEF StoppedEarlyIsPrefix, SamePlaces
  <2> QED BY <1>1, <1>9, <2>1, <2>2 DEF SameAsFullScan
<1> QED BY <1>3, <1>5, <1>12 DEF SameInv

LEMMA NextEntrySame ==
    ASSUME TypeOK, FileInv, SameInv, NextEntry
    PROVE  SameInv'
<1> SUFFICES ASSUME InArchiveOrder'
             PROVE  SameInv'
  BY DEF SameInv
<1> DEFINE scan == ScanOf(search)
           i == e + 1
           t == NamedOf(search, out, i)
           reads == Selected(search, e') /\ Reads(search, pass, e') /\ Len(out') < search.opts.max
<1>1. /\ phase = "entry" /\ e < Len(search.archive) /\ Len(out) < search.opts.max /\ ~CtxErr
      /\ e' = i
      /\ out' = IF Named(search, pass, i) THEN Append(out, NameHit(i)) ELSE out
      /\ \/ /\ reads /\ phase' = "lines"
            /\ n' = 0 /\ hits' = 0 /\ pend' = <<>> /\ start' = Len(out')
         \/ /\ ~reads \/ MayExclude(search, pass, i)
            /\ phase' = phase
      /\ UNCHANGED <<search, pass, capped, timedOut, expired, cut>>
  BY DEF NextEntry, fileVars
<1>2. InArchiveOrder
  BY <1>1 DEF InArchiveOrder
<1>3. /\ pass # "leftout" /\ ~timedOut
      /\ ~cut => out = scan[e]
  BY <1>1, <1>2 DEF SameInv
<1>4. ~cut
  <2>1. cut => expired /\ pass # "archive"
    BY DEF FileInv
  <2>2. pass \in {"archive", "indexed", "leftout"}
    BY DEF TypeOK
  <2> QED BY <1>1, <1>3, <2>1, <2>2 DEF CtxErr
<1>5. out = scan[e]
  BY <1>3, <1>4
<1>6. /\ search \in Searches /\ i \in 1..Len(search.archive) /\ out \in Seq(Result)
      /\ Len(out) \in Nat /\ search.opts.max \in Nat /\ i - 1 = e
  <2>1. search \in Searches /\ i \in 1..Len(search.archive) /\ e \in Nat
        /\ Len(out) \in Nat /\ search.opts.max \in Nat
    BY <1>1, AtEntry
  <2> QED BY <2>1 DEF TypeOK
<1>7. scan[i] = AddEntry(search, out, i)
  BY <1>5, <1>6, ScanOfIs
<1>8. Reads(search, pass, i) <=> search.archive[i].text # "binary"
  BY <1>2, <1>3, <1>6, ReadsText
<1>9. t \in Seq(Result) /\ Len(t) \in Nat /\ Len(t) \in {Len(out), Len(out) + 1}
  BY <1>6, NamedOfIs, LenProperties
<1>10. Selected(search, i) => out' = t
  BY <1>1, <1>3 DEF Named, NamedOf
<1>11. ~Selected(search, i) => out' = out
  BY <1>1 DEF Named
<1>12. out' \in Seq(Result)
  BY <1>6, <1>9, <1>10, <1>11
<1>13. CASE reads /\ phase' = "lines" /\ start' = Len(out')
  <2>1. out' = t
    BY <1>1, <1>10, <1>13
  <2>2. Begins(t, t)
    BY <1>9 DEF Begins
  <2>3. NamedOf(search, scan[i-1], i) = t
    BY <1>5, <1>6
  <2>4. Len(scan[i-1]) < search.opts.max
    BY <1>1, <1>5, <1>6
  <2> HIDE DEF t, i, reads
  <2> QED BY <1>1, <1>3, <1>13, <2>1, <2>2, <2>3, <2>4 DEF SameInv, SameAsFullScan, Done
<1>14. CASE (~reads \/ MayExclude(search, pass, i)) /\ phase' = phase
  <2>1. out' = scan[i]
    <3>1. CASE ~Selected(search, i)
      BY <1>7, <1>11, <3>1, AddEntryCases
    <3>2. CASE Selected(search, i)
      <4>1. out' = t
        BY <1>10, <3>2
      <4>2. ~reads => search.archive[i].text = "binary" \/ Len(t) >= search.opts.max
        <5>1. ~reads => ~Reads(search, pass, i) \/ ~(Len(t) < search.opts.max)
          BY <1>1, <3>2, <4>1
        <5> HIDE DEF t, i, reads
        <5> QED BY <1>6, <1>8, <1>9, <5>1
      <4>3. MayExclude(search, pass, i) => NoMatch(search, i)
        BY DEF MayExclude, NoMatch
      <4> HIDE DEF t, i, reads
      <4>4. \/ search.archive[i].text = "binary"
            \/ Len(t) >= search.opts.max
            \/ NoMatch(search, i)
        BY <1>14, <4>2, <4>3
      <4>5. AddEntry(search, out, i) = t
        BY <1>1, <1>6, <3>2, <4>4, PassedOver DEF t
      <4> QED BY <1>7, <4>1, <4>5
    <3> QED BY <3>1, <3>2
  <2>2. SamePlaces(out', out')
    BY <1>12, SamePlacesSelf
  <2> HIDE DEF t, i, reads
  <2> QED BY <1>1, <1>3, <1>14, <2>1, <2>2 DEF SameInv, SameAsFullScan, Done
<1> QED BY <1>1, <1>13, <1>14

\* A line leaves what precedes the results of its file alone.
LEMMA BeginsSame ==
    ASSUME NEW t, NEW o, NEW more, NEW st \in Nat, Begins(t, o), Len(t) = st,
           SameBefore(st, o, more), st <= Len(more)
    PROVE  Begins(t, more)
BY DEF Begins, SameBefore

LEMMA ScanLineSame ==
    ASSUME TypeOK, FileInv, SameInv, ScanLine
    PROVE  SameInv'
<1> SUFFICES ASSUME InArchiveOrder'
             PROVE  SameInv'
  BY DEF SameInv
<1> DEFINE t == NamedOf(search, ScanOf(search)[e-1], e)
<1>1. /\ phase = "lines" /\ n' = n + 1
      /\ UNCHANGED <<search, pass, e, start, capped, timedOut, expired>>
      /\ \/ CtxErr /\ cut' = TRUE /\ phase' = "sweep" /\ UNCHANGED <<out, hits, pend>>
         \/ /\ LineStep(search, e, n, out, hits, pend, out', hits', pend')
            /\ phase' = IF Len(out') >= search.opts.max /\ pend' = <<>> THEN "sweep" ELSE "lines"
            /\ cut' = cut
  BY ScanLineParts
<1>2. phase' \in {"lines", "sweep"}
  BY <1>1
<1>3. /\ pass # "leftout" /\ ~timedOut
      /\ Len(ScanOf(search)[e-1]) < search.opts.max
      /\ Len(t) = start /\ Begins(t, out)
  BY <1>1 DEF SameInv, InArchiveOrder
<1>4. Begins(t, out')
  <2>1. CASE out' = out
    BY <1>3, <2>1
  <2>2. CASE LineStep(search, e, n, out, hits, pend, out', hits', pend')
    <3>1. /\ search \in Searches /\ e \in 1..Len(search.archive)
          /\ out \in Seq(Result) /\ pend \in Seq(Waiting) /\ n \in Nat /\ start \in Nat
          /\ hits \in Nat
      BY <1>1, AtEntry DEF TypeOK
    <3>2. /\ start < search.opts.max
          /\ Scanned(search, e, n, out, start, hits)
          /\ Waits(search, e, n, start, hits, pend)
      BY <1>1 DEF FileInv
    <3>3. SameBefore(start, out, out') /\ ScannedOn(search, e, n, out', start, hits', pend')
      BY <2>2, <3>1, <3>2, ScanStep
    <3>4. start <= Len(out')
      <4>1. hits' \in Nat
        BY <2>2, <3>1 DEF LineStep
      <4>2. Len(out') = start + hits'
        BY <3>3 DEF ScannedOn, Scanned
      <4>3. start \in Nat
        BY <3>1
      <4> DEFINE a == Len(out')
                 b == hits'
      <4>4. a = start + b /\ b \in Nat
        BY <4>1, <4>2
      <4> HIDE DEF a, b
      <4>5. start <= a
        BY <4>3, <4>4
      <4> QED BY <4>5 DEF a
    <3> HIDE DEF t
    <3> QED BY <1>3, <3>1, <3>3, <3>4, BeginsSame
  <2> QED BY <1>1, <2>1, <2>2
<1> QED BY <1>1, <1>2, <1>3, <1>4 DEF SameInv, SameAsFullScan, Done

LEMMA EndOfFileSame ==
    ASSUME TypeOK, FileInv, SameInv, EndOfFile
    PROVE  SameInv'
BY DEF EndOfFile, SameInv, InArchiveOrder, SameAsFullScan, Done

LEMMA ExpireSame ==
    ASSUME TypeOK, FileInv, SameInv, Expire
    PROVE  SameInv'
BY DEF Expire, fileVars, SameInv, InArchiveOrder, SameAsFullScan, Done

\* The file that is swept adds to the results what the full scan adds.
LEMMA SweepSame ==
    ASSUME TypeOK, FileInv, SameInv, Sweep
    PROVE  SameInv'
<1> SUFFICES ASSUME InArchiveOrder'
             PROVE  SameInv'
  BY DEF SameInv
<1> DEFINE scan == ScanOf(search)
           t == NamedOf(search, scan[e-1], e)
           p == SubSeq(out, start + 1, Len(out))
           f == Found(search, e, start)
<1>1. /\ phase = "sweep" /\ phase' = "entry"
      /\ out' = SubSeq(out, 1, start) \o Swept(search, p)
      /\ UNCHANGED <<search, pass, e, timedOut, cut>>
  BY DEF Sweep
<1>2. /\ search \in Searches /\ e \in 1..Len(search.archive)
      /\ out \in Seq(Result) /\ start \in Nat /\ hits \in Nat /\ Len(out) \in Nat
  BY <1>1, AtEntry DEF TypeOK
<1>3. /\ pass # "leftout" /\ ~timedOut
      /\ Len(scan[e-1]) < search.opts.max
      /\ Len(t) = start /\ Begins(t, out)
      /\ InArchiveOrder
  BY <1>1 DEF SameInv, InArchiveOrder
<1>4. Selected(search, e) /\ Reads(search, pass, e) /\ start < search.opts.max
  BY <1>1 DEF FileInv
<1>5. PICK m \in 0..Readable(search.archive[e].lines) :
         /\ Scanned(search, e, m, out, start, hits)
         /\ ~cut => Complete(search, e, m, start, hits)
  BY <1>1 DEF FileInv
<1>6. scan[e-1] \in Seq(Result)
  <2>1. e - 1 \in 0..Len(search.archive)
    BY <1>2, SearchParts
  <2> QED BY <1>2, <2>1, ScanType
<1>7. t \in Seq(Result)
  BY <1>2, <1>6, NamedOfIs
<1>8. SubSeq(out, 1, start) = t
  <2> DEFINE q == SubSeq(out, 1, start)
  <2>1. start <= Len(out)
    BY <1>2, <1>3 DEF Begins
  <2>2. q \in Seq(Result) /\ Len(q) = start + 1 - 1 /\ \A k \in 1..start+1-1 : q[k] = out[1 + k - 1]
    BY <1>2, <2>1, PartIs
  <2>3. start + 1 - 1 = start /\ \A k \in 1..start : 1 + k - 1 = k
    BY <1>2
  <2> HIDE DEF t, q
  <2>4. Len(q) = Len(t) /\ \A k \in 1..Len(q) : q[k] = t[k]
    BY <1>3, <2>2, <2>3 DEF Begins
  <2>5. q = t
    BY <1>7, <2>2, <2>4, SeqEqual
  <2> QED BY <2>5 DEF q
<1>9. scan[e] = t \o Swept(search, f)
  <2>1. scan[e] = AddEntry(search, scan[e-1], e)
    BY <1>2, ScanOfIs
  <2>2. search.archive[e].text # "binary"
    BY <1>2, <1>3, <1>4, ReadsText
  <2> QED BY <1>3, <1>4, <2>1, <2>2, AddEntryCases
<1>10. ~cut => out' = scan[e]
  <2> SUFFICES ASSUME ~cut
               PROVE  out' = scan[e]
    OBVIOUS
  <2>1. p = f
    BY <1>2, <1>4, <1>5, FileFound
  <2> QED BY <1>1, <1>8, <1>9, <2>1
<1>11. ~search.opts.filter => SamePlaces(out', scan[e])
  <2> SUFFICES ASSUME ~search.opts.filter
               PROVE  SamePlaces(out', scan[e])
    OBVIOUS
  <2>1. Swept(search, p) = p /\ Swept(search, f) = f
    BY DEF Swept
  <2>2. SamePlaces(p, f)
    BY <1>2, <1>4, <1>5, CutFound
  <2>3. f \in Seq(Result)
    <3>1. start <= search.opts.max
      BY <1>2, <1>4, SearchParts
    <3> QED BY <1>2, <3>1, FoundIs DEF FoundIsFor
  <2>4. p \in Seq(Result)
    <3>1. start <= Len(out)
      BY <1>2, <1>3 DEF Begins
    <3> DEFINE a == start + 1
               b == Len(out)
    <3>2. a \in Nat \ {0} /\ b \in Nat /\ a <= b + 1 /\ b <= Len(out)
      BY <1>2, <3>1
    <3> HIDE DEF a, b
    <3>3. SubSeq(out, a, b) \in Seq(Result)
      BY <1>2, <3>2, PartIs
    <3> QED BY <3>3 DEF a, b
  <2> HIDE DEF t, p, f
  <2>5. SamePlaces(t \o p, t \o f)
    BY <1>7, <2>2, <2>3, <2>4, SamePlacesConcat
  <2> QED BY <1>1, <1>8, <1>9, <2>1, <2>5
<1> QED BY <1>1, <1>3, <1>10, <1>11 DEF SameInv, SameAsFullScan, Done

LEMMA NextSame ==
    ASSUME TypeOK, FileInv, SameInv, [Next]_vars
    PROVE  SameInv'
<1>1. CASE UNCHANGED vars
  BY <1>1 DEF vars, SameInv, InArchiveOrder, SameAsFullScan, Done, StoppedEarlyIsPrefix
<1> QED BY <1>1, StopEntriesSame, NextEntrySame, ScanLineSame, EndOfFileSame, SweepSame,
           ExpireSame DEF Next

\* A search over an archive whose blob holds every file returns, line by line
\* and on either path, exactly the full scan under the caps, and the beginning
\* of it when the deadline stopped it.
THEOREM ScanIsTheFullScan == Spec => []SameAsFullScan
<1>1. Init => TypeOK /\ FileInv /\ SameInv
  BY InitTypes, InitSame
<1>2. (TypeOK /\ FileInv /\ SameInv) /\ [Next]_vars => (TypeOK /\ FileInv /\ SameInv)'
  BY NextTypes, NextSame
<1>3. SameInv => SameAsFullScan
  BY DEF SameInv, SameAsFullScan
<1> QED BY <1>1, <1>2, <1>3, PTL DEF Spec

(***************************************************************************)
(* Every result is a real hit, and none is there twice.                    *)
(***************************************************************************)

\* What the sweep makes of the results o, when those of entry i begin after st:
\* it keeps hits of the entry, in the order of their lines.
SweptFrom(s, i, m, st, o, new) ==
    /\ Len(new) \in Nat /\ st <= Len(new)
    /\ \A r \in 1..st : new[r] = o[r]
    /\ \A q \in st+1..Len(new) : \E j \in 1..Len(HitsAt(s, i, m)) :
          /\ new[q] = HitUpto(s, i, HitsAt(s, i, m)[j], m)
          /\ o[st + j] = new[q] /\ st + j <= Len(o)
    /\ \A q, r \in st+1..Len(new) : q < r => new[q].line < new[r].line

LEMMA SweptFile ==
    ASSUME NEW s \in Searches, NEW i \in 1..Len(s.archive), NEW m \in Nat,
           NEW o \in Seq(Result), NEW st \in Nat, st < s.opts.max, NEW h \in Nat,
           Scanned(s, i, m, o, st, h),
           NEW new, new = SubSeq(o, 1, st) \o Swept(s, SubSeq(o, st + 1, Len(o)))
    PROVE  SweptFrom(s, i, m, st, o, new)
<1> DEFINE at == HitsAt(s, i, m)
           t == SubSeq(o, 1, st)
           p == SubSeq(o, st + 1, Len(o))
           w == Swept(s, p)
           S == {r \in DOMAIN p : Survives(p[r])}
<1>1. /\ h = Fewer(Len(at), Limit(s, st)) /\ Len(o) = st + h
      /\ \A j \in 1..h : o[st + j] = HitUpto(s, i, at[j], m)
  BY DEF Scanned
<1>2. Len(at) \in Nat /\ \A j, k \in 1..Len(at) : j < k => at[j] < at[k]
  BY HitsAtIs
<1>3. h <= Len(at)
  <2> HIDE DEF at
  <2> QED BY <1>1, <1>2, LimitIs DEF Fewer
<1>4. t \in Seq(Result) /\ Len(t) = st /\ \A r \in 1..st : t[r] = o[r]
  <2>1. st <= Len(o) /\ 1 <= st + 1 /\ 1 \in Nat \ {0}
    BY <1>1
  <2>2. t \in Seq(Result) /\ Len(t) = st + 1 - 1 /\ \A k \in 1..st+1-1 : t[k] = o[1 + k - 1]
    BY <2>1, PartIs
  <2>3. st + 1 - 1 = st /\ \A k \in 1..st : 1 + k - 1 = k
    OBVIOUS
  <2> HIDE DEF t
  <2> QED BY <2>2, <2>3
<1>5. p \in Seq(Result) /\ Len(p) = h /\ \A j \in 1..h : p[j] = o[st + j]
  <2> DEFINE a == st + 1
             b == Len(o)
  <2>1. a \in Nat \ {0} /\ b \in Nat /\ a <= b + 1 /\ b <= Len(o) /\ b + 1 - a = h
        /\ \A j \in 1..h : a + j - 1 = st + j
    BY <1>1
  <2>2. p = SubSeq(o, a, b)
    OBVIOUS
  <2> HIDE DEF a, b, p
  <2>3. p \in Seq(Result) /\ Len(p) = b + 1 - a /\ \A j \in 1..b+1-a : p[j] = o[a + j - 1]
    BY <2>1, <2>2, PartIs
  <2> QED BY <2>1, <2>3
<1>6. w = IF s.opts.filter THEN Pick(p, S) ELSE p
  BY DEF Swept
<1>7. DOMAIN p = 1..Len(p)
  <2> HIDE DEF p
  <2> QED BY <1>5, LenProperties
<1>8. S \in SUBSET (1..Len(p))
  BY <1>7
<1> HIDE DEF at, t, p, w, S
<1>9. /\ IsFiniteSet(S) /\ Pick(p, S) \in Seq(Result)
      /\ Len(Pick(p, S)) = Cardinality(S) /\ Cardinality(S) \in 0..Len(p)
      /\ \A k \in 1..Cardinality(S) : Ascending(S)[k] \in S /\ Pick(p, S)[k] = p[Ascending(S)[k]]
  BY <1>5, <1>8, PickIs
<1>10. /\ \A k \in 1..Cardinality(S) : Ascending(S)[k] \in 1..h
       /\ \A k, l \in 1..Cardinality(S) : k < l => Ascending(S)[k] < Ascending(S)[l]
  <2>1. S \in SUBSET Nat
    BY <1>5, <1>8
  <2> QED BY <1>5, <1>8, <1>9, <2>1, AscendingIs
<1>11. w \in Seq(Result) /\ Len(w) \in Nat
  BY <1>5, <1>6, <1>9
<1>12. \A k \in 1..Len(w) : \E j \in 1..h : w[k] = p[j]
  BY <1>5, <1>6, <1>9, <1>10
<1>13. ASSUME NEW k \in Nat
       PROVE  HitUpto(s, i, k, m).line = k
  BY DEF HitUpto
<1>14. \A j \in 1..Len(at) : at[j] \in Nat
  BY HitsAtIs DEF at
<1>15. \A j \in 1..h : j \in 1..Len(at)
  BY <1>2, <1>3
<1>16. \A j \in 1..h : p[j].line = at[j]
  BY <1>1, <1>5, <1>13, <1>14, <1>15
<1>17. ASSUME NEW k \in 1..Len(w), NEW l \in 1..Len(w), k < l
       PROVE  w[k].line < w[l].line
  <2>1. CASE s.opts.filter
    <3> DEFINE x == Ascending(S)[k]
               y == Ascending(S)[l]
    <3>1. k \in 1..Cardinality(S) /\ l \in 1..Cardinality(S)
      BY <1>6, <1>9, <2>1
    <3>2. x \in 1..h /\ y \in 1..h /\ x < y /\ w[k] = p[x] /\ w[l] = p[y]
      BY <1>6, <1>9, <1>10, <1>17, <2>1, <3>1
    <3> HIDE DEF x, y
    <3> QED BY <1>2, <1>15, <1>16, <3>2
  <2>2. CASE ~s.opts.filter
    <3>1. k \in 1..h /\ l \in 1..h /\ w[k] = p[k] /\ w[l] = p[l]
      BY <1>5, <1>6, <2>2
    <3> QED BY <1>2, <1>15, <1>16, <1>17, <3>1
  <2> QED BY <2>1, <2>2
<1>18. new = t \o w
  BY DEF t, w, p
<1>19. /\ Len(new) = st + Len(w)
       /\ \A r \in 1..st + Len(w) : new[r] = IF r <= st THEN t[r] ELSE w[r - st]
  <2>1. t \in Seq(Result) /\ w \in Seq(Result)
    BY <1>4, <1>11
  <2>2. /\ Len(t \o w) = Len(t) + Len(w)
        /\ \A r \in 1..Len(t) + Len(w) : (t \o w)[r] = IF r <= Len(t) THEN t[r] ELSE w[r - Len(t)]
    BY <2>1, ConcatProperties
  <2> QED BY <1>4, <1>18, <2>2
<1>20. \A q \in st+1..Len(new) : q - st \in 1..Len(w) /\ new[q] = w[q - st]
  BY <1>11, <1>19
<1>21. \A r \in 1..st : new[r] = o[r]
  BY <1>4, <1>11, <1>19
<1>22. ASSUME NEW q \in st+1..Len(new)
       PROVE  \E j \in 1..Len(at) : /\ new[q] = HitUpto(s, i, at[j], m)
                                    /\ o[st + j] = new[q] /\ st + j <= Len(o)
  <2>1. PICK j \in 1..h : new[q] = p[j]
    BY <1>12, <1>20
  <2>2. j \in 1..Len(at) /\ st + j <= Len(o)
    BY <1>1, <1>15
  <2> QED BY <1>1, <1>5, <2>1, <2>2
<1>23. ASSUME NEW q \in st+1..Len(new), NEW r \in st+1..Len(new), q < r
       PROVE  new[q].line < new[r].line
  <2> DEFINE x == q - st
             y == r - st
  <2>1. x \in 1..Len(w) /\ y \in 1..Len(w) /\ new[q] = w[x] /\ new[r] = w[y] /\ x < y
    BY <1>20, <1>23
  <2> HIDE DEF x, y
  <2> QED BY <1>17, <2>1
<1>24. Len(new) \in Nat /\ st <= Len(new)
  BY <1>11, <1>19
<1> QED BY <1>21, <1>22, <1>23, <1>24 DEF SweptFrom, at

RealHitOf(s, c, h) ==
    \/ h = NameHit(h.entry) /\ s.archive[h.entry].name
    \/ /\ h.line \in DOMAIN s.archive[h.entry].lines
       /\ s.archive[h.entry].lines[h.line].match
       /\ h.filtered = Hit(s, h.entry, h.line).filtered
       /\ IsPrefix(h.context, Hit(s, h.entry, h.line).context)
       /\ ~c => h.context = Hit(s, h.entry, h.line).context

LEMMA RealHitIs ==
    ASSUME NEW h
    PROVE  RealHit(h) <=> RealHitOf(search, cut, h)
BY DEF RealHit, RealHitOf

\* The hits of a file that was read as far as line m.
LEMMA HitIsReal ==
    ASSUME NEW s \in Searches, NEW i \in 1..Len(s.archive),
           NEW m \in 0..Readable(s.archive[i].lines),
           NEW j \in 1..Len(HitsAt(s, i, m)), NEW c \in BOOLEAN,
           ~c => HitUpto(s, i, HitsAt(s, i, m)[j], m) = Hit(s, i, HitsAt(s, i, m)[j])
    PROVE  /\ RealHitOf(s, c, HitUpto(s, i, HitsAt(s, i, m)[j], m))
           /\ HitUpto(s, i, HitsAt(s, i, m)[j], m).entry = i
           /\ HitUpto(s, i, HitsAt(s, i, m)[j], m).line \in Nat \ {0}
<1> DEFINE k == HitsAt(s, i, m)[j]
           h == HitUpto(s, i, k, m)
           r == Readable(s.archive[i].lines)
           lines == s.archive[i].lines
<1>1. r \in Nat /\ r <= Len(lines) /\ DOMAIN lines = 1..Len(lines) /\ Len(lines) \in Nat
  BY ReadableOf, EntryParts
<1>2. m \in Nat /\ m <= r
  <2> HIDE DEF r
  <2>1. m \in 0..r
    BY DEF r
  <2> QED BY <1>1, <2>1
<1>3. k \in 1..m /\ WorthKeeping(s, lines[k])
  BY <1>2, HitsAtIs
<1>4. k \in DOMAIN lines /\ k \in Nat \ {0} /\ lines[k].match
  <2>1. k \in 1..Len(lines) /\ k \in Nat \ {0}
    <3> HIDE DEF k, r, lines
    <3> QED BY <1>1, <1>2, <1>3
  <2> QED BY <1>1, <1>3, <2>1 DEF WorthKeeping
<1>5. h.entry = i /\ h.line = k /\ h.context = WindowUpto(s, lines, k, m) /\ h.filtered = Hit(s, i, k).filtered
      /\ Hit(s, i, k).context = WindowUpto(s, lines, k, r)
  BY DEF HitUpto, Hit
<1>6. IsPrefix(WindowUpto(s, lines, k, m), WindowUpto(s, lines, k, r))
  <2> HIDE DEF k, r, lines
  <2> QED BY <1>1, <1>2, <1>3, WindowGrows
<1>7. ~c => h = Hit(s, i, k)
  OBVIOUS
<1> HIDE DEF k, h, r
<1>8. RealHitOf(s, c, h)
  BY <1>4, <1>5, <1>6, <1>7 DEF RealHitOf
<1> QED BY <1>4, <1>5, <1>8 DEF h, k

LexLess(a, b) == a.entry < b.entry \/ (a.entry = b.entry /\ a.line < b.line)

\* Of the first k results, those up to b come from the entries of the first
\* pass and those after it from the files left out of the blob; both parts are
\* in the order of the archive, and the entries beyond i are still to come.
Ordered(s, p, i, o, k, b) ==
    /\ b \in 0..k
    /\ p # "leftout" => b = k
    /\ \A r, q \in 1..k : r < q /\ (q <= b \/ b < r) => LexLess(o[r], o[q])
    /\ \A r \in 1..b : o[r].line # 0 /\ s.opts.indexed => s.archive[o[r].entry].text = "blob"
    /\ \A r \in b+1..k : o[r].line # 0 /\ s.archive[o[r].entry].path \in Wanted(s)
    /\ \A r \in 1..k : (p = "leftout" => r > b) => o[r].entry <= i

\* ... where only the name of entry i itself may be there already.
NameOnly(p, i, o, k, b) ==
    \A r \in 1..k : (p = "leftout" => r > b) /\ o[r].entry = i => o[r].line = 0

HitsInv ==
    /\ phase \in {"entry", "done"} =>
         /\ \A r \in 1..Len(out) : RealHitOf(search, cut, out[r])
         /\ \E b \in 0..Len(out) : Ordered(search, pass, e, out, Len(out), b)
    /\ phase \in {"lines", "sweep"} =>
         /\ \A r \in 1..start : RealHitOf(search, cut, out[r])
         /\ \E b \in 0..start : /\ Ordered(search, pass, e, out, start, b)
                                /\ NameOnly(pass, e, out, start, b)

\* No two results are the same, but for a file that both passes read.
LEMMA OrderedDiffer ==
    ASSUME TypeOK, NEW b \in 0..Len(out), Ordered(search, pass, e, out, Len(out), b)
    PROVE  AllDifferent
<1> DEFINE k == Len(out)
<1>1. k \in Nat /\ DOMAIN out = 1..k /\ \A r \in 1..k : out[r] \in Result
  BY LenProperties, ElementOfSeq DEF TypeOK
<1>2. \A r \in 1..k : out[r].entry \in Nat /\ out[r].line \in Nat
  BY <1>1 DEF Result
<1> HIDE DEF k
<1>3. /\ b \in 0..k
      /\ pass # "leftout" => b = k
      /\ \A r, q \in 1..k : r < q /\ (q <= b \/ b < r) => LexLess(out[r], out[q])
      /\ \A r \in 1..b : out[r].line # 0 /\ search.opts.indexed => search.archive[out[r].entry].text = "blob"
      /\ \A r \in b+1..k : out[r].line # 0 /\ search.archive[out[r].entry].path \in Wanted(search)
  BY DEF Ordered, k
<1>4. \A r, q \in 1..k : r # q /\ out[r].entry = out[q].entry /\ out[r].line = out[q].line =>
         (r <= b /\ b < q) \/ (q <= b /\ b < r)
  <2> SUFFICES ASSUME NEW r \in 1..k, NEW q \in 1..k, r # q, out[r].entry = out[q].entry,
                      out[r].line = out[q].line
               PROVE  (r <= b /\ b < q) \/ (q <= b /\ b < r)
    OBVIOUS
  <2>1. ~LexLess(out[r], out[q]) /\ ~LexLess(out[q], out[r])
    BY <1>2 DEF LexLess
  <2>2. ~(r < q /\ (q <= b \/ b < r)) /\ ~(q < r /\ (r <= b \/ b < q))
    BY <1>3, <2>1
  <2> QED BY <1>1, <1>3, <2>2
<1> SUFFICES ASSUME NEW r \in 1..k, NEW q \in 1..k, r < q, out[r].entry = out[q].entry,
                    out[r].line = out[q].line
             PROVE  /\ pass = "leftout" /\ ReadTwice(search, out[r].entry)
                    /\ \A x \in 1..k \ {r, q} :
                          out[x].entry # out[r].entry \/ out[x].line # out[r].line
  BY <1>1 DEF AllDifferent
<1>5. r <= b /\ b < q
  <2>1. r # q
    BY <1>1
  <2>2. (r <= b /\ b < q) \/ (q <= b /\ b < r)
    BY <1>4, <2>1
  <2> QED BY <1>1, <1>3, <2>2
<1>6. pass = "leftout" /\ search.opts.indexed
  <2>1. pass = "leftout"
    BY <1>1, <1>3, <1>5
  <2>2. pass # "archive" => search.opts.indexed
    BY DEF TypeOK
  <2> QED BY <2>1, <2>2
<1>7. ReadTwice(search, out[r].entry)
  <2>1. q \in b+1..k /\ r \in 1..b
    BY <1>1, <1>3, <1>5
  <2>2. out[q].line # 0 /\ search.archive[out[q].entry].path \in Wanted(search)
    BY <1>3, <2>1
  <2>3. search.archive[out[r].entry].text = "blob"
    BY <1>3, <1>6, <2>1, <2>2
  <2>4. PICK j \in LeftOut(search) : search.archive[j].path = search.archive[out[q].entry].path
    BY <2>2 DEF Wanted
  <2>5. j \in DOMAIN search.archive /\ search.archive[j].text = "unindexed"
    BY DEF LeftOut
  <2> QED BY <1>6, <2>3, <2>4, <2>5 DEF ReadTwice
<1>8. ASSUME NEW x \in 1..k \ {r, q}, out[x].entry = out[r].entry, out[x].line = out[r].line
      PROVE  FALSE
  <2>1. (x <= b /\ b < r) \/ (r <= b /\ b < x)
    BY <1>4, <1>8
  <2>2. (x <= b /\ b < q) \/ (q <= b /\ b < x)
    BY <1>4, <1>8
  <2> QED BY <1>1, <1>3, <1>5, <2>1, <2>2
<1> QED BY <1>6, <1>7, <1>8

LEMMA HitsInvSuffices ==
    ASSUME TypeOK, HitsInv
    PROVE  ResultsAreHits
<1> SUFFICES ASSUME phase = "done"
             PROVE  AllDifferent /\ \A r \in DOMAIN out : RealHit(out[r])
  BY DEF ResultsAreHits, Done
<1>1. DOMAIN out = 1..Len(out)
  BY LenProperties DEF TypeOK
<1>2. PICK b \in 0..Len(out) : Ordered(search, pass, e, out, Len(out), b)
  BY DEF HitsInv
<1>3. AllDifferent
  BY <1>2, OrderedDiffer
<1>4. \A r \in DOMAIN out : RealHit(out[r])
  BY <1>1, RealHitIs DEF HitsInv
<1> QED BY <1>3, <1>4

LEMMA InitHits ==
    ASSUME Init
    PROVE  HitsInv
<1>1. out = <<>> /\ phase = "entry" /\ Len(<<>>) = 0
  BY DEF Init
<1>2. Ordered(search, pass, e, <<>>, 0, 0)
  BY DEF Ordered
<1> QED BY <1>1, <1>2 DEF HitsInv

\* With a cut file the demands on a result become weaker, never stronger.
LEMMA RealStays ==
    ASSUME NEW s, NEW c, NEW d, c => d, NEW h, RealHitOf(s, c, h)
    PROVE  RealHitOf(s, d, h)
BY DEF RealHitOf

LEMMA StopEntriesHits ==
    ASSUME TypeOK, HitsInv, StopEntries
    PROVE  HitsInv'
<1>1. /\ phase = "entry" /\ UNCHANGED <<search, out, cut>>
      /\ \/ pass = "indexed" /\ pass' = "leftout" /\ e' = 0 /\ phase' = "entry"
         \/ phase' = "done" /\ pass' = pass /\ e' = e
  BY DEF StopEntries, EndPass, fileVars
<1>2. /\ \A r \in 1..Len(out) : RealHitOf(search, cut, out[r])
      /\ \E b \in 0..Len(out) : Ordered(search, pass, e, out, Len(out), b)
  BY <1>1 DEF HitsInv
<1>3. CASE phase' = "done" /\ pass' = pass /\ e' = e
  BY <1>1, <1>2, <1>3 DEF HitsInv
<1>4. CASE pass = "indexed" /\ pass' = "leftout" /\ e' = 0 /\ phase' = "entry"
  <2> DEFINE k == Len(out)
  <2>1. k \in Nat
    BY LenProperties DEF TypeOK
  <2>2. PICK b \in 0..k : Ordered(search, pass, e, out, k, b)
    BY <1>2
  <2> HIDE DEF k
  <2>3. Ordered(search, "leftout", 0, out, k, b)
    <3>1. b = k
      BY <1>4, <2>2 DEF Ordered
    <3>2. \A r \in 1..k : ~(r > b)
      BY <2>1, <3>1
    <3>3. b+1..k = {}
      BY <2>1, <3>1
    <3> QED BY <2>2, <3>2, <3>3 DEF Ordered
  <2>4. Ordered(search', pass', e', out', Len(out'), b) /\ b \in 0..Len(out')
    BY <1>1, <1>4, <2>2, <2>3 DEF k
  <2> QED BY <1>1, <1>2, <1>4, <2>4 DEF HitsInv
<1> QED BY <1>1, <1>3, <1>4

\* A name is a result of a new entry.
LEMMA NextEntryHits ==
    ASSUME TypeOK, HitsInv, NextEntry
    PROVE  HitsInv'
<1> DEFINE k == Len(out)
           i == e + 1
<1>1. /\ phase = "entry" /\ e' = i /\ e < Len(search.archive)
      /\ out' = IF Named(search, pass, i) THEN Append(out, NameHit(i)) ELSE out
      /\ \/ phase' = "lines" /\ start' = Len(out')
         \/ phase' = "entry"
      /\ UNCHANGED <<search, pass, cut>>
  BY DEF NextEntry
<1>2. e \in Nat /\ i \in Nat /\ k \in Nat /\ e < i
  BY AtEntry
<1>3. out \in Seq(Result) /\ NameHit(i) \in Result /\ NameHit(i).entry = i /\ NameHit(i).line = 0
  BY <1>2, NameHitIs DEF TypeOK
<1>4. \A r \in 1..k : RealHitOf(search, cut, out[r])
  BY <1>1 DEF HitsInv
<1>5. PICK b \in 0..k : Ordered(search, pass, e, out, k, b)
  BY <1>1 DEF HitsInv
<1>6. \A r \in 1..k : out[r].entry \in Nat
  <2>1. \A r \in 1..k : out[r] \in Result
    BY <1>3, ElementOfSeq
  <2> QED BY <2>1 DEF Result
<1> DEFINE Goal(l) == /\ \A r \in 1..l : RealHitOf(search, cut, out'[r])
                      /\ \E c \in 0..l : /\ Ordered(search, pass, i, out', l, c)
                                         /\ NameOnly(pass, i, out', l, c)
<1>7. Len(out') \in Nat /\ Goal(Len(out'))
  <2>1. CASE ~Named(search, pass, i)
    <3>1. out' = out
      BY <1>1, <2>1
    <3> HIDE DEF i, k
    <3>2. Ordered(search, pass, i, out, k, b)
      <4>1. \A r \in 1..k : (pass = "leftout" => r > b) => out[r].entry <= i
        BY <1>2, <1>5, <1>6 DEF Ordered
      <4> QED BY <1>5, <4>1 DEF Ordered
    <3>3. NameOnly(pass, i, out, k, b)
      <4>1. \A r \in 1..k : (pass = "leftout" => r > b) => out[r].entry # i
        BY <1>2, <1>5, <1>6 DEF Ordered
      <4> QED BY <4>1 DEF NameOnly
    <3>4. Goal(k)
      BY <1>4, <3>1, <3>2, <3>3
    <3> QED BY <1>2, <3>1, <3>4 DEF k
  <2>2. CASE Named(search, pass, i)
    <3> DEFINE x == NameHit(i)
               q == out'
               l == k + 1
    <3>1. q = Append(out, x)
      BY <1>1, <2>2
    <3>2. x \in Result /\ x.entry = i /\ x.line = 0
      BY <1>3
    <3>3. pass # "leftout" /\ search.archive[i].name
      BY <2>2 DEF Named
    <3>4. RealHitOf(search, cut, x)
      BY <1>3, <3>3 DEF RealHitOf
    <3> HIDE DEF i, x, q
    <3>5. Len(q) = l /\ q[l] = x /\ \A r \in 1..k : q[r] = out[r]
      BY <1>3, <3>1, <3>2, AppendProperties DEF k
    <3> HIDE DEF k
    <3>6. b = k
      BY <1>5, <3>3 DEF Ordered
    <3>7. \A r \in 1..l : r = l \/ r \in 1..k
      BY <1>2
    <3>8. Ordered(search, pass, i, q, l, l)
      <4>1. /\ \A r, t \in 1..k : r < t => LexLess(out[r], out[t])
            /\ \A r \in 1..k : out[r].line # 0 /\ search.opts.indexed => search.archive[out[r].entry].text = "blob"
            /\ \A r \in 1..k : out[r].entry <= e
        <5>1. \A t \in 1..k : t <= b
          BY <1>2, <3>6
        <5> QED BY <1>5, <3>3, <3>6, <5>1 DEF Ordered
      <4>2. \A r \in 1..k : LexLess(out[r], x) /\ out[r].entry <= i
        BY <1>2, <1>6, <3>2, <4>1 DEF LexLess
      <4>3. \A r, t \in 1..l : r < t => LexLess(q[r], q[t])
        <5> SUFFICES ASSUME NEW r \in 1..l, NEW t \in 1..l, r < t
                     PROVE  LexLess(q[r], q[t])
          OBVIOUS
        <5>1. r \in 1..k
          BY <1>2
        <5>2. CASE t = l
          BY <3>5, <4>2, <5>1, <5>2
        <5>3. CASE t \in 1..k
          BY <3>5, <4>1, <5>1, <5>3
        <5> QED BY <3>7, <5>2, <5>3
      <4>4. \A r \in 1..l : q[r].line # 0 /\ search.opts.indexed => search.archive[q[r].entry].text = "blob"
        BY <3>2, <3>5, <3>7, <4>1
      <4>5. \A r \in 1..l : q[r].entry <= i
        BY <1>2, <3>2, <3>5, <3>7, <4>2 DEF i
      <4>6. l \in 0..l /\ l+1..l = {}
        BY <1>2
      <4> QED BY <4>3, <4>4, <4>5, <4>6 DEF Ordered
    <3>9. NameOnly(pass, i, q, l, l)
      <4>1. \A r \in 1..k : out[r].entry # i
        BY <1>2, <1>5, <1>6, <3>3 DEF Ordered
      <4> QED BY <3>2, <3>5, <3>7, <4>1 DEF NameOnly
    <3>10. \A r \in 1..l : RealHitOf(search, cut, q[r])
      BY <1>4, <3>4, <3>5, <3>7
    <3>11. l \in 0..l
      BY <1>2
    <3>12. Goal(l)
      BY <3>8, <3>9, <3>10, <3>11 DEF q
    <3>13. l \in Nat /\ Len(out') = l
      BY <1>2, <3>5 DEF q
    <3> QED BY <3>12, <3>13
  <2> QED BY <2>1, <2>2
<1>8. /\ \A r \in 1..Len(out') : RealHitOf(search, cut, out'[r])
      /\ \E c \in 0..Len(out') : /\ Ordered(search, pass, i, out', Len(out'), c)
                                 /\ NameOnly(pass, i, out', Len(out'), c)
  BY <1>7
<1> HIDE DEF i
<1> QED BY <1>1, <1>8 DEF HitsInv

\* Inside a file what precedes its results stays as it is.
LEMMA OrderedSame ==
    ASSUME NEW s, NEW p, NEW i, NEW o, NEW q, NEW k \in Nat, NEW b \in 0..k,
           \A r \in 1..k : q[r] = o[r], Ordered(s, p, i, o, k, b), NameOnly(p, i, o, k, b)
    PROVE  Ordered(s, p, i, q, k, b) /\ NameOnly(p, i, q, k, b)
<1>1. \A r \in 1..b : r \in 1..k
  OBVIOUS
<1>2. \A r \in b+1..k : r \in 1..k
  OBVIOUS
<1> QED BY <1>1, <1>2 DEF Ordered, NameOnly

LEMMA WithinFileHits ==
    ASSUME TypeOK, HitsInv, phase \in {"lines", "sweep"}, phase' \in {"lines", "sweep"},
           UNCHANGED <<search, pass, e, start>>, cut => cut', SameBefore(start, out, out')
    PROVE  HitsInv'
<1>1. \A r \in 1..start : RealHitOf(search, cut, out[r]) /\ out'[r] = out[r]
  BY DEF HitsInv, SameBefore
<1>2. \A r \in 1..start : RealHitOf(search', cut', out'[r])
  BY <1>1, RealStays
<1>3. PICK b \in 0..start : Ordered(search, pass, e, out, start, b) /\ NameOnly(pass, e, out, start, b)
  BY DEF HitsInv
<1>4. start \in Nat
  BY DEF TypeOK
<1>5. Ordered(search, pass, e, out', start, b) /\ NameOnly(pass, e, out', start, b)
  BY <1>1, <1>3, <1>4, OrderedSame
<1>6. phase' \notin {"entry", "done"}
  OBVIOUS
<1> QED BY <1>2, <1>3, <1>5, <1>6 DEF HitsInv

\* A line leaves what precedes the results of its file alone.
LEMMA LineKeeps ==
    ASSUME TypeOK, FileInv, ScanLine
    PROVE  SameBefore(start, out, out')
<1>1. /\ phase = "lines"
      /\ \/ UNCHANGED <<out, hits, pend>>
         \/ LineStep(search, e, n, out, hits, pend, out', hits', pend')
  BY ScanLineParts
<1>2. CASE out' = out
  BY <1>2 DEF SameBefore
<1>3. CASE LineStep(search, e, n, out, hits, pend, out', hits', pend')
  <2>1. /\ search \in Searches /\ e \in 1..Len(search.archive)
        /\ out \in Seq(Result) /\ pend \in Seq(Waiting) /\ n \in Nat /\ start \in Nat
        /\ hits \in Nat
    BY <1>1, AtEntry DEF TypeOK
  <2>2. /\ start < search.opts.max
        /\ Scanned(search, e, n, out, start, hits)
        /\ Waits(search, e, n, start, hits, pend)
    BY <1>1 DEF FileInv
  <2> QED BY <1>3, <2>1, <2>2, ScanStep
<1> QED BY <1>1, <1>2, <1>3

LEMMA ScanLineHits ==
    ASSUME TypeOK, FileInv, HitsInv, ScanLine
    PROVE  HitsInv'
<1>1. /\ phase = "lines" /\ phase' \in {"lines", "sweep"}
      /\ UNCHANGED <<search, pass, e, start>>
      /\ cut => cut'
  <2>1. /\ phase = "lines"
        /\ UNCHANGED <<search, pass, e, start, capped, timedOut, expired>>
        /\ \/ CtxErr /\ cut' = TRUE /\ phase' = "sweep" /\ UNCHANGED <<out, hits, pend>>
           \/ /\ LineStep(search, e, n, out, hits, pend, out', hits', pend')
              /\ phase' = IF Len(out') >= search.opts.max /\ pend' = <<>> THEN "sweep" ELSE "lines"
              /\ cut' = cut
    BY ScanLineParts
  <2>2. phase' \in {"lines", "sweep"}
    BY <2>1
  <2>3. cut => cut'
    BY <2>1
  <2> QED BY <2>1, <2>2, <2>3
<1>2. SameBefore(start, out, out')
  BY LineKeeps
<1> QED BY <1>1, <1>2, WithinFileHits

LEMMA EndOfFileHits ==
    ASSUME TypeOK, HitsInv, EndOfFile
    PROVE  HitsInv'
<1>1. /\ phase = "lines" /\ phase' = "sweep"
      /\ UNCHANGED <<search, pass, e, start, out, cut>>
  BY DEF EndOfFile
<1>2. SameBefore(start, out, out')
  BY <1>1 DEF SameBefore
<1> QED BY <1>1, <1>2, WithinFileHits

LEMMA ExpireHits ==
    ASSUME HitsInv, Expire
    PROVE  HitsInv'
BY DEF Expire, fileVars, HitsInv

LEMMA SweepHits ==
    ASSUME TypeOK, FileInv, HitsInv, Sweep
    PROVE  HitsInv'
<1> DEFINE l == Len(out')
           q == out'
<1>1. /\ phase = "sweep" /\ phase' = "entry"
      /\ out' = SubSeq(out, 1, start) \o Swept(search, SubSeq(out, start + 1, Len(out)))
      /\ UNCHANGED <<search, pass, e, cut>>
  BY DEF Sweep
<1>2. /\ search \in Searches /\ e \in 1..Len(search.archive) /\ e \in Nat
      /\ out \in Seq(Result) /\ start \in Nat /\ hits \in Nat /\ cut \in BOOLEAN
  BY <1>1, AtEntry DEF TypeOK
<1>3. Reads(search, pass, e) /\ start < search.opts.max
  BY <1>1 DEF FileInv
<1>4. PICK m \in 0..Readable(search.archive[e].lines) :
         /\ Scanned(search, e, m, out, start, hits)
         /\ ~cut => Complete(search, e, m, start, hits)
  BY <1>1 DEF FileInv
<1>5. m \in Nat
  <2>1. Readable(search.archive[e].lines) \in Nat
    BY <1>2, ReadableOf
  <2> QED BY <2>1
<1>6. SweptFrom(search, e, m, start, out, q)
  BY <1>1, <1>2, <1>3, <1>4, <1>5, SweptFile
<1>7. PICK b \in 0..start : Ordered(search, pass, e, out, start, b) /\ NameOnly(pass, e, out, start, b)
  BY <1>1 DEF HitsInv
<1>8. \A r \in 1..start : RealHitOf(search, cut, out[r])
  BY <1>1 DEF HitsInv
<1>9. \A r \in start+1..l : /\ RealHitOf(search, cut, q[r])
                            /\ q[r].entry = e /\ q[r].line \in Nat \ {0}
  <2> SUFFICES ASSUME NEW r \in start+1..l
               PROVE  /\ RealHitOf(search, cut, q[r])
                      /\ q[r].entry = e /\ q[r].line \in Nat \ {0}
    OBVIOUS
  <2>1. PICK j \in 1..Len(HitsAt(search, e, m)) :
            /\ q[r] = HitUpto(search, e, HitsAt(search, e, m)[j], m)
            /\ out[start + j] = q[r] /\ start + j <= Len(out)
    BY <1>6 DEF SweptFrom
  <2>2. ~cut => q[r] = Hit(search, e, HitsAt(search, e, m)[j])
    <3> SUFFICES ASSUME ~cut
                 PROVE  q[r] = Hit(search, e, HitsAt(search, e, m)[j])
      OBVIOUS
    <3>1. j \in 1..hits
      <4>1. Len(out) = start + hits
        BY <1>4 DEF Scanned
      <4>2. j \in Nat \ {0}
        BY <1>5, HitsAtIs
      <4> QED BY <1>2, <2>1, <4>1, <4>2
    <3>2. HitUpto(search, e, HitsAt(search, e, m)[j], m) = Hit(search, e, HitsAt(search, e, m)[j])
      BY <1>4, <3>1 DEF Complete
    <3> QED BY <2>1, <3>2
  <2> HIDE DEF q
  <2> QED BY <1>2, <2>1, <2>2, HitIsReal
<1>10. /\ l \in Nat /\ start <= l
       /\ \A r \in 1..start : q[r] = out[r]
       /\ \A r, t \in start+1..l : r < t => q[r].line < q[t].line
  BY <1>6 DEF SweptFrom
<1>11. \A r \in 1..start : out[r].entry \in Nat /\ out[r].line \in Nat
  <2>1. start <= Len(out) /\ Len(out) \in Nat
    BY <1>2, <1>4 DEF Scanned
  <2>2. \A r \in 1..start : out[r] \in Result
    BY <1>2, <2>1, ElementOfSeq
  <2> QED BY <2>2 DEF Result
<1>12. Reads(search, pass, e) => /\ pass = "indexed" => search.archive[e].text = "blob"
                                 /\ pass = "leftout" => search.archive[e].path \in Wanted(search)
  BY DEF Reads
<1>13. /\ pass \in {"archive", "indexed", "leftout"}
       /\ pass = "archive" => ~search.opts.indexed
  BY DEF TypeOK
<1> HIDE DEF q, l
<1>14. \A r \in 1..l : r \in 1..start \/ r \in start+1..l
  BY <1>2, <1>10
<1>15. \A r \in 1..l : RealHitOf(search, cut, q[r])
  BY <1>8, <1>9, <1>10, <1>14
<1> DEFINE c == IF pass = "leftout" THEN b ELSE l
<1>16. c \in 0..l /\ (pass # "leftout" => c = l)
  BY <1>2, <1>10
<1>20. /\ pass # "leftout" => b = start
       /\ \A r, t \in 1..start : r < t /\ (t <= b \/ b < r) => LexLess(out[r], out[t])
       /\ \A r \in 1..b : out[r].line # 0 /\ search.opts.indexed => search.archive[out[r].entry].text = "blob"
       /\ \A r \in b+1..start : out[r].line # 0 /\ search.archive[out[r].entry].path \in Wanted(search)
       /\ \A r \in 1..start : (pass = "leftout" => r > b) => out[r].entry <= e
       /\ \A r \in 1..start : (pass = "leftout" => r > b) /\ out[r].entry = e => out[r].line = 0
  BY <1>7 DEF Ordered, NameOnly
<1>17. ASSUME NEW r \in 1..l, NEW t \in 1..l, r < t, t <= c \/ c < r
       PROVE  LexLess(q[r], q[t])
  <2>1. CASE t \in 1..start
    <3>1. r \in 1..start
      BY <1>2, <1>17, <2>1
    <3>2. t <= b \/ b < r
      BY <1>2, <1>10, <1>17, <1>20, <2>1
    <3> QED BY <1>10, <1>17, <1>20, <2>1, <3>1, <3>2
  <2>2. CASE t \in start+1..l /\ r \in start+1..l
    BY <1>9, <1>10, <1>17, <2>2 DEF LexLess
  <2>3. CASE t \in start+1..l /\ r \in 1..start
    <3>1. pass = "leftout" => r > b
      BY <1>2, <1>17, <2>3
    <3>2. out[r].entry <= e /\ (out[r].entry = e => out[r].line = 0)
      BY <1>20, <2>3, <3>1
    <3>3. q[t].entry = e /\ q[t].line \in Nat \ {0} /\ q[r] = out[r]
      BY <1>9, <1>10, <2>3
    <3>4. out[r].entry \in Nat
      BY <1>11, <2>3
    <3> QED BY <1>2, <3>2, <3>3, <3>4 DEF LexLess
  <2> QED BY <1>14, <2>1, <2>2, <2>3
<1>18. ASSUME NEW r \in 1..l
       PROVE  /\ r <= c /\ q[r].line # 0 /\ search.opts.indexed => search.archive[q[r].entry].text = "blob"
              /\ r > c => q[r].line # 0 /\ search.archive[q[r].entry].path \in Wanted(search)
              /\ (pass = "leftout" => r > c) => q[r].entry <= e
  <2>1. CASE r \in 1..start
    <3>1. q[r] = out[r]
      BY <1>10, <2>1
    <3>2. pass # "leftout" => r \in 1..b /\ ~(r > c)
      BY <1>2, <1>10, <1>20, <2>1
    <3>3. pass = "leftout" => c = b
      OBVIOUS
    <3>4. r \in 1..b \/ r \in b+1..start
      BY <1>2, <2>1
    <3>5. r \in 1..b <=> r <= b
      BY <1>2, <2>1
    <3> HIDE DEF c
    <3>6. r \in b+1..start <=> r > b
      BY <1>2, <2>1
    <3>7. (pass = "leftout" => r > b) => q[r].entry <= e
      BY <1>20, <2>1, <3>1
    <3>8. r \in 1..b /\ q[r].line # 0 /\ search.opts.indexed => search.archive[q[r].entry].text = "blob"
      BY <1>20, <3>1
    <3>9. r \in b+1..start => q[r].line # 0 /\ search.archive[q[r].entry].path \in Wanted(search)
      BY <1>20, <3>1
    <3> QED BY <3>2, <3>3, <3>4, <3>5, <3>6, <3>7, <3>8, <3>9
  <2>2. CASE r \in start+1..l
    <3>1. q[r].entry = e /\ q[r].line \in Nat \ {0}
      BY <1>9, <2>2
    <3>2. r > b /\ r <= l
      BY <1>2, <1>10, <2>2
    <3>3. pass = "leftout" => r > c
      BY <3>2
    <3>4. pass # "leftout" => ~(r > c)
      BY <1>10, <3>2
    <3>5. pass = "leftout" => ~(r <= c)
      BY <1>2, <2>2, <3>2
    <3> HIDE DEF c
    <3>6. search.opts.indexed /\ pass # "leftout" => search.archive[e].text = "blob"
      BY <1>3, <1>12, <1>13
    <3>7. pass = "leftout" => search.archive[e].path \in Wanted(search)
      BY <1>3, <1>12
    <3>8. e <= e
      BY <1>2
    <3> QED BY <3>1, <3>3, <3>4, <3>5, <3>6, <3>7, <3>8
  <2> QED BY <1>14, <2>1, <2>2
<1>19. Ordered(search, pass, e, q, l, c)
  <2>1. \A r \in 1..c : r \in 1..l /\ r <= c
    BY <1>10, <1>16
  <2>2. \A r \in c+1..l : r \in 1..l /\ r > c
    BY <1>10, <1>16
  <2> HIDE DEF c
  <2>3. \A r, t \in 1..l : r < t /\ (t <= c \/ c < r) => LexLess(q[r], q[t])
    BY <1>17
  <2>4. \A r \in 1..c : q[r].line # 0 /\ search.opts.indexed => search.archive[q[r].entry].text = "blob"
    BY <1>18, <2>1
  <2>5. \A r \in c+1..l : q[r].line # 0 /\ search.archive[q[r].entry].path \in Wanted(search)
    BY <1>18, <2>2
  <2>6. \A r \in 1..l : (pass = "leftout" => r > c) => q[r].entry <= e
    BY <1>18
  <2> QED BY <1>16, <2>3, <2>4, <2>5, <2>6 DEF Ordered
<1> HIDE DEF c
<1>21. \E x \in 0..Len(out') : Ordered(search, pass, e, out', Len(out'), x)
  BY <1>16, <1>19 DEF q, l
<1>22. \A r \in 1..Len(out') : RealHitOf(search, cut, out'[r])
  BY <1>15 DEF q, l
<1> QED BY <1>1, <1>21, <1>22 DEF HitsInv

LEMMA NextHits ==
    ASSUME TypeOK, FileInv, HitsInv, [Next]_vars
    PROVE  HitsInv'
<1>1. CASE UNCHANGED vars
  BY <1>1 DEF vars, HitsInv
<1> QED BY <1>1, StopEntriesHits, NextEntryHits, ScanLineHits, EndOfFileHits, SweepHits,
           ExpireHits DEF Next

\* Whatever the deadline cuts short, every result is a real hit with an initial
\* part of its own context, all of it when no file was cut; and two results
\* are the same only when a file was read in both passes of an indexed search.
THEOREM FoundAreHits == Spec => []ResultsAreHits
<1>1. Init => TypeOK /\ FileInv /\ HitsInv
  BY InitTypes, InitHits
<1>2. (TypeOK /\ FileInv /\ HitsInv) /\ [Next]_vars => (TypeOK /\ FileInv /\ HitsInv)'
  BY NextTypes, NextHits
<1>3. TypeOK /\ HitsInv => ResultsAreHits
  BY HitsInvSuffices
<1> QED BY <1>1, <1>2, <1>3, PTL DEF Spec

(***************************************************************************)
(* A search that reports no limit has found everything.                    *)
(***************************************************************************)

\* None of the ways to lose a match in silence that lie in the search itself:
\* every line fits the scanner's buffer, and no match that the filter drops
\* takes up a place as an anchor.
Faithful(s) ==
    /\ \A i \in DOMAIN s.archive : Scannable(s.archive[i].lines) = DOMAIN s.archive[i].lines
    /\ \/ ~(s.opts.before + s.opts.after > 0)
       \/ \A i \in DOMAIN s.archive : \A k \in DOMAIN s.archive[i].lines :
             s.archive[i].lines[k].match => Keep(s, s.archive[i].lines[k])

LEMMA QuietIs == MayLoseQuietly <=> cut \/ ~Faithful(search)
BY DEF MayLoseQuietly, Faithful

NameOf(s, p, i) == IF Named(s, p, i) THEN {NameHit(i)} ELSE {}

TextOf(s, p, i) == IF Selected(s, i) /\ Reads(s, p, i) THEN ToSet(Matches(s, i)) ELSE {}

PassUpto(s, p, i) == UNION {NameOf(s, p, j) \cup TextOf(s, p, j) : j \in 1..i}

\* What pass p finds in the entries up to i, and what was found before it.
FoundUpto(s, p, i) ==
    PassUpto(s, p, i) \cup (IF p = "leftout" THEN PassUpto(s, "indexed", Len(s.archive)) ELSE {})

Collected(o, k) == {o[r] : r \in 1..k}

\* Nothing is missing from the results as long as nothing was cut short.
LossInv ==
    /\ phase # "done" => ~timedOut
    /\ ~cut /\ Faithful(search) /\ capped = <<>> =>
         /\ phase = "entry" /\ Len(out) < search.opts.max =>
              Collected(out, Len(out)) = FoundUpto(search, pass, e)
         /\ phase \in {"lines", "sweep"} =>
              Collected(out, start) = FoundUpto(search, pass, e - 1) \cup NameOf(search, pass, e)
         /\ phase = "done" /\ Len(out) < search.opts.max /\ ~timedOut =>
              Collected(out, Len(out)) = Everything(search)

InEntry(s, p, i, x) == x \in NameOf(s, p, i) \/ x \in TextOf(s, p, i)

LEMMA FoundIn ==
    ASSUME NEW s, NEW p, NEW i, NEW x
    PROVE  x \in FoundUpto(s, p, i) <=>
              \/ \E j \in 1..i : InEntry(s, p, j, x)
              \/ p = "leftout" /\ \E j \in 1..Len(s.archive) : InEntry(s, "indexed", j, x)
<1>1. ASSUME NEW q, NEW m
      PROVE  x \in PassUpto(s, q, m) <=> \E j \in 1..m : InEntry(s, q, j, x)
  <2> DEFINE A(j) == NameOf(s, q, j) \cup TextOf(s, q, j)
  <2>1. \A j \in 1..m : x \in A(j) <=> InEntry(s, q, j, x)
    BY DEF InEntry
  <2>2. PassUpto(s, q, m) = UNION {A(j) : j \in 1..m}
    BY DEF PassUpto
  <2> HIDE DEF A
  <2> QED BY <2>1, <2>2
<1>2. CASE p = "leftout"
  <2>1. FoundUpto(s, p, i) = PassUpto(s, p, i) \cup PassUpto(s, "indexed", Len(s.archive))
    BY <1>2 DEF FoundUpto
  <2> QED BY <1>1, <1>2, <2>1
<1>3. CASE p # "leftout"
  <2>1. FoundUpto(s, p, i) = PassUpto(s, p, i)
    BY <1>3 DEF FoundUpto
  <2> QED BY <1>1, <1>3, <2>1
<1> QED BY <1>2, <1>3

\* One more entry.
LEMMA FoundNext ==
    ASSUME NEW s, NEW p, NEW i \in Nat
    PROVE  FoundUpto(s, p, i + 1) =
              FoundUpto(s, p, i) \cup NameOf(s, p, i + 1) \cup TextOf(s, p, i + 1)
<1> SUFFICES ASSUME NEW x
             PROVE  x \in FoundUpto(s, p, i + 1) <=>
                       x \in FoundUpto(s, p, i) \/ InEntry(s, p, i + 1, x)
  BY DEF InEntry
<1>1. i + 1 \in 1..i+1 /\ \A j \in 1..i+1 : j = i + 1 \/ j \in 1..i
  OBVIOUS
<1>2. \A j \in 1..i : j \in 1..i+1
  OBVIOUS
<1>3. (\E j \in 1..i+1 : InEntry(s, p, j, x)) <=>
         (\E j \in 1..i : InEntry(s, p, j, x)) \/ InEntry(s, p, i + 1, x)
  BY <1>1, <1>2
<1> QED BY <1>3, FoundIn

LEMMA FoundNone ==
    ASSUME NEW s, NEW p, p # "leftout"
    PROVE  FoundUpto(s, p, 0) = {}
<1>1. 1..0 = {}
  OBVIOUS
<1>2. \A x : x \notin FoundUpto(s, p, 0)
  BY <1>1, FoundIn
<1> QED BY <1>2

LEMMA CollectedNext ==
    ASSUME NEW o \in Seq(Result), NEW x
    PROVE  Collected(Append(o, x), Len(Append(o, x))) = Collected(o, Len(o)) \cup {x}
<1> DEFINE k == Len(o)
           q == Append(o, x)
<1>1. k \in Nat /\ Len(q) = k + 1 /\ q[k + 1] = x /\ \A r \in 1..k : q[r] = o[r]
  BY LenProperties
<1> HIDE DEF k, q
<1>2. 1..k+1 = (1..k) \cup {k + 1}
  BY <1>1
<1>3. Collected(q, k + 1) = Collected(o, k) \cup {x}
  BY <1>1, <1>2 DEF Collected
<1> QED BY <1>1, <1>3 DEF k, q

LEMMA CollectedSame ==
    ASSUME NEW k, NEW o, NEW q, SameBefore(k, o, q)
    PROVE  Collected(q, k) = Collected(o, k)
BY DEF Collected, SameBefore

LEMMA MatchSet ==
    ASSUME NEW s \in Searches, NEW i \in 1..Len(s.archive)
    PROVE  ToSet(Matches(s, i)) =
              {Hit(s, i, HitsAt(s, i, Readable(s.archive[i].lines))[j]) :
                  j \in 1..Len(HitsAt(s, i, Readable(s.archive[i].lines)))}
<1>1. MatchesAre(s, i, Matches(s, i))
  BY MatchesIs
<1>2. DOMAIN Matches(s, i) = 1..Len(Matches(s, i))
  BY <1>1, LenProperties DEF MatchesAre
<1> QED BY <1>1, <1>2 DEF MatchesAre, ToSet

\* The sweep of a faithful search drops nothing.
LEMMA FaithfulKeeps ==
    ASSUME NEW s \in Searches, Faithful(s), NEW i \in 1..Len(s.archive), NEW m \in Nat,
           NEW k \in DOMAIN s.archive[i].lines, WorthKeeping(s, s.archive[i].lines[k])
    PROVE  Survives(HitUpto(s, i, k, m))
<1>1. HitUpto(s, i, k, m).filtered = ~Keep(s, s.archive[i].lines[k])
  BY DEF HitUpto
<1>2. i \in DOMAIN s.archive /\ s.opts.before \in Nat /\ s.opts.after \in Nat
  BY SearchParts
<1>3. Keep(s, s.archive[i].lines[k])
  <2>1. CASE ~(s.opts.before + s.opts.after > 0)
    <3>1. ~(s.opts.before > 0) /\ ~(s.opts.after > 0)
      BY <1>2, <2>1
    <3> QED BY <3>1 DEF WorthKeeping
  <2>2. CASE s.opts.before + s.opts.after > 0
    BY <1>2, <2>2 DEF Faithful, WorthKeeping
  <2> QED BY <2>1, <2>2
<1> QED BY <1>1, <1>3 DEF Survives

LEMMA SweptAll ==
    ASSUME NEW s, NEW p \in Seq(Result), \A r \in 1..Len(p) : Survives(p[r])
    PROVE  Swept(s, p) = p
<1>1. {r \in DOMAIN p : Survives(p[r])} = 1..Len(p)
  BY LenProperties
<1>2. Pick(p, 1..Len(p)) = p
  BY PickAll
<1> QED BY <1>1, <1>2 DEF Swept

\* A file that no cap cut short is found whole.
SweptTo(s, st, o, new) ==
    /\ new = SubSeq(o, 1, st) \o Swept(s, SubSeq(o, st + 1, Len(o)))
    /\ Len(new) < s.opts.max

Whole(s, i, st, o, new) ==
    Collected(new, Len(new)) = Collected(o, st) \cup ToSet(Matches(s, i))

LEMMA FileComplete ==
    ASSUME NEW s \in Searches, Faithful(s), NEW i \in 1..Len(s.archive),
           NEW m \in 0..Readable(s.archive[i].lines), NEW o \in Seq(Result),
           NEW st \in Nat, st < s.opts.max, NEW h \in Nat,
           Scanned(s, i, m, o, st, h), Complete(s, i, m, st, h), h < PerFileCap,
           NEW new, SweptTo(s, st, o, new)
    PROVE  Whole(s, i, st, o, new)
<1> DEFINE r == Readable(s.archive[i].lines)
           at == HitsAt(s, i, r)
           t == SubSeq(o, 1, st)
           f == Found(s, i, st)
<1>1. r \in Nat /\ r <= Len(s.archive[i].lines) /\ Len(s.archive[i].lines) \in Nat
      /\ DOMAIN s.archive[i].lines = 1..Len(s.archive[i].lines)
  BY ReadableOf, EntryParts
<1>2. s.opts.max \in Nat /\ PerFileCap \in Nat /\ Len(o) = st + h /\ st <= s.opts.max
  BY SearchParts DEF Scanned
<1>3. SubSeq(o, st + 1, Len(o)) = f
  BY FileFound
<1>4. FoundIsFor(s, i, st, f)
  BY <1>2, FoundIs
<1>5. /\ f \in Seq(Result) /\ Len(f) = Fewer(Len(at), Limit(s, st))
      /\ \A j \in 1..Len(f) : f[j] = Hit(s, i, at[j])
  BY <1>4 DEF FoundIsFor
<1>6. h = Len(f)
  BY <1>5 DEF Complete
<1>7. Len(at) \in Nat /\ \A j \in 1..Len(at) : at[j] \in 1..r /\ WorthKeeping(s, s.archive[i].lines[at[j]])
  <2> HIDE DEF r
  <2> QED BY <1>1, HitsAtIs
<1>8. t \in Seq(Result) /\ Len(t) = st /\ \A x \in 1..st : t[x] = o[x]
  <2>1. st <= Len(o) /\ 1 <= st + 1 /\ 1 \in Nat \ {0}
    BY <1>2
  <2>2. t \in Seq(Result) /\ Len(t) = st + 1 - 1 /\ \A k \in 1..st+1-1 : t[k] = o[1 + k - 1]
    BY <2>1, PartIs
  <2>3. st + 1 - 1 = st /\ \A k \in 1..st : 1 + k - 1 = k
    OBVIOUS
  <2> HIDE DEF t
  <2> QED BY <2>2, <2>3
<1>9. h \in 0..Len(at)
  <2> HIDE DEF at, f
  <2> QED BY <1>5, <1>6, <1>7, LimitIs DEF Fewer
<1>10. \A j \in 1..Len(f) : Survives(f[j])
  <2> SUFFICES ASSUME NEW j \in 1..Len(f)
               PROVE  Survives(f[j])
    OBVIOUS
  <2>1. j \in 1..Len(at)
    BY <1>6, <1>9
  <2>2. at[j] \in DOMAIN s.archive[i].lines /\ WorthKeeping(s, s.archive[i].lines[at[j]])
    <3>1. at[j] \in 1..r
      BY <1>7, <2>1
    <3>2. at[j] \in 1..Len(s.archive[i].lines)
      <4> HIDE DEF r, at
      <4> QED BY <1>1, <3>1
    <3> QED BY <1>1, <1>7, <2>1, <3>2
  <2>3. f[j] = Hit(s, i, at[j])
    BY <1>5
  <2> HIDE DEF at, f
  <2> QED BY <1>1, <2>2, <2>3, FaithfulKeeps DEF Hit
<1>11. Swept(s, f) = f
  <2> HIDE DEF f
  <2> QED BY <1>5, <1>10, SweptAll
<1>12. new = t \o f
  BY <1>3, <1>11 DEF SweptTo
<1> HIDE DEF t, f, at, r
<1>13. /\ Len(new) = st + h
       /\ \A x \in 1..st+h : new[x] = IF x <= st THEN t[x] ELSE f[x - st]
  <2>1. /\ Len(t \o f) = Len(t) + Len(f)
        /\ \A x \in 1..Len(t) + Len(f) : (t \o f)[x] = IF x <= Len(t) THEN t[x] ELSE f[x - Len(t)]
    BY <1>5, <1>8, ConcatProperties
  <2> QED BY <1>6, <1>8, <1>12, <2>1
<1>14. h = Len(at)
  BY <1>2, <1>5, <1>6, <1>7, <1>13 DEF Fewer, Limit, SweptTo
<1>15. Collected(new, st + h) = Collected(o, st) \cup {f[j] : j \in 1..h}
  <2>1. \A x \in 1..st : x \in 1..st+h /\ new[x] = o[x]
    BY <1>8, <1>13
  <2>2. \A j \in 1..h : st + j \in 1..st+h /\ new[st + j] = f[j]
    BY <1>13
  <2>3. \A x \in 1..st+h : x \in 1..st \/ (x - st \in 1..h /\ new[x] = f[x - st])
    BY <1>13
  <2> SUFFICES ASSUME NEW y
               PROVE  y \in Collected(new, st + h) <=> y \in Collected(o, st) \cup {f[j] : j \in 1..h}
    OBVIOUS
  <2>4. y \in Collected(new, st + h) <=> \E x \in 1..st+h : new[x] = y
    BY DEF Collected
  <2>5. y \in Collected(o, st) <=> \E x \in 1..st : o[x] = y
    BY DEF Collected
  <2>6. y \in {f[j] : j \in 1..h} <=> \E j \in 1..h : f[j] = y
    OBVIOUS
  <2> QED BY <2>1, <2>2, <2>3, <2>4, <2>5, <2>6
<1>16. {f[j] : j \in 1..h} = {Hit(s, i, at[j]) : j \in 1..Len(at)}
  BY <1>5, <1>6, <1>14
<1>17. ToSet(Matches(s, i)) = {Hit(s, i, at[j]) : j \in 1..Len(at)}
  BY MatchSet DEF at, r
<1> QED BY <1>13, <1>15, <1>16, <1>17 DEF Whole

\* A file in which no line matches has nothing to find.
LEMMA NothingInside ==
    ASSUME NEW s \in Searches, NEW i \in 1..Len(s.archive), NoMatch(s, i)
    PROVE  ToSet(Matches(s, i)) = {}
<1> DEFINE r == Readable(s.archive[i].lines)
<1>1. r \in Nat /\ r <= Len(s.archive[i].lines) /\ Len(s.archive[i].lines) \in Nat
      /\ DOMAIN s.archive[i].lines = 1..Len(s.archive[i].lines)
  BY ReadableOf, EntryParts
<1>2. \A k \in 1..r : k \in DOMAIN s.archive[i].lines
  <2> HIDE DEF r
  <2> QED BY <1>1
<1>3. \A k \in 1..r : ~WorthKeeping(s, s.archive[i].lines[k])
  BY <1>2 DEF NoMatch, WorthKeeping
<1>4. Len(HitsAt(s, i, r)) = 0
  <2>1. {k \in 1..r : WorthKeeping(s, s.archive[i].lines[k])} = {}
    BY <1>3
  <2>2. HitsAt(s, i, r) = <<>>
    BY <2>1, AscendingEmpty DEF HitsAt
  <2> QED BY <2>2
<1>5. 1..0 = {}
  OBVIOUS
<1> QED BY <1>4, <1>5, MatchSet

\* The passes together read every entry once they are through.
LEMMA FoundAll ==
    ASSUME NEW s \in Searches, Faithful(s), NEW p \in {"archive", "indexed", "leftout"},
           p = "archive" <=> ~s.opts.indexed,
           p = "indexed" => LeftOut(s) = {}
    PROVE  FoundUpto(s, p, Len(s.archive)) = Everything(s)
<1> DEFINE D == 1..Len(s.archive)
<1>1. DOMAIN s.archive = D
  BY SearchParts
<1>2. ASSUME NEW i \in D
      PROVE  AllOf(s, i) = NameOf(s, "indexed", i)
                \cup (IF Selected(s, i) /\ s.archive[i].text # "binary"
                      THEN ToSet(Matches(s, i)) ELSE {})
  <2> DEFINE r == Readable(s.archive[i].lines)
             at == HitsAt(s, i, r)
  <2>1. r = Len(s.archive[i].lines)
    <3>1. 1..r = 1..Len(s.archive[i].lines)
      BY <1>1, ReadableOf, EntryParts DEF Faithful
    <3>2. r \in Nat /\ r <= Len(s.archive[i].lines) /\ Len(s.archive[i].lines) \in Nat
      BY ReadableOf, EntryParts
    <3> HIDE DEF r
    <3> QED BY <3>1, <3>2
  <2>2. MatchesUpto(s, i, Len(s.archive[i].lines)) = Matches(s, i)
    BY <2>1 DEF Matches
  <2>3. ToSet(Matches(s, i)) = {Hit(s, i, at[j]) : j \in 1..Len(at)}
    BY MatchSet
  <2>4. \A j \in 1..Len(at) : Survives(Hit(s, i, at[j]))
    <3> SUFFICES ASSUME NEW j \in 1..Len(at)
                 PROVE  Survives(Hit(s, i, at[j]))
      OBVIOUS
    <3>1. r \in Nat /\ DOMAIN s.archive[i].lines = 1..r
      BY <2>1, ReadableOf, EntryParts
    <3>2. at[j] \in 1..r /\ WorthKeeping(s, s.archive[i].lines[at[j]])
      <4> HIDE DEF r
      <4> QED BY <3>1, HitsAtIs
    <3> HIDE DEF at
    <3> QED BY <3>1, <3>2, FaithfulKeeps DEF Hit
  <2>5. {h \in ToSet(Matches(s, i)) : ~s.opts.filter \/ Survives(h)} = ToSet(Matches(s, i))
    BY <2>3, <2>4
  <2> QED BY <2>2, <2>5 DEF AllOf, NameOf, Named
<1>3. \A i \in D : s.archive[i].text \in {"blob", "unindexed", "binary"}
  BY EntryParts
<1>4. \A i \in D : s.archive[i].text = "unindexed" /\ Selected(s, i) =>
         i \in LeftOut(s) /\ s.archive[i].path \in Wanted(s)
  BY <1>1 DEF LeftOut, Wanted
<1>5. ASSUME NEW x
      PROVE  x \in Everything(s) <=> \E i \in D : x \in AllOf(s, i)
  BY <1>1 DEF Everything
<1> SUFFICES ASSUME NEW x
             PROVE  x \in FoundUpto(s, p, Len(s.archive)) <=> x \in Everything(s)
  OBVIOUS
<1>6. CASE p # "leftout"
  <2>1. ASSUME NEW i \in D
        PROVE  InEntry(s, p, i, x) <=> x \in AllOf(s, i)
    <3>1. Selected(s, i) => (Reads(s, p, i) <=> s.archive[i].text # "binary")
      BY <1>3, <1>4, <1>6 DEF Reads
    <3>2. NameOf(s, p, i) = NameOf(s, "indexed", i)
      BY <1>6 DEF NameOf, Named
    <3> QED BY <1>2, <3>1, <3>2 DEF TextOf, InEntry
  <2>2. x \in FoundUpto(s, p, Len(s.archive)) <=> \E i \in D : InEntry(s, p, i, x)
    BY <1>6, FoundIn
  <2> HIDE DEF D
  <2> QED BY <1>5, <2>1, <2>2
<1>7. CASE p = "leftout"
  <2>1. ASSUME NEW i \in D
        PROVE  InEntry(s, p, i, x) \/ InEntry(s, "indexed", i, x) <=> x \in AllOf(s, i)
    <3>1. Selected(s, i) =>
             (Reads(s, p, i) \/ Reads(s, "indexed", i) <=> s.archive[i].text # "binary")
      BY <1>3, <1>4, <1>7 DEF Reads
    <3>2. NameOf(s, p, i) = {}
      BY <1>7 DEF NameOf, Named
    <3>3. TextOf(s, p, i) \cup TextOf(s, "indexed", i) =
             IF Selected(s, i) /\ s.archive[i].text # "binary" THEN ToSet(Matches(s, i)) ELSE {}
      BY <3>1 DEF TextOf
    <3> QED BY <1>2, <3>2, <3>3 DEF InEntry
  <2>2. x \in FoundUpto(s, p, Len(s.archive)) <=>
           (\E i \in D : InEntry(s, p, i, x)) \/ (\E i \in D : InEntry(s, "indexed", i, x))
    BY <1>7, FoundIn
  <2> HIDE DEF D
  <2> QED BY <1>5, <2>1, <2>2
<1> QED BY <1>6, <1>7

LEMMA InitLoss ==
    ASSUME Init
    PROVE  LossInv
<1>1. /\ pass # "leftout" /\ phase = "entry" /\ e = 0 /\ out = <<>> /\ timedOut = FALSE
  BY DEF Init
<1>2. Collected(<<>>, Len(<<>>)) = {}
  <2>1. Len(<<>>) = 0 /\ 1..0 = {}
    OBVIOUS
  <2> QED BY <2>1 DEF Collected
<1> QED BY <1>1, <1>2, FoundNone DEF LossInv

LEMMA StopEntriesLoss ==
    ASSUME TypeOK, LossInv, StopEntries
    PROVE  LossInv'
<1> DEFINE N == Len(search.archive)
<1>1. /\ phase = "entry"
      /\ e = N \/ Len(out) >= search.opts.max \/ CtxErr
      /\ timedOut' = (timedOut \/ (e < N /\ Len(out) < search.opts.max /\ CtxErr))
      /\ UNCHANGED <<search, out, capped, cut>>
      /\ IF pass = "indexed" /\ Len(out) < search.opts.max /\ ~timedOut' /\ LeftOut(search) # {}
         THEN pass' = "leftout" /\ e' = 0 /\ phase' = phase
         ELSE phase' = "done" /\ UNCHANGED <<pass, e>>
  BY DEF StopEntries, EndPass, fileVars
<1>2. ~timedOut
  BY <1>1 DEF LossInv
<1>3. /\ search \in Searches /\ N \in Nat /\ e \in 0..N /\ Len(out) \in Nat /\ search.opts.max \in Nat
      /\ pass \in {"archive", "indexed", "leftout"}
      /\ pass = "archive" <=> ~search.opts.indexed
  <2>1. search \in Searches /\ N \in Nat /\ Len(out) \in Nat /\ search.opts.max \in Nat
    BY AtEntry
  <2> QED BY <2>1 DEF TypeOK
<1>4. ~timedOut' /\ Len(out) < search.opts.max => e = N
  <2>1. ~timedOut' => ~(e < N /\ Len(out) < search.opts.max /\ CtxErr)
    BY <1>1
  <2> HIDE DEF N
  <2> QED BY <1>1, <1>3, <2>1
<1>5. ~cut /\ Faithful(search) /\ capped = <<>> /\ Len(out) < search.opts.max =>
         Collected(out, Len(out)) = FoundUpto(search, pass, e)
  BY <1>1 DEF LossInv
<1>6. CASE pass = "indexed" /\ Len(out) < search.opts.max /\ ~timedOut' /\ LeftOut(search) # {}
  <2>1. pass' = "leftout" /\ e' = 0 /\ phase' = "entry" /\ e = N
    BY <1>1, <1>4, <1>6
  <2>2. FoundUpto(search, "leftout", 0) = FoundUpto(search, "indexed", N)
    <3> SUFFICES ASSUME NEW x
                 PROVE  x \in FoundUpto(search, "leftout", 0) <=> x \in FoundUpto(search, "indexed", N)
      OBVIOUS
    <3>1. 1..0 = {}
      OBVIOUS
    <3> QED BY <3>1, FoundIn
  <2> HIDE DEF N
  <2> QED BY <1>1, <1>5, <1>6, <2>1, <2>2 DEF LossInv
<1>7. CASE ~(pass = "indexed" /\ Len(out) < search.opts.max /\ ~timedOut' /\ LeftOut(search) # {})
  <2>1. phase' = "done" /\ pass' = pass /\ e' = e
    BY <1>1, <1>7
  <2>2. ~cut /\ Faithful(search) /\ capped = <<>> /\ Len(out) < search.opts.max /\ ~timedOut' =>
           Collected(out, Len(out)) = Everything(search)
    <3> SUFFICES ASSUME ~cut, Faithful(search), capped = <<>>, Len(out) < search.opts.max, ~timedOut'
                 PROVE  Collected(out, Len(out)) = Everything(search)
      OBVIOUS
    <3>1. FoundUpto(search, pass, N) = Everything(search)
      BY <1>3, <1>7, FoundAll
    <3> QED BY <1>4, <1>5, <3>1
  <2> QED BY <1>1, <2>1, <2>2 DEF LossInv
<1> QED BY <1>6, <1>7

LEMMA NextEntryLoss ==
    ASSUME TypeOK, LossInv, NextEntry
    PROVE  LossInv'
<1> DEFINE i == e + 1
           reads == Selected(search, e') /\ Reads(search, pass, e') /\ Len(out') < search.opts.max
<1>1. /\ phase = "entry" /\ e < Len(search.archive) /\ Len(out) < search.opts.max
      /\ e' = i
      /\ out' = IF Named(search, pass, i) THEN Append(out, NameHit(i)) ELSE out
      /\ \/ /\ reads /\ phase' = "lines" /\ start' = Len(out')
         \/ /\ ~reads \/ MayExclude(search, pass, i)
            /\ phase' = phase
      /\ UNCHANGED <<search, pass, capped, timedOut, cut>>
  BY DEF NextEntry, fileVars
<1>2. /\ search \in Searches /\ i \in 1..Len(search.archive) /\ e \in Nat /\ i - 1 = e
      /\ out \in Seq(Result) /\ Len(out) \in Nat
  <2>1. search \in Searches /\ i \in 1..Len(search.archive) /\ e \in Nat /\ Len(out) \in Nat
    BY <1>1, AtEntry
  <2> QED BY <2>1 DEF TypeOK
<1>3. ~timedOut
  BY <1>1 DEF LossInv
<1> SUFFICES ASSUME ~cut, Faithful(search), capped = <<>>
             PROVE  /\ phase' = "entry" /\ Len(out') < search.opts.max =>
                         Collected(out', Len(out')) = FoundUpto(search, pass, i)
                    /\ phase' \in {"lines", "sweep"} =>
                         Collected(out', start') = FoundUpto(search, pass, i - 1) \cup NameOf(search, pass, i)
  BY <1>1, <1>3 DEF LossInv
<1>4. Collected(out, Len(out)) = FoundUpto(search, pass, e)
  BY <1>1 DEF LossInv
<1>5. Collected(out', Len(out')) = FoundUpto(search, pass, e) \cup NameOf(search, pass, i)
  <2>1. CASE Named(search, pass, i)
    <3>1. out' = Append(out, NameHit(i))
      BY <1>1, <2>1
    <3>2. Collected(Append(out, NameHit(i)), Len(Append(out, NameHit(i))))
             = Collected(out, Len(out)) \cup {NameHit(i)}
      <4> HIDE DEF i
      <4> QED BY <1>2, CollectedNext
    <3> QED BY <1>4, <2>1, <3>1, <3>2 DEF NameOf
  <2>2. CASE ~Named(search, pass, i)
    BY <1>1, <1>4, <2>2 DEF NameOf
  <2> QED BY <2>1, <2>2
<1>6. CASE reads /\ phase' = "lines" /\ start' = Len(out')
  BY <1>2, <1>5, <1>6
<1>7. CASE (~reads \/ MayExclude(search, pass, i)) /\ phase' = phase
  <2>1. Len(out') < search.opts.max => TextOf(search, pass, i) = {}
    <3>1. CASE ~reads
      BY <1>1, <3>1 DEF TextOf
    <3>2. CASE MayExclude(search, pass, i)
      <4>1. NoMatch(search, i)
        BY <3>2 DEF MayExclude, NoMatch
      <4> HIDE DEF i
      <4>2. ToSet(Matches(search, i)) = {}
        BY <1>2, <4>1, NothingInside
      <4> QED BY <4>2 DEF TextOf
    <3> QED BY <1>7, <3>1, <3>2
  <2>2. FoundUpto(search, pass, i) =
           FoundUpto(search, pass, e) \cup NameOf(search, pass, i) \cup TextOf(search, pass, i)
    BY <1>2, FoundNext
  <2> HIDE DEF i, reads
  <2> QED BY <1>1, <1>5, <1>7, <2>1, <2>2
<1> QED BY <1>1, <1>6, <1>7

LEMMA WithinFileLoss ==
    ASSUME LossInv, phase \in {"lines", "sweep"}, phase' \in {"lines", "sweep"},
           UNCHANGED <<search, pass, e, start, capped, timedOut>>, cut => cut',
           SameBefore(start, out, out')
    PROVE  LossInv'
<1>1. Collected(out', start) = Collected(out, start)
  BY CollectedSame
<1>2. phase \notin {"entry", "done"} /\ phase' \notin {"entry", "done"}
  OBVIOUS
<1>3. ~timedOut
  BY <1>2 DEF LossInv
<1>4. ~cut' /\ Faithful(search) /\ capped = <<>> =>
         Collected(out, start) = FoundUpto(search, pass, e - 1) \cup NameOf(search, pass, e)
  BY DEF LossInv
<1> QED BY <1>1, <1>2, <1>3, <1>4 DEF LossInv

LEMMA ScanLineLoss ==
    ASSUME TypeOK, FileInv, LossInv, ScanLine
    PROVE  LossInv'
<1>1. /\ phase = "lines"
      /\ UNCHANGED <<search, pass, e, start, capped, timedOut, expired>>
      /\ \/ CtxErr /\ cut' = TRUE /\ phase' = "sweep" /\ UNCHANGED <<out, hits, pend>>
         \/ /\ LineStep(search, e, n, out, hits, pend, out', hits', pend')
            /\ phase' = IF Len(out') >= search.opts.max /\ pend' = <<>> THEN "sweep" ELSE "lines"
            /\ cut' = cut
  BY ScanLineParts
<1>2. phase' \in {"lines", "sweep"}
  BY <1>1
<1>3. cut => cut'
  BY <1>1
<1>4. SameBefore(start, out, out')
  BY <1>1, LineKeeps
<1> QED BY <1>1, <1>2, <1>3, <1>4, WithinFileLoss

LEMMA EndOfFileLoss ==
    ASSUME LossInv, EndOfFile
    PROVE  LossInv'
<1>1. /\ phase = "lines" /\ phase' = "sweep"
      /\ UNCHANGED <<search, pass, e, start, out, capped, timedOut, cut>>
  BY DEF EndOfFile
<1>2. SameBefore(start, out, out')
  BY <1>1 DEF SameBefore
<1> QED BY <1>1, <1>2, WithinFileLoss

LEMMA ExpireLoss ==
    ASSUME LossInv, Expire
    PROVE  LossInv'
BY DEF Expire, fileVars, LossInv

LEMMA SweepLoss ==
    ASSUME TypeOK, FileInv, LossInv, Sweep
    PROVE  LossInv'
<1>1. /\ phase = "sweep" /\ phase' = "entry"
      /\ out' = SubSeq(out, 1, start) \o Swept(search, SubSeq(out, start + 1, Len(out)))
      /\ capped' = IF hits >= PerFileCap THEN Append(capped, e) ELSE capped
      /\ UNCHANGED <<search, pass, e, timedOut, cut>>
  BY DEF Sweep
<1>2. /\ search \in Searches /\ e \in 1..Len(search.archive) /\ e \in Nat
      /\ out \in Seq(Result) /\ start \in Nat /\ hits \in Nat /\ capped \in Seq(Nat)
      /\ PerFileCap \in Nat
  <2>1. PerFileCap \in Nat
    BY SearchAssumption
  <2> QED BY <1>1, <2>1, AtEntry DEF TypeOK
<1>3. ~timedOut
  BY <1>1 DEF LossInv
<1> SUFFICES ASSUME ~cut, Faithful(search), capped' = <<>>, Len(out') < search.opts.max
             PROVE  Collected(out', Len(out')) = FoundUpto(search, pass, e)
  BY <1>1, <1>3 DEF LossInv
<1>4. capped = <<>> /\ hits < PerFileCap
  <2>1. Append(capped, e) # <<>>
    <3>1. Len(Append(capped, e)) = Len(capped) + 1 /\ Len(capped) \in Nat /\ Len(<<>>) = 0
      BY <1>2, LenProperties
    <3> DEFINE q == Append(capped, e)
    <3> HIDE DEF q
    <3>2. q # <<>>
      BY <3>1 DEF q
    <3> QED BY <3>2 DEF q
  <2> QED BY <1>1, <1>2, <2>1
<1>5. Collected(out, start) = FoundUpto(search, pass, e - 1) \cup NameOf(search, pass, e)
  BY <1>1, <1>4 DEF LossInv
<1>6. Selected(search, e) /\ Reads(search, pass, e) /\ start < search.opts.max
  BY <1>1 DEF FileInv
<1>7. PICK m \in 0..Readable(search.archive[e].lines) :
         Scanned(search, e, m, out, start, hits) /\ Complete(search, e, m, start, hits)
  BY <1>1 DEF FileInv
<1>8. Collected(out', Len(out')) = Collected(out, start) \cup ToSet(Matches(search, e))
  <2> DEFINE new == out'
  <2>1. SweptTo(search, start, out, new)
    BY <1>1 DEF SweptTo
  <2> HIDE DEF new
  <2>2. Whole(search, e, start, out, new)
    BY <1>2, <1>4, <1>6, <1>7, <2>1, FileComplete
  <2> QED BY <2>2 DEF new, Whole
<1>9. e - 1 \in Nat /\ (e - 1) + 1 = e
  BY <1>2
<1>10. FoundUpto(search, pass, e) =
          FoundUpto(search, pass, e - 1) \cup NameOf(search, pass, e) \cup TextOf(search, pass, e)
  <2> DEFINE i == e - 1
  <2>1. i \in Nat /\ i + 1 = e
    BY <1>9
  <2> HIDE DEF i
  <2>2. FoundUpto(search, pass, e) =
           FoundUpto(search, pass, i) \cup NameOf(search, pass, e) \cup TextOf(search, pass, e)
    BY <2>1, FoundNext
  <2> QED BY <2>2 DEF i
<1>11. TextOf(search, pass, e) = ToSet(Matches(search, e))
  BY <1>6 DEF TextOf
<1> QED BY <1>5, <1>8, <1>10, <1>11

LEMMA NextLoss ==
    ASSUME TypeOK, FileInv, LossInv, [Next]_vars
    PROVE  LossInv'
<1>1. CASE UNCHANGED vars
  BY <1>1 DEF vars, LossInv
<1> QED BY <1>1, StopEntriesLoss, NextEntryLoss, ScanLineLoss, EndOfFileLoss, SweepLoss,
           ExpireLoss DEF Next

\* A search that reports neither a limit nor a timeout has found everything
\* there is, unless a deadline cut the last file, a line was too long for the
\* scanner, or dropped anchors used up the limits.
THEOREM NothingElseIsLost == Spec => []NoOtherQuietLoss
<1>1. Init => TypeOK /\ FileInv /\ LossInv
  BY InitTypes, InitLoss
<1>2. (TypeOK /\ FileInv /\ LossInv) /\ [Next]_vars => (TypeOK /\ FileInv /\ LossInv)'
  BY NextTypes, NextLoss
<1>3. TypeOK /\ LossInv => NoOtherQuietLoss
  <2> SUFFICES ASSUME TypeOK, LossInv, ~MayLoseQuietly, phase = "done", ~Truncated, capped = <<>>, ~timedOut
               PROVE  ToSet(out) = Everything(search)
    BY DEF NoOtherQuietLoss, CompleteUnlessReported, Done
  <2>1. ~cut /\ Faithful(search)
    BY QuietIs
  <2>2. Len(out) < search.opts.max
    BY AtEntry DEF Truncated
  <2>3. ToSet(out) = Collected(out, Len(out))
    <3>1. DOMAIN out = 1..Len(out)
      BY LenProperties DEF TypeOK
    <3> QED BY <3>1 DEF ToSet, Collected
  <2> QED BY <2>1, <2>2, <2>3 DEF LossInv
<1> QED BY <1>1, <1>2, <1>3, PTL DEF Spec
=============================================================================
