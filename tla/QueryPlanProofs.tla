-------------------------- MODULE QueryPlanProofs --------------------------
(***************************************************************************)
(* Proofs about QueryPlan and Query.                                       *)
(*                                                                         *)
(* The planner: for any alphabet, texts, literals and bounds, a matching   *)
(* line satisfies the plan of its query and contains its gate.             *)
(*                                                                         *)
(* The language: whatever is typed, a query that is well formed matches    *)
(* what its grammar says, no word of it is lost, and a clause keeps what   *)
(* its parts keep.                                                         *)
(***************************************************************************)
EXTENDS QueryPlan, Query, SelectionProofs, SequenceTheorems, TLAPS

----------------------------------------------------------------------------
(* Texts within texts.                                                     *)

\* Every text holds the empty text and itself.
LEMMA HoldsNothing == ASSUME NEW t \in Seq(Chars) PROVE Holds(t, <<>>)
<1>1. 0 \in 0..Len(t)  OBVIOUS
<1>2. FoundAt(<<>>, t, 0)  BY DEF FoundAt
<1> QED  BY <1>1, <1>2 DEF Holds

LEMMA HoldsItself == ASSUME NEW t \in Seq(Chars) PROVE Holds(t, t)
<1>1. 0 \in 0..Len(t)  OBVIOUS
<1>2. FoundAt(t, t, 0)  BY DEF FoundAt
<1> QED  BY <1>1, <1>2 DEF Holds

\* A concatenation holds both its parts.
LEMMA HoldsParts ==
    ASSUME NEW u \in Seq(Chars), NEW v \in Seq(Chars)
    PROVE  Holds(u \o v, u) /\ Holds(u \o v, v)
<1>1. /\ u \o v \in Seq(Chars)
      /\ Len(u \o v) = Len(u) + Len(v)
      /\ DOMAIN (u \o v) = 1..(Len(u) + Len(v))
      /\ Len(u) \in Nat /\ Len(v) \in Nat
      /\ DOMAIN u = 1..Len(u) /\ DOMAIN v = 1..Len(v)
  OBVIOUS
<1>2. \A x \in 1..Len(u) : (u \o v)[x] = u[x]
  OBVIOUS
<1>3. \A x \in 1..Len(v) : (u \o v)[x + Len(u)] = v[x]
  OBVIOUS
<1>4. FoundAt(u, u \o v, 0)
  BY <1>1, <1>2 DEF FoundAt
<1>5. FoundAt(v, u \o v, Len(u))
  BY <1>1, <1>3 DEF FoundAt
<1> QED  BY <1>1, <1>4, <1>5 DEF Holds

LEMMA Joining ==
    ASSUME NEW u \in Seq(Chars), NEW v \in Seq(Chars), NEW w \in Seq(Chars)
    PROVE  (u \o v) \o w = u \o (v \o w)
BY ConcatAssociative

\* What is held by a part is held by the whole.
LEMMA HoldsInside ==
    ASSUME NEW t \in Seq(Chars), NEW u \in Seq(Chars), NEW s \in Seq(Chars),
           Holds(t, u), Holds(u, s)
    PROVE  Holds(t, s)
<1>1. PICK k \in 0..Len(t) : FoundAt(u, t, k)  BY DEF Holds
<1>2. PICK j \in 0..Len(u) : FoundAt(s, u, j)  BY DEF Holds
<1>3. Len(t) \in Nat /\ Len(u) \in Nat /\ Len(s) \in Nat
      /\ DOMAIN t = 1..Len(t) /\ DOMAIN s = 1..Len(s)
  OBVIOUS
<1>4. FoundAt(s, t, j + k)
  <2> SUFFICES ASSUME NEW x \in DOMAIN s PROVE x + (j + k) \in DOMAIN t /\ t[x + (j + k)] = s[x]
    BY DEF FoundAt
  <2>1. x + j \in DOMAIN u /\ u[x + j] = s[x]  BY <1>2 DEF FoundAt
  <2>2. (x + j) + k \in DOMAIN t /\ t[(x + j) + k] = u[x + j]  BY <1>1, <2>1 DEF FoundAt
  <2>3. (x + j) + k = x + (j + k)  BY <1>3
  <2> QED  BY <2>1, <2>2, <2>3
<1>5. CASE s = <<>>
  BY <1>5, HoldsNothing
<1>6. CASE s # <<>>
  <2>1. 1 \in DOMAIN s  BY <1>3, <1>6
  <2>2. 1 + (j + k) \in DOMAIN t  BY <1>4, <2>1 DEF FoundAt
  <2>3. j + k \in 0..Len(t)  BY <1>3, <2>2
  <2> QED  BY <1>4, <2>3 DEF Holds
<1> QED  BY <1>5, <1>6

\* The trigrams of a part are trigrams of the whole.
LEMMA TrisInside ==
    ASSUME NEW t \in Seq(Chars), NEW u \in Seq(Chars), Holds(t, u)
    PROVE  Tris(u) \subseteq Tris(t)
<1>1. PICK k \in 0..Len(t) : FoundAt(u, t, k)  BY DEF Holds
<1> SUFFICES ASSUME NEW x \in DOMAIN u, x + 2 \in DOMAIN u
             PROVE  <<u[x], u[x + 1], u[x + 2]>> \in Tris(t)
  BY DEF Tris
<1>2. x + 1 \in DOMAIN u /\ x \in Nat /\ k \in Nat  OBVIOUS
<1>3. /\ x + k \in DOMAIN t /\ t[x + k] = u[x]
      /\ (x + 1) + k \in DOMAIN t /\ t[(x + 1) + k] = u[x + 1]
      /\ (x + 2) + k \in DOMAIN t /\ t[(x + 2) + k] = u[x + 2]
  BY <1>1, <1>2 DEF FoundAt
<1>4. (x + 1) + k = (x + k) + 1 /\ (x + 2) + k = (x + k) + 2  BY <1>2
<1>5. /\ x + k \in DOMAIN t /\ (x + k) + 2 \in DOMAIN t
      /\ <<t[x + k], t[(x + k) + 1], t[(x + k) + 2]>> = <<u[x], u[x + 1], u[x + 2]>>
  BY <1>3, <1>4
<1> QED  BY <1>5 DEF Tris

----------------------------------------------------------------------------
(* Plans.                                                                  *)

LEMMA SatisfiesInside ==
    ASSUME NEW t \in Seq(Chars), NEW u \in Seq(Chars), NEW q, PlanTypeOK(q),
           Holds(t, u), Satisfies(u, q)
    PROVE  Satisfies(t, q)
<1>1. CASE q.any  BY <1>1 DEF Satisfies
<1>2. CASE ~q.any
  <2>1. PICK g \in q.ors : g.tris \subseteq Tris(u) /\ Holds(u, g.lit)
    BY <1>2 DEF Satisfies
  <2>2. g.lit \in Seq(Chars)
    <3>1. q.ors \subseteq Group  BY DEF PlanTypeOK, TriQuery
    <3> QED  BY <2>1, <3>1 DEF Group
  <2>3. Holds(t, g.lit)  BY <2>1, <2>2, HoldsInside
  <2>4. g.tris \subseteq Tris(t)  BY <2>1, TrisInside
  <2> QED  BY <2>1, <2>3, <2>4 DEF Satisfies
<1> QED  BY <1>1, <1>2

LEMMA AnyType == PlanTypeOK(TriAny)
BY DEF TriAny, PlanTypeOK, TriQuery

LEMMA AnySatisfied == ASSUME NEW t PROVE Satisfies(t, TriAny)
BY DEF TriAny, Satisfies

LEMMA TrisType == ASSUME NEW t \in Seq(Chars) PROVE Tris(t) \subseteq Chars \X Chars \X Chars
BY DEF Tris

LEMMA LiteralType == ASSUME NEW s \in Seq(Chars) PROVE PlanTypeOK(TriFromLiteral(s))
<1>1. CASE Len(s) < 3
  BY <1>1, AnyType DEF TriFromLiteral
<1>2. CASE ~(Len(s) < 3)
  <2> DEFINE g == [tris |-> Tris(s), lit |-> s]
  <2>1. g \in Group  BY TrisType DEF Group
  <2>2. TriFromLiteral(s) = [any |-> FALSE, ors |-> {g}, n |-> 1]
    BY <1>2 DEF TriFromLiteral
  <2>3. 1 \in 1..MaxTriGroups  BY QueryPlanAssumption
  <2> HIDE DEF g
  <2> QED  BY <2>1, <2>2, <2>3 DEF PlanTypeOK, TriQuery
<1> QED  BY <1>1, <1>2

\* A text that holds a literal satisfies its plan.
LEMMA LiteralSatisfied ==
    ASSUME NEW t \in Seq(Chars), NEW s \in Seq(Chars), Holds(t, s)
    PROVE  Satisfies(t, TriFromLiteral(s))
<1>1. CASE Len(s) < 3
  BY <1>1, AnySatisfied DEF TriFromLiteral
<1>2. CASE ~(Len(s) < 3)
  <2>1. Tris(s) \subseteq Tris(t)  BY TrisInside
  <2>2. TriFromLiteral(s) = [any |-> FALSE, ors |-> {[tris |-> Tris(s), lit |-> s]}, n |-> 1]
    BY <1>2 DEF TriFromLiteral
  <2> DEFINE g == [tris |-> Tris(s), lit |-> s]
  <2>3. g.tris \subseteq Tris(t) /\ Holds(t, g.lit)  BY <2>1
  <2>4. g \in TriFromLiteral(s).ors  BY <2>2
  <2> HIDE DEF g
  <2> QED  BY <2>3, <2>4 DEF Satisfies
<1> QED  BY <1>1, <1>2

LEMMA BothType ==
    ASSUME NEW g \in Group, NEW h \in Group PROVE Both(g, h) \in Group
<1>1. g.tris \cup h.tris \subseteq Chars \X Chars \X Chars  BY Zenon DEF Group
<1>2. (IF Len(h.lit) > Len(g.lit) THEN h.lit ELSE g.lit) \in Seq(Chars)  BY DEF Group
<1> QED  BY <1>1, <1>2 DEF Both, Group

\* A product of positive numbers is positive, and one only if both are.
LEMMA Products ==
    ASSUME NEW m \in Nat \ {0}, NEW n \in Nat \ {0}
    PROVE  /\ m * n \in Nat \ {0}
           /\ m * n = 1 => m = 1 /\ n = 1
<1>1. m * n \in Nat /\ m * n >= m /\ m * n >= n  BY SMT
<1> QED  BY <1>1

LEMMA AndType ==
    ASSUME NEW a, NEW b, PlanTypeOK(a), PlanTypeOK(b)
    PROVE  PlanTypeOK(TriAnd(a, b))
<1>1. CASE a.any \/ b.any \/ a.n * b.n > MaxTriGroups
  BY <1>1 DEF TriAnd
<1>2. CASE ~(a.any \/ b.any \/ a.n * b.n > MaxTriGroups)
  <2>1. TriAnd(a, b) = [any |-> FALSE, ors |-> Cross(a.ors, b.ors),
                        n |-> a.n * b.n]
    BY <1>2 DEF TriAnd
  <2>2. /\ a.ors \subseteq Group /\ b.ors \subseteq Group
        /\ a.ors # {} /\ b.ors # {}
        /\ a.n \in Nat \ {0} /\ b.n \in Nat \ {0}
        /\ a.n = 1 => \E g \in a.ors : a.ors = {g}
        /\ b.n = 1 => \E g \in b.ors : b.ors = {g}
    BY <1>2 DEF PlanTypeOK, TriQuery
  <2>3. Cross(a.ors, b.ors) \in SUBSET Group
    BY <2>2, BothType DEF Cross
  <2>4. Cross(a.ors, b.ors) # {}
    <3>1. PICK g \in a.ors, h \in b.ors : TRUE  BY <2>2
    <3>2. Both(g, h) \in Cross(a.ors, b.ors)  BY <3>1 DEF Cross
    <3> QED  BY <3>2
  <2>5. a.n * b.n \in 1..MaxTriGroups
    BY <1>2, <2>2, Products, QueryPlanAssumption
  <2>6. ASSUME a.n * b.n = 1
        PROVE  \E e \in Cross(a.ors, b.ors) :
                  Cross(a.ors, b.ors) = {e}
    <3>1. a.n = 1 /\ b.n = 1  BY <2>2, <2>6, Products
    <3>2. PICK g \in a.ors : a.ors = {g}  BY <2>2, <3>1
    <3>3. PICK h \in b.ors : b.ors = {h}  BY <2>2, <3>1
    <3> QED  BY <3>2, <3>3 DEF Cross
  <2> QED  BY <2>1, <2>3, <2>4, <2>5, <2>6, QueryPlanAssumption DEF PlanTypeOK, TriQuery
<1> QED  BY <1>1, <1>2

\* A text that satisfies both plans satisfies their conjunction.
LEMMA AndSatisfied ==
    ASSUME NEW t, NEW a, NEW b, Satisfies(t, a), Satisfies(t, b)
    PROVE  Satisfies(t, TriAnd(a, b))
<1>1. CASE a.any \/ b.any \/ a.n * b.n > MaxTriGroups
  BY <1>1 DEF TriAnd
<1>2. CASE ~(a.any \/ b.any \/ a.n * b.n > MaxTriGroups)
  <2>1. PICK g \in a.ors : g.tris \subseteq Tris(t) /\ Holds(t, g.lit)
    BY <1>2 DEF Satisfies
  <2>2. PICK h \in b.ors : h.tris \subseteq Tris(t) /\ Holds(t, h.lit)
    BY <1>2 DEF Satisfies
  <2>3. Both(g, h).tris \subseteq Tris(t) /\ Holds(t, Both(g, h).lit)
    BY <2>1, <2>2 DEF Both
  <2>4. TriAnd(a, b).ors = Cross(a.ors, b.ors)
    BY <1>2 DEF TriAnd
  <2> QED  BY <2>1, <2>2, <2>3, <2>4 DEF Satisfies, Cross
<1> QED  BY <1>1, <1>2

LEMMA OrType ==
    ASSUME NEW a, NEW b, PlanTypeOK(a), PlanTypeOK(b)
    PROVE  PlanTypeOK(TriOr(a, b))
<1>1. CASE a.any \/ b.any \/ a.n + b.n > MaxTriGroups
  BY <1>1, AnyType DEF TriOr
<1>2. CASE ~(a.any \/ b.any \/ a.n + b.n > MaxTriGroups)
  <2>1. TriOr(a, b) = [any |-> FALSE, ors |-> a.ors \cup b.ors, n |-> a.n + b.n]
    BY <1>2 DEF TriOr
  <2>2. /\ a.ors \cup b.ors \in SUBSET Group /\ a.ors \cup b.ors # {}
        /\ a.n \in Nat \ {0} /\ b.n \in Nat \ {0}
    BY <1>2 DEF PlanTypeOK, TriQuery
  <2>3. a.n + b.n \in 1..MaxTriGroups /\ a.n + b.n # 1
    BY <1>2, <2>2, QueryPlanAssumption
  <2> QED  BY <2>1, <2>2, <2>3, QueryPlanAssumption DEF PlanTypeOK, TriQuery
<1> QED  BY <1>1, <1>2

\* A text that satisfies either plan satisfies their disjunction.
LEMMA OrSatisfied ==
    ASSUME NEW t, NEW a, NEW b, Satisfies(t, a) \/ Satisfies(t, b)
    PROVE  Satisfies(t, TriOr(a, b))
BY DEF TriOr, TriAny, Satisfies

----------------------------------------------------------------------------
(* The invariant: what a node matches satisfies its plan, and what a       *)
(* concatenation matches so far is a text that satisfies the plan of the   *)
(* flushed parts, followed by the run.                                     *)

Planned(plan, matches) ==
    /\ matches \subseteq Seq(Chars)
    /\ PlanTypeOK(plan)
    /\ \A t \in matches : Satisfies(t, plan)

NodesPlanned ==
    \A node \in nodes : node.kind \in {"regexp", "query"} /\ Planned(node.plan, node.matches)

RunPlanned(q, run, matched) ==
    /\ PlanTypeOK(q) /\ run \in Seq(Chars) /\ matched \subseteq Seq(Chars)
    /\ \A u \in matched : \E v \in Seq(Chars) : u = v \o run /\ Satisfies(v, q)

ConcatPlanned == concat # NoConcat => RunPlanned(concat.q, concat.run, concat.matched)

PlanInv == NodesPlanned /\ ConcatPlanned

\* What matches nothing in particular.
LEMMA UnconstrainedPlanned ==
    ASSUME NEW S, S \subseteq Seq(Chars) PROVE Planned(TriAny, S)
BY AnyType, AnySatisfied DEF Planned

LEMMA ShortTexts ==
    /\ {<<c>> : c \in Chars} \subseteq Seq(Chars)
    /\ {<<>>} \subseteq Seq(Chars)
<1>1. \A c \in Chars : <<c>> \in Seq(Chars)  OBVIOUS
<1>2. <<>> \in Seq(Chars)  OBVIOUS
<1> QED  BY <1>1, <1>2

\* A text that holds something planned satisfies that plan.
LEMMA HoldingPlanned ==
    ASSUME NEW q, NEW S, Planned(q, S), NEW T, T \subseteq Seq(Chars),
           \A t \in T : \E u \in S : Holds(t, u)
    PROVE  Planned(q, T)
<1> SUFFICES ASSUME NEW t \in T PROVE Satisfies(t, q)  BY DEF Planned
<1>1. PICK u \in S : Holds(t, u)  OBVIOUS
<1>2. Satisfies(u, q) /\ PlanTypeOK(q) /\ u \in Seq(Chars) /\ t \in Seq(Chars)  BY DEF Planned
<1> QED  BY <1>1, <1>2, SatisfiesInside

LEMMA LiteralPlanned ==
    ASSUME NEW s \in Seq(Chars), NEW T, T \subseteq Seq(Chars), \A t \in T : Holds(t, s)
    PROVE  Planned(TriFromLiteral(s), T)
BY LiteralType, LiteralSatisfied DEF Planned

LEMMA AndPlanned ==
    ASSUME NEW q, NEW r, NEW S, NEW T, Planned(q, S), Planned(r, T)
    PROVE  Planned(TriAnd(q, r), S \cap T)
BY AndType, AndSatisfied DEF Planned

LEMMA OrPlanned ==
    ASSUME NEW q, NEW r, NEW S, NEW T, Planned(q, S), Planned(r, T)
    PROVE  Planned(TriOr(q, r), S \cup T)
<1>1. \A t \in S \cup T : Satisfies(t, TriOr(q, r))
  BY OrSatisfied DEF Planned
<1> QED  BY <1>1, OrType DEF Planned

LEMMA BuildPreserves ==
    ASSUME NodesPlanned, NEW kind \in {"regexp", "query"}, NEW plan, NEW matches,
           Planned(plan, matches), Build(Node(kind, plan, matches))
    PROVE  NodesPlanned'
<1>1. nodes' = nodes \cup {Node(kind, plan, matches)}  BY DEF Build
<1>2. /\ Node(kind, plan, matches).kind = kind
      /\ Node(kind, plan, matches).plan = plan
      /\ Node(kind, plan, matches).matches = matches
  BY DEF Node
<1> QED  BY <1>1, <1>2 DEF NodesPlanned

LEMMA JoinedIn == ASSUME NEW A, NEW B PROVE Joined(A, B) \subseteq Seq(Chars)
BY QueryPlanAssumption DEF Joined

\* flush keeps what was promised, and promises it of the whole text.
LEMMA FlushPlanned ==
    ASSUME concat # NoConcat, ConcatPlanned PROVE Planned(Flushed, concat.matched)
<1>1. RunPlanned(concat.q, concat.run, concat.matched)  BY DEF ConcatPlanned
<1>2. PlanTypeOK(Flushed)
  BY <1>1, LiteralType, AndType DEF RunPlanned, Flushed
<1>3. ASSUME NEW u \in concat.matched PROVE Satisfies(u, Flushed)
  <2>1. PICK v \in Seq(Chars) : u = v \o concat.run /\ Satisfies(v, concat.q)
    BY <1>1 DEF RunPlanned
  <2>2. concat.run \in Seq(Chars) /\ u \in Seq(Chars) /\ PlanTypeOK(concat.q)
    BY <1>1 DEF RunPlanned
  <2>3. Holds(u, v) /\ Holds(u, concat.run)  BY <2>1, <2>2, HoldsParts
  <2>4. Satisfies(u, concat.q)  BY <2>1, <2>2, <2>3, SatisfiesInside
  <2>5. Satisfies(u, TriFromLiteral(concat.run))  BY <2>2, <2>3, LiteralSatisfied
  <2> QED  BY <2>4, <2>5, AndSatisfied DEF Flushed
<1> QED  BY <1>1, <1>2, <1>3 DEF Planned, RunPlanned

\* After a flush the run is empty.
LEMMA FlushedRun ==
    ASSUME NEW q, NEW S, Planned(q, S) PROVE RunPlanned(q, <<>>, S)
<1>1. \A u \in S : u \in Seq(Chars) /\ u = u \o <<>> /\ Satisfies(u, q)
  BY DEF Planned
<1> QED  BY <1>1 DEF Planned, RunPlanned

----------------------------------------------------------------------------
(* The invariant holds.                                                    *)

LEMMA LeavesPlanned == Init => PlanInv
<1> SUFFICES ASSUME Init PROVE PlanInv  OBVIOUS
<1>1. Planned(TriAny, {<<c>> : c \in Chars})  BY ShortTexts, UnconstrainedPlanned
<1>2. Planned(TriAny, {<<>>})  BY ShortTexts, UnconstrainedPlanned
<1>3. ASSUME NEW s \in Literals
      PROVE  /\ Planned(TriFromLiteral(s), {s})
             /\ Planned(TriFromLiteral(s), {t \in Texts : Holds(t, s)})
  <2>1. s \in Seq(Chars) /\ Texts \subseteq Seq(Chars)  BY QueryPlanAssumption
  <2>2. Planned(TriFromLiteral(s), {s})
    <3>1. {s} \subseteq Seq(Chars) /\ \A t \in {s} : Holds(t, s)  BY <2>1, HoldsItself
    <3> QED  BY <2>1, <3>1, LiteralPlanned
  <2>3. Planned(TriFromLiteral(s), {t \in Texts : Holds(t, s)})
    <3> DEFINE T == {t \in Texts : Holds(t, s)}
    <3>1. T \subseteq Seq(Chars) /\ \A t \in T : Holds(t, s)  BY <2>1
    <3> HIDE DEF T
    <3>2. Planned(TriFromLiteral(s), T)  BY <2>1, <3>1, LiteralPlanned
    <3> QED  BY <3>2 DEF T
  <2> QED  BY <2>2, <2>3
<1>4. ASSUME NEW node \in Leaves
      PROVE  node.kind \in {"regexp", "query"} /\ Planned(node.plan, node.matches)
  <2>1. CASE node = AnyChar  BY <1>1, <2>1 DEF AnyChar, Node
  <2>2. CASE node = Empty  BY <1>2, <2>2 DEF Empty, Node
  <2>3. ASSUME NEW s \in Literals, node = Literal(s)
        PROVE  node.kind \in {"regexp", "query"} /\ Planned(node.plan, node.matches)
    BY <1>3, <2>3 DEF Literal, Node
  <2>4. ASSUME NEW s \in Literals, node = QuotedTerm(s)
        PROVE  node.kind \in {"regexp", "query"} /\ Planned(node.plan, node.matches)
    BY <1>3, <2>4 DEF QuotedTerm, Node
  <2> QED  BY <2>1, <2>2, <2>3, <2>4 DEF Leaves
<1> QED  BY <1>4 DEF Init, PlanInv, NodesPlanned, ConcatPlanned

LEMMA StepPlanned == PlanInv /\ [Next]_vars => PlanInv'
<1> SUFFICES ASSUME PlanInv, [Next]_vars PROVE PlanInv'  OBVIOUS
<1> USE DEF PlanInv
<1>0. /\ \A r \in Regexps \cup Queries : Planned(r.plan, r.matches)
      /\ Texts \subseteq Seq(Chars) /\ Literals \subseteq Seq(Chars)
  BY QueryPlanAssumption DEF Regexps, Queries, NodesPlanned
<1>1. CASE StartConcat
  <2>1. Planned(TriAny, {<<>>})  BY ShortTexts, UnconstrainedPlanned
  <2>2. RunPlanned(TriAny, <<>>, {<<>>})  BY <2>1, FlushedRun
  <2> QED  BY <1>1, <2>2 DEF StartConcat, NodesPlanned, ConcatPlanned
<1>2. CASE EndConcat
  <2>1. Planned(Flushed, concat.matched)  BY <1>2, FlushPlanned DEF EndConcat
  <2>2. NodesPlanned'  BY <1>2, <2>1, BuildPreserves DEF EndConcat
  <2> QED  BY <1>2, <2>2 DEF EndConcat, ConcatPlanned
<1>3. ASSUME NEW s \in Literals, ConcatLiteral(s) PROVE PlanInv'
  <2>1. RunPlanned(concat.q, concat.run, concat.matched)
    BY <1>3 DEF ConcatLiteral, InConcat, ConcatPlanned
  <2>2. s \in Seq(Chars) /\ concat.run \in Seq(Chars) /\ PlanTypeOK(concat.q)
        /\ concat.run \o s \in Seq(Chars)
    BY <1>0, <2>1 DEF RunPlanned
  <2>3. ASSUME NEW w \in Joined(concat.matched, {s})
        PROVE  \E v \in Seq(Chars) : w = v \o (concat.run \o s) /\ Satisfies(v, concat.q)
    <3>1. PICK u \in concat.matched : w = u \o s  BY DEF Joined
    <3>2. PICK v \in Seq(Chars) : u = v \o concat.run /\ Satisfies(v, concat.q)
      BY <2>1 DEF RunPlanned
    <3>3. (v \o concat.run) \o s = v \o (concat.run \o s)  BY <2>2, Joining
    <3> QED  BY <3>1, <3>2, <3>3
  <2>4. RunPlanned(concat.q, concat.run \o s, Joined(concat.matched, {s}))
    BY <2>2, <2>3, JoinedIn DEF RunPlanned
  <2> QED  BY <1>3, <2>4 DEF ConcatLiteral, NodesPlanned, ConcatPlanned
<1>4. ASSUME NEW r \in Regexps, ConcatPart(r) PROVE PlanInv'
  <2>1. Planned(Flushed, concat.matched) /\ Planned(r.plan, r.matches)
    BY <1>0, <1>4, FlushPlanned DEF ConcatPart, InConcat
  <2>2. ASSUME NEW w \in Joined(concat.matched, r.matches)
        PROVE  w \in Seq(Chars) /\ Satisfies(w, Flushed) /\ Satisfies(w, r.plan)
    <3>1. PICK u \in concat.matched, v \in r.matches : w = u \o v  BY DEF Joined
    <3>2. u \in Seq(Chars) /\ v \in Seq(Chars) /\ w \in Seq(Chars)
      BY <2>1, JoinedIn DEF Planned
    <3>3. Holds(w, u) /\ Holds(w, v)  BY <3>1, <3>2, HoldsParts
    <3>4. Satisfies(u, Flushed) /\ Satisfies(v, r.plan)
          /\ PlanTypeOK(Flushed) /\ PlanTypeOK(r.plan)
      BY <2>1 DEF Planned
    <3>5. Satisfies(w, Flushed)  BY <3>2, <3>3, <3>4, SatisfiesInside
    <3>6. Satisfies(w, r.plan)  BY <3>2, <3>3, <3>4, SatisfiesInside
    <3> QED  BY <3>2, <3>5, <3>6
  <2>3. PlanTypeOK(TriAnd(Flushed, r.plan))  BY <2>1, AndType DEF Planned
  <2>4. \A w \in Joined(concat.matched, r.matches) : Satisfies(w, TriAnd(Flushed, r.plan))
    BY <2>2, AndSatisfied
  <2>5. Planned(TriAnd(Flushed, r.plan), Joined(concat.matched, r.matches))
    BY <2>2, <2>3, <2>4 DEF Planned
  <2>6. RunPlanned(TriAnd(Flushed, r.plan), <<>>, Joined(concat.matched, r.matches))
    BY <2>5, FlushedRun
  <2> QED  BY <1>4, <2>6 DEF ConcatPart, NodesPlanned, ConcatPlanned
<1>5. ASSUME NEW r \in Regexps, Plus(r) PROVE PlanInv'
  <2>1. Planned(r.plan, r.matches)  BY <1>0
  <2>2. ASSUME NEW w \in Joined(r.matches, Star(r.matches))
        PROVE  \E u \in r.matches : Holds(w, u)
    <3>1. PICK u \in r.matches, v \in Star(r.matches) : w = u \o v  BY DEF Joined
    <3>2. u \in Seq(Chars) /\ v \in Seq(Chars)  BY <1>0, <2>1 DEF Planned, Star
    <3> QED  BY <3>1, <3>2, HoldsParts
  <2>3. Planned(r.plan, Joined(r.matches, Star(r.matches)))
    BY <2>1, <2>2, JoinedIn, HoldingPlanned
  <2> QED  BY <1>5, <2>3, BuildPreserves DEF Plus, ConcatPlanned
<1>6. ASSUME NEW r \in Regexps, Repeat(r) PROVE PlanInv'
  <2>1. Star(r.matches) \subseteq Seq(Chars)  BY <1>0 DEF Star
  <2>2. r.matches \cup {<<>>} \subseteq Seq(Chars)  BY <1>0, ShortTexts DEF Planned
  <2>3. Planned(TriAny, Star(r.matches))  BY <2>1, UnconstrainedPlanned
  <2>4. Planned(TriAny, r.matches \cup {<<>>})  BY <2>2, UnconstrainedPlanned
  <2> QED  BY <1>6, <2>3, <2>4, BuildPreserves DEF Repeat, ConcatPlanned
<1>7. ASSUME NEW r \in Regexps, TooDeep(r) PROVE PlanInv'
  <2>1. Planned(TriAny, r.matches)  BY <1>0, UnconstrainedPlanned DEF Planned
  <2> QED  BY <1>7, <2>1, BuildPreserves DEF TooDeep, ConcatPlanned
<1>8. ASSUME NEW r \in Regexps, Term(r) PROVE PlanInv'
  <2> DEFINE T == {t \in Texts : \E u \in r.matches : Holds(t, u)}
  <2>1. T \subseteq Seq(Chars) /\ \A t \in T : \E u \in r.matches : Holds(t, u)  BY <1>0
  <2>2. Build(Node("query", r.plan, T)) /\ UNCHANGED concat  BY <1>8 DEF Term
  <2> HIDE DEF T
  <2>3. Planned(r.plan, T)  BY <1>0, <2>1, HoldingPlanned
  <2> QED  BY <2>2, <2>3, BuildPreserves DEF ConcatPlanned
<1>9. ASSUME NEW r \in Regexps, NEW s \in Regexps, Alternate(r, s) PROVE PlanInv'
  <2>1. Planned(TriOr(r.plan, s.plan), r.matches \cup s.matches)  BY <1>0, OrPlanned
  <2> QED  BY <1>9, <2>1, BuildPreserves DEF Alternate, ConcatPlanned
<1>10. ASSUME NEW q \in Queries, Not(q) PROVE PlanInv'
  <2>1. Planned(TriAny, Texts \ q.matches)  BY <1>0, UnconstrainedPlanned
  <2> QED  BY <1>10, <2>1, BuildPreserves DEF Not, ConcatPlanned
<1>11. ASSUME NEW q \in Queries, NEW r \in Queries, And(q, r) PROVE PlanInv'
  <2>1. Planned(TriAnd(q.plan, r.plan), q.matches \cap r.matches)  BY <1>0, AndPlanned
  <2> QED  BY <1>11, <2>1, BuildPreserves DEF And, ConcatPlanned
<1>12. ASSUME NEW q \in Queries, NEW r \in Queries, Or(q, r) PROVE PlanInv'
  <2>1. Planned(TriOr(q.plan, r.plan), q.matches \cup r.matches)  BY <1>0, OrPlanned
  <2> QED  BY <1>12, <2>1, BuildPreserves DEF Or, ConcatPlanned
<1>13. CASE UNCHANGED vars
  BY <1>13 DEF vars, NodesPlanned, ConcatPlanned
<1> QED
  BY <1>1, <1>2, <1>3, <1>4, <1>5, <1>6, <1>7, <1>8, <1>9, <1>10, <1>11, <1>12, <1>13 DEF Next

LEMMA PlanInvariant == Spec => []PlanInv
BY LeavesPlanned, StepPlanned, PTL DEF Spec

----------------------------------------------------------------------------

\* The planner keeps its types: in particular a plan that constrains always
\* has an alternative, and a plan with one alternative names it.
THEOREM PlanTypes == Spec => []TypeOK
<1>1. PlanInv => TypeOK
  BY DEF PlanInv, NodesPlanned, ConcatPlanned, Planned, RunPlanned, TypeOK
<1> QED  BY <1>1, PlanInvariant, PTL

\* The file filter never drops a file with a matching line, whatever the query.
THEOREM PlansOnlyNarrow == Spec => []PlanSound
<1>1. PlanInv => PlanSound
  BY DEF PlanInv, NodesPlanned, Planned, PlanSound, Satisfies
<1> QED  BY <1>1, PlanInvariant, PTL

\* The line gate never drops a matching line, whatever the query.
THEOREM GatesOnlyNarrow == Spec => []GateSound
<1>1. PlanInv => GateSound
  <2> SUFFICES ASSUME PlanInv, NEW q \in Queries, NEW t \in q.matches
               PROVE  Holds(t, Gate(q.plan))
    BY DEF GateSound
  <2>1. Planned(q.plan, q.matches)  BY DEF PlanInv, NodesPlanned, Queries
  <2>2. t \in Seq(Chars) /\ Satisfies(t, q.plan) /\ PlanTypeOK(q.plan)  BY <2>1 DEF Planned
  <2>3. CASE Gate(q.plan) = <<>>  BY <2>2, <2>3, HoldsNothing
  <2>4. CASE Gate(q.plan) # <<>>
    <3>1. ~q.plan.any /\ q.plan.n = 1  BY <2>4 DEF Gate
    <3>2. PICK g \in q.plan.ors : q.plan.ors = {g}  BY <2>2, <3>1 DEF PlanTypeOK
    <3>3. (CHOOSE e \in q.plan.ors : TRUE) = g  BY <3>2
    <3>4. Gate(q.plan) = g.lit  BY <2>4, <3>1, <3>3 DEF Gate
    <3>5. Holds(t, g.lit)  BY <2>2, <3>1, <3>2 DEF Satisfies
    <3> QED  BY <3>4, <3>5
  <2> QED  BY <2>3, <2>4
<1> QED  BY <1>1, PlanInvariant, PTL

----------------------------------------------------------------------------
(* Recursion over a finite table: a rank that falls decides every entry.   *)

\* Functions that agree on what is of a lower rank than d, on all, and which agree
\* when they do so at every step; and a recursion that asks only for what is lower.
AgreeBelow(D, rk, d, g, h) == \A e \in D : rk[e] < rk[d] => g[e] = h[e]
AgreeOn(D, g, h) == \A d \in D : g[d] = h[d]
AgreeStepwise(D, rk, g, h) == \A d \in D : AgreeBelow(D, rk, d, g, h) => g[d] = h[d]
AsksBelow(D, rk, A, F) ==
    \A g \in A : \A h \in A : \A d \in D : AgreeBelow(D, rk, d, g, h) => F[g][d] = F[h][d]
FunctionsOn(D, A) == \A g \in A : g = [d \in D |-> g[d]]

\* Two functions are the same when they agree wherever they agree before.
LEMMA SameByRank ==
    ASSUME NEW D, NEW n \in Nat, NEW rk \in [D -> 0..n], NEW g, NEW h,
           AgreeStepwise(D, rk, g, h)
    PROVE  AgreeOn(D, g, h)
<1> USE DEF AgreeStepwise, AgreeBelow, AgreeOn
<1> DEFINE S == {k \in 0..n+1 : \A d \in D : rk[d] < k => g[d] = h[d]}
<1>1. 0 \in S
  OBVIOUS
<1>2. ASSUME NEW k \in 1..n+1, k - 1 \in S
      PROVE  k \in S
  <2>1. ASSUME NEW d \in D, rk[d] < k
        PROVE  g[d] = h[d]
    <3>1. \A e \in D : rk[e] < rk[d] => rk[e] < k - 1
      BY <2>1
    <3> QED BY <1>2, <3>1
  <2> QED BY <2>1
<1> HIDE DEF S
<1>3. \A k \in 1..n+1 : k - 1 \in S => k \in S
  BY <1>2
<1>4. \A k \in 0..n+1 : k \in S
  <2>1. n+1 \in Nat
    OBVIOUS
  <2> QED BY <1>1, <1>3, <2>1, AllUpto
<1>5. n+1 \in S
  BY <1>4
<1> QED BY <1>5 DEF S

\* A recursion that asks only for values of a lower rank is solved by a function.
LEMMA RecursionExists ==
    ASSUME NEW D, NEW n \in Nat, NEW rk \in [D -> 0..n],
           NEW A, A # {}, FunctionsOn(D, A), NEW F \in [A -> A], AsksBelow(D, rk, A, F)
    PROVE  \E g \in A : F[g] = g
<1> USE DEF AsksBelow, AgreeBelow, FunctionsOn
<1> DEFINE m == n + 2
           step == [k \in 1..m |-> F]
<1>1. PICK a : a \in A
  OBVIOUS
<1>2. step \in [1..m -> [A -> A]] /\ m \in Nat
  OBVIOUS
<1>3. \A k \in 1..m : step[k] = F
  OBVIOUS
<1>4. \E g : Iterates(A, a, m, step, g)
  <2> HIDE DEF step, m
  <2> QED BY <1>1, <1>2, IterationExists
<1>5. PICK g : Iterates(A, a, m, step, g)
  BY <1>4
<1> HIDE DEF step
<1>6. /\ g \in [0..n+2 -> A]
      /\ \A k \in 1..n+2 : g[k] = F[g[k-1]]
  BY <1>3, <1>5 DEF Iterates
<1> DEFINE S == {k \in 0..n+1 : \A d \in D : rk[d] < k => g[k+1][d] = g[k][d]}
<1>7. 0 \in S
  OBVIOUS
<1>8. ASSUME NEW k \in 1..n+1, k - 1 \in S
      PROVE  k \in S
  <2>1. /\ g[k+1] = F[g[k]] /\ g[k] = F[g[k-1]]
        /\ g[k] \in A /\ g[k-1] \in A
    <3>1. /\ k+1 \in 1..n+2 /\ k \in 1..n+2 /\ (k+1)-1 = k
          /\ k \in 0..n+2 /\ k-1 \in 0..n+2
      OBVIOUS
    <3>2. g[k+1] = F[g[(k+1)-1]] /\ g[k] = F[g[k-1]]
      BY <1>6, <3>1
    <3>3. g[k] \in A /\ g[k-1] \in A
      BY <1>6, <3>1
    <3> QED BY <3>1, <3>2, <3>3
  <2>2. \A d \in D : rk[d] < k - 1 => g[k][d] = g[k-1][d]
    BY <1>8
  <2>3. ASSUME NEW d \in D, rk[d] < k
        PROVE  g[k+1][d] = g[k][d]
    <3>1. \A e \in D : rk[e] < rk[d] => rk[e] < k - 1
      BY <2>3
    <3> QED BY <2>1, <2>2, <3>1
  <2> QED BY <2>3
<1> HIDE DEF S
<1>9. \A k \in 0..n+1 : k \in S
  <2>1. \A k \in 1..n+1 : k - 1 \in S => k \in S
    BY <1>8
  <2>2. n+1 \in Nat
    OBVIOUS
  <2> QED BY <1>7, <2>1, <2>2, AllUpto
<1>10. n+1 \in S
  BY <1>9
<1>11. \A d \in D : g[n+2][d] = g[n+1][d]
  <2>1. \A d \in D : rk[d] < n+1 => g[(n+1)+1][d] = g[n+1][d]
    BY <1>10 DEF S
  <2>2. (n+1)+1 = n+2
    OBVIOUS
  <2> QED BY <2>1, <2>2
<1>12. g[n+2] = F[g[n+1]] /\ g[n+1] \in A /\ g[n+2] \in A
  <2>1. n+2 \in 1..n+2 /\ (n+2)-1 = n+1 /\ n+1 \in 0..n+2 /\ n+2 \in 0..n+2
    OBVIOUS
  <2> QED BY <1>6, <2>1
<1>13. g[n+2] = g[n+1]
  BY <1>11, <1>12
<1> QED BY <1>12, <1>13

----------------------------------------------------------------------------
(* Sequences by their last element, and the elements that are in a set.    *)

\* What holds of the empty sequence and of one more element holds of every one.
LEMMA SeqsByAppend ==
    ASSUME NEW A, NEW S, <<>> \in S, \A s \in Seq(A) : s \in S => \A x \in A : Append(s, x) \in S
    PROVE  \A s \in Seq(A) : s \in S
<1> SUFFICES ASSUME NEW s \in Seq(A) PROVE s \in S
  OBVIOUS
<1> DEFINE n == Len(s)
           K == {k \in 0..n : SubSeq(s, 1, k) \in S}
<1>1. n \in Nat
  OBVIOUS
<1>2. 0 \in K
  <2>1. SubSeq(s, 1, 0) = <<>>
    OBVIOUS
  <2>2. 0 \in 0..n
    BY <1>1
  <2> HIDE DEF n
  <2> QED BY <2>1, <2>2
<1>3. ASSUME NEW k \in 1..n, k - 1 \in K PROVE k \in K
  <2> DEFINE u == SubSeq(s, 1, k-1)
  <2>1. u \in Seq(A) /\ s[k] \in A /\ u \in S
    BY <1>3
  <2>2. SubSeq(s, 1, k) = Append(u, s[k])
    BY <1>1
  <2> HIDE DEF u
  <2>3. Append(u, s[k]) \in S
    BY <2>1
  <2>4. k \in 0..n
    BY <1>1
  <2> HIDE DEF n
  <2> QED BY <2>2, <2>3, <2>4
<1> HIDE DEF K
<1>4. \A k \in 1..n : k - 1 \in K => k \in K
  BY <1>3
<1> HIDE DEF n
<1>5. n \in K
  BY <1>1, <1>2, <1>4, AllUpto
<1>6. SubSeq(s, 1, n) \in S
  BY <1>5 DEF K
<1>7. SubSeq(s, 1, n) = s
  BY DEF n
<1> QED BY <1>6, <1>7

\* The elements of s that are in T.
Of(s, T) == Pick(s, {k \in 1..Len(s) : s[k] \in T})

\* Picking from a sequence with one more element, which is picked or not.
LEMMA PickAppend ==
    ASSUME NEW A, NEW s \in Seq(A), NEW x \in A, NEW S \in SUBSET (1..Len(s))
    PROVE  /\ Pick(Append(s, x), S) = Pick(s, S)
           /\ Pick(Append(s, x), S \cup {Len(s) + 1}) = Append(Pick(s, S), x)
<1> DEFINE n == Len(s)
           t == Append(s, x)
           T == S \cup {n + 1}
           c == Cardinality(S)
<1>1. /\ n \in Nat /\ t \in Seq(A) /\ Len(t) = n + 1
      /\ \A k \in 1..n : t[k] = s[k]
      /\ t[n+1] = x
  OBVIOUS
<1>0. S \in SUBSET (1..n)
  OBVIOUS
<1> HIDE DEF n
<1>2. S \in SUBSET (1..Len(t)) /\ T \in SUBSET (1..Len(t))
  <2>1. Len(t) = n + 1 /\ n \in Nat
    BY <1>1
  <2> HIDE DEF t
  <2>2. \A k \in S : k \in 1..n+1
    BY <1>0, <2>1
  <2>3. n+1 \in 1..n+1
    BY <2>1
  <2> QED BY <2>1, <2>2, <2>3
<1> HIDE DEF t, n
<1>3. /\ IsFiniteSet(S) /\ c \in Nat /\ S \in SUBSET Nat /\ S \in SUBSET (1..n)
  BY <1>1, Bounded DEF n
<1>4. /\ Pick(s, S) \in Seq(A) /\ Len(Pick(s, S)) = c
      /\ \A k \in 1..c : Ascending(S)[k] \in S /\ Pick(s, S)[k] = s[Ascending(S)[k]]
  BY <1>3, PickIs DEF n
<1>5. /\ Pick(t, S) \in Seq(A) /\ Len(Pick(t, S)) = c
      /\ \A k \in 1..c : Ascending(S)[k] \in S /\ Pick(t, S)[k] = t[Ascending(S)[k]]
  BY <1>1, <1>2, PickIs
<1>6. /\ IsFiniteSet(T) /\ Cardinality(T) = c + 1 /\ Ascending(T) = Append(Ascending(S), n + 1)
  <2>1. n + 1 \in Nat /\ \A y \in S : y < n + 1
    BY <1>1, <1>3
  <2> QED BY <1>3, <2>1, AscendingAppend
<1>7. /\ Pick(t, T) \in Seq(A) /\ Len(Pick(t, T)) = c + 1
      /\ \A k \in 1..c+1 : Pick(t, T)[k] = t[Ascending(T)[k]]
  <2> HIDE DEF T, c
  <2>1. /\ Pick(t, T) \in Seq(A) /\ Len(Pick(t, T)) = Cardinality(T)
        /\ \A k \in 1..Cardinality(T) : Pick(t, T)[k] = t[Ascending(T)[k]]
    BY <1>1, <1>2, PickIs
  <2> QED BY <1>6, <2>1
<1>8. /\ Ascending(S) \in Seq(S) /\ Len(Ascending(S)) = c
  BY <1>3, AscendingIs
<1>9. /\ \A k \in 1..c : Ascending(T)[k] = Ascending(S)[k]
      /\ Ascending(T)[c+1] = n + 1
  <2> DEFINE a == Ascending(S)
  <2>1. a \in Seq(S) /\ Len(a) = c /\ S \in SUBSET Nat /\ n + 1 \in Nat
    BY <1>1, <1>3, <1>8
  <2>2. Ascending(T) = Append(a, n+1)
    BY <1>6
  <2>5. c \in Nat
    BY <1>3
  <2> HIDE DEF a, T, c
  <2>4. \A k \in 1..c : a[k] \in Nat
    <3>1. \A b \in Seq(S) : \A k \in 1..Len(b) : b[k] \in S
      OBVIOUS
    <3>2. \A k \in 1..c : a[k] \in S
      BY <2>1, <3>1
    <3>3. \A y \in S : y \in Nat
      OBVIOUS
    <3> QED BY <3>2, <3>3
  <2>3. a = [k \in 1..c |-> a[k]]
    <3>1. \A b \in Seq(S) : b = [k \in 1..Len(b) |-> b[k]]
      OBVIOUS
    <3> QED BY <2>1, <3>1
  <2>6. a \in Seq(Nat)
    BY <2>3, <2>4, <2>5, SeqIs
  <2>7. \A k \in 1..c : Append(a, n+1)[k] = a[k]
    BY <2>1, <2>6
  <2>8. Append(a, n+1)[c+1] = n+1
    BY <2>1, <2>6
  <2> QED BY <2>2, <2>7, <2>8 DEF a
<1> DEFINE u == Pick(s, S)  v == Pick(t, S)  w == Pick(t, T)
<1>10. \A k \in 1..c : v[k] = u[k] /\ w[k] = u[k]
  <2> SUFFICES ASSUME NEW k \in 1..c PROVE v[k] = u[k] /\ w[k] = u[k]
    OBVIOUS
  <2>1. Ascending(S)[k] \in 1..n
    BY <1>3, <1>5
  <2>2. k \in 1..c+1
    BY <1>3
  <2> QED BY <1>1, <1>4, <1>5, <1>7, <1>9, <2>1, <2>2
<1>11. w[c+1] = x
  <2>1. c+1 \in 1..c+1
    BY <1>3
  <2>2. Pick(t, T)[c+1] = t[n+1]
    <3>1. Pick(t, T)[c+1] = t[Ascending(T)[c+1]]
      BY <1>7, <2>1
    <3> QED BY <1>9, <3>1
  <2> HIDE DEF T, c
  <2> QED BY <1>1, <2>2 DEF w
<1> HIDE DEF u, v, w, T, c
<1>12. u \in Seq(A) /\ Len(u) = c /\ v \in Seq(A) /\ Len(v) = c /\ w \in Seq(A) /\ Len(w) = c+1 /\ c \in Nat
  BY <1>3, <1>4, <1>5, <1>7 DEF u, v, w
<1>13. v = u
  BY <1>10, <1>12
<1>14. w = Append(u, x)
  BY <1>10, <1>11, <1>12
<1> QED BY <1>13, <1>14 DEF u, v, w, T, t, n

\* One more element is one more, if it is in the set.
LEMMA OfAppend ==
    ASSUME NEW A, NEW s \in Seq(A), NEW x \in A, NEW T
    PROVE  Of(Append(s, x), T) = IF x \in T THEN Append(Of(s, T), x) ELSE Of(s, T)
<1> DEFINE S == {k \in 1..Len(s) : s[k] \in T}
           u == Append(s, x)
           U == {k \in 1..Len(u) : u[k] \in T}
<1>1. S \in SUBSET (1..Len(s))
  OBVIOUS
<1>2. /\ Len(s) \in Nat /\ Len(u) = Len(s) + 1 /\ u[Len(s) + 1] = x
      /\ \A k \in 1..Len(s) : u[k] = s[k]
  OBVIOUS
<1> HIDE DEF u
<1>3. x \in T => U = S \cup {Len(s) + 1}
  BY <1>2
<1>4. x \notin T => U = S
  BY <1>2
<1>5. Of(s, T) = Pick(s, S) /\ Of(u, T) = Pick(u, U)
  BY DEF Of
<1> HIDE DEF S, U
<1>6. /\ Pick(u, S) = Pick(s, S)
      /\ Pick(u, S \cup {Len(s) + 1}) = Append(Pick(s, S), x)
  BY <1>1, PickAppend DEF u
<1>7. CASE x \in T
  BY <1>3, <1>5, <1>6, <1>7 DEF u
<1>8. CASE x \notin T
  BY <1>4, <1>5, <1>6, <1>8 DEF u
<1> QED BY <1>7, <1>8

LEMMA OfNone == ASSUME NEW T PROVE Of(<<>>, T) = <<>>
<1>1. {k \in 1..Len(<<>>) : <<>>[k] \in T} = {}
  OBVIOUS
<1>2. Ascending({}) = <<>>
  BY AscendingEmpty
<1>3. Pick(<<>>, {}) = <<>>
  BY <1>2 DEF Pick
<1> QED BY <1>1, <1>3 DEF Of

LEMMA OfIn ==
    ASSUME NEW A, NEW s \in Seq(A), NEW T
    PROVE  Of(s, T) \in Seq(A)
BY PickIs DEF Of

\* Parts contribute in their order.
LEMMA OfConcat ==
    ASSUME NEW A, NEW s \in Seq(A), NEW t \in Seq(A), NEW T
    PROVE  Of(s \o t, T) = Of(s, T) \o Of(t, T)
<1> DEFINE S == {r \in Seq(A) : Of(s \o r, T) = Of(s, T) \o Of(r, T)}
<1>1. <<>> \in S
  <2>1. s \o <<>> = s /\ Of(s, T) \o <<>> = Of(s, T)
    BY OfIn
  <2>2. Of(<<>>, T) = <<>> /\ <<>> \in Seq(A)
    BY OfNone
  <2>3. Of(s \o <<>>, T) = Of(s, T) \o Of(<<>>, T)
    BY <2>1, <2>2
  <2> QED BY <2>2, <2>3
<1>2. ASSUME NEW r \in Seq(A), r \in S, NEW x \in A
      PROVE  Append(r, x) \in S
  <2> DEFINE p == Of(s, T)  q == Of(r, T)
  <2>1. s \o Append(r, x) = Append(s \o r, x) /\ s \o r \in Seq(A) /\ Append(r, x) \in Seq(A)
    OBVIOUS
  <2>2. Of(s \o r, T) = p \o q
    BY <1>2
  <2>3. Of(Append(s \o r, x), T) = IF x \in T THEN Append(p \o q, x) ELSE p \o q
    <3>1. \A y \in Seq(A) : Of(Append(y, x), T) = IF x \in T THEN Append(Of(y, T), x) ELSE Of(y, T)
      BY OfAppend
    <3> HIDE DEF p, q
    <3> QED BY <2>1, <2>2, <3>1
  <2>4. Of(Append(r, x), T) = IF x \in T THEN Append(q, x) ELSE q
    BY OfAppend
  <2>5. p \in Seq(A) /\ q \in Seq(A)
    BY OfIn
  <2> HIDE DEF p, q
  <2>6. p \o Append(q, x) = Append(p \o q, x)
    BY <2>5
  <2>7. Of(s \o Append(r, x), T) = p \o Of(Append(r, x), T)
    BY <2>1, <2>3, <2>4, <2>6
  <2> QED BY <2>1, <2>7 DEF p
<1> HIDE DEF S
<1>3. \A r \in Seq(A) : r \in S => \A x \in A : Append(r, x) \in S
  BY <1>2
<1>4. \A r \in Seq(A) : r \in S
  BY <1>1, <1>3, SeqsByAppend
<1>5. t \in S
  BY <1>4
<1> QED BY <1>5 DEF S

----------------------------------------------------------------------------
(* Query: texts that are split, symbol by symbol.                          *)

\* One more symbol of a text that is split at x.
Cutting(st, y, x) ==
    IF y = x THEN [out |-> Append(st.out, st.cur), cur |-> <<>>]
    ELSE [out |-> st.out, cur |-> Append(st.cur, y)]
Cuts(B) == [out : Seq(Seq(B)), cur : Seq(B)]
CutTable(s, x, g) ==
    g = [n \in 0..Len(s) |->
            IF n = 0 THEN [out |-> <<>>, cur |-> <<>>]
            ELSE LET before == g[n - 1]
                 IN  IF s[n] = x THEN [out |-> Append(before.out, before.cur), cur |-> <<>>]
                     ELSE [out |-> before.out, cur |-> Append(before.cur, s[n])]]

LEMMA CuttingIn ==
    ASSUME NEW B, NEW st \in Cuts(B), NEW y \in B, NEW x
    PROVE  Cutting(st, y, x) \in Cuts(B)
<1>1. st.out \in Seq(Seq(B)) /\ st.cur \in Seq(B)
  BY DEF Cuts
<1> DEFINE o == st.out  c == st.cur
<1>2. Append(o, c) \in Seq(Seq(B)) /\ Append(c, y) \in Seq(B) /\ <<>> \in Seq(B)
  <2> HIDE DEF o, c
  <2>1. o \in Seq(Seq(B)) /\ c \in Seq(B)
    BY <1>1 DEF o, c
  <2> QED BY <2>1
<1>3. CASE y = x
  BY <1>2, <1>3 DEF Cutting, Cuts
<1>4. CASE y # x
  BY <1>1, <1>2, <1>4 DEF Cutting, Cuts
<1> QED BY <1>3, <1>4

\* The pieces before a symbol, and with it.
LEMMA CutTableIs ==
    ASSUME NEW s, NEW x, NEW g, CutTable(s, x, g), Len(s) \in Nat
    PROVE  /\ g[0] = [out |-> <<>>, cur |-> <<>>]
           /\ \A n \in 1..Len(s) : g[n] = Cutting(g[n-1], s[n], x)
<1> DEFINE val(n) == IF n = 0 THEN [out |-> <<>>, cur |-> <<>>]
            ELSE LET before == g[n - 1]
                 IN  IF s[n] = x THEN [out |-> Append(before.out, before.cur), cur |-> <<>>]
                     ELSE [out |-> before.out, cur |-> Append(before.cur, s[n])]
<1>1. g = [n \in 0..Len(s) |-> val(n)]
  BY DEF CutTable
<1>2. \A n \in 1..Len(s) : val(n) = Cutting(g[n-1], s[n], x)
  BY DEF Cutting
<1>3. val(0) = [out |-> <<>>, cur |-> <<>>]
  OBVIOUS
<1> HIDE DEF val
<1>4. 0 \in 0..Len(s) /\ \A n \in 1..Len(s) : n \in 0..Len(s)
  OBVIOUS
<1>5. \A n \in 0..Len(s) : g[n] = val(n)
  BY <1>1
<1> QED BY <1>2, <1>3, <1>4, <1>5

\* The loop is a function, so Split is what it says.
LEMMA CutTableExists ==
    ASSUME NEW B, NEW s \in Seq(B), NEW x
    PROVE  \E g : CutTable(s, x, g)
<1> DEFINE n == Len(s)
           a == [out |-> <<>>, cur |-> <<>>]
           step == [k \in 1..n |-> [st \in Cuts(B) |-> Cutting(st, s[k], x)]]
<1>1. n \in Nat /\ a \in Cuts(B)
  BY DEF Cuts
<1>2. step \in [1..n -> [Cuts(B) -> Cuts(B)]]
  <2>1. \A k \in 1..n : s[k] \in B
    OBVIOUS
  <2>2. \A k \in 1..n : \A st \in Cuts(B) : Cutting(st, s[k], x) \in Cuts(B)
    BY <2>1, CuttingIn
  <2> HIDE DEF n
  <2> QED BY <2>2
<1>3. \A k \in 1..n : \A st \in Cuts(B) : step[k][st] = Cutting(st, s[k], x)
  OBVIOUS
<1> HIDE DEF n, a, step
<1>4. PICK g : Iterates(Cuts(B), a, n, step, g)
  BY <1>1, <1>2, IterationExists
<1>5. /\ g \in [0..n -> Cuts(B)] /\ g[0] = a /\ \A k \in 1..n : g[k] = step[k][g[k-1]]
  BY <1>4 DEF Iterates
<1>6. \A k \in 1..n : g[k] = Cutting(g[k-1], s[k], x)
  <2> SUFFICES ASSUME NEW k \in 1..n PROVE g[k] = Cutting(g[k-1], s[k], x)
    OBVIOUS
  <2>1. k-1 \in 0..n
    BY <1>1
  <2>2. g[k-1] \in Cuts(B)
    BY <1>5, <2>1
  <2> QED BY <1>3, <1>5, <2>2
<1> DEFINE val(k) == IF k = 0 THEN [out |-> <<>>, cur |-> <<>>]
            ELSE LET before == g[k - 1]
                 IN  IF s[k] = x THEN [out |-> Append(before.out, before.cur), cur |-> <<>>]
                     ELSE [out |-> before.out, cur |-> Append(before.cur, s[k])]
<1>7. \A k \in 0..n : g[k] = val(k)
  <2> SUFFICES ASSUME NEW k \in 0..n PROVE g[k] = val(k)
    OBVIOUS
  <2>1. CASE k = 0
    BY <1>5, <2>1 DEF a
  <2>2. CASE k # 0
    <3>1. k \in 1..n
      BY <1>1, <2>2
    <3>2. val(k) = Cutting(g[k-1], s[k], x)
      BY <2>2 DEF Cutting
    <3> HIDE DEF val
    <3> QED BY <1>6, <3>1, <3>2
  <2> QED BY <2>1, <2>2
<1> HIDE DEF val
<1>8. g = [k \in 0..n |-> val(k)]
  BY <1>5, <1>7
<1>9. CutTable(s, x, g)
  BY <1>8 DEF CutTable, n, val
<1> QED BY <1>9

LEMMA CutTableIn ==
    ASSUME NEW B, NEW s \in Seq(B), NEW x, NEW g, CutTable(s, x, g)
    PROVE  \A n \in 0..Len(s) : g[n] \in Cuts(B)
<1> DEFINE S == {n \in 0..Len(s) : g[n] \in Cuts(B)}
<1>0. Len(s) \in Nat /\ 0 \in 0..Len(s)
  OBVIOUS
<1>1. 0 \in S
  <2>1. g[0] = [out |-> <<>>, cur |-> <<>>]
    BY <1>0, CutTableIs
  <2>2. [out |-> <<>>, cur |-> <<>>] \in Cuts(B)
    BY DEF Cuts
  <2> QED BY <1>0, <2>1, <2>2
<1>2. ASSUME NEW n \in 1..Len(s), n - 1 \in S PROVE n \in S
  <2>1. g[n] = Cutting(g[n-1], s[n], x)
    BY CutTableIs
  <2>2. g[n-1] \in Cuts(B) /\ s[n] \in B
    BY <1>2
  <2>3. g[n] \in Cuts(B)
    BY <2>1, <2>2, CuttingIn
  <2> QED BY <2>3
<1> HIDE DEF S
<1>3. \A n \in 1..Len(s) : n - 1 \in S => n \in S
  BY <1>2
<1>4. \A n \in 0..Len(s) : n \in S
  BY <1>0, <1>1, <1>3, AllUpto
<1> QED BY <1>4 DEF S

\* The table of a text is that of a longer one, as far as it goes.
LEMMA CutTableSame ==
    ASSUME NEW B, NEW s \in Seq(B), NEW y \in B, NEW x, NEW g, NEW h,
           CutTable(s, x, g), CutTable(Append(s, y), x, h)
    PROVE  \A n \in 0..Len(s) : g[n] = h[n]
<1> DEFINE S == {n \in 0..Len(s) : g[n] = h[n]}
           u == Append(s, y)
<1>0. Len(s) \in Nat /\ Len(u) = Len(s) + 1 /\ \A n \in 1..Len(s) : u[n] = s[n]
  OBVIOUS
<1> HIDE DEF u
<1>1. g[0] = h[0]
  BY <1>0, CutTableIs DEF u
<1>2. ASSUME NEW n \in 1..Len(s), g[n-1] = h[n-1] PROVE g[n] = h[n]
  <2>1. g[n] = Cutting(g[n-1], s[n], x)
    BY <1>0, CutTableIs
  <2>2. n \in 1..Len(u) /\ Len(u) \in Nat
    BY <1>0
  <2>3. h[n] = Cutting(h[n-1], u[n], x)
    BY <2>2, CutTableIs DEF u
  <2> QED BY <1>0, <1>2, <2>1, <2>3
<1>3. 0 \in S
  BY <1>0, <1>1
<1>4. \A n \in 1..Len(s) : n - 1 \in S => n \in S
  BY <1>2
<1> HIDE DEF S
<1>5. \A n \in 0..Len(s) : n \in S
  BY <1>0, <1>3, <1>4, AllUpto
<1> QED BY <1>5 DEF S

\* What Split returns is the last entry of its table.
LEMMA SplitTable ==
    ASSUME NEW B, NEW s \in Seq(B), NEW x
    PROVE  \E g : CutTable(s, x, g) /\ Split(s, x) = Append(g[Len(s)].out, g[Len(s)].cur)
<1> DEFINE R(g) == CutTable(s, x, g)
           upto == CHOOSE g : R(g)
<1>1. Split(s, x) = Append(upto[Len(s)].out, upto[Len(s)].cur)
  BY DEF Split, CutTable
<1>2. R(upto)
  <2>1. \E g : R(g)
    BY CutTableExists
  <2> HIDE DEF R
  <2> QED BY <2>1
<1> HIDE DEF upto
<1> QED BY <1>1, <1>2

\* Split, symbol by symbol: x begins a piece, another symbol extends the last one.
LEMMA SplitNothing == ASSUME NEW x PROVE Split(<<>>, x) = << <<>> >>
<1>1. <<>> \in Seq({}) /\ Len(<<>>) = 0
  OBVIOUS
<1>2. PICK g : CutTable(<<>>, x, g) /\ Split(<<>>, x) = Append(g[0].out, g[0].cur)
  BY <1>1, SplitTable
<1>3. g[0] = [out |-> <<>>, cur |-> <<>>]
  BY <1>1, <1>2, CutTableIs
<1> QED BY <1>2, <1>3

Grown(s, y, x, o, c) ==
    /\ Split(s, x) = Append(o, c)
    /\ Split(Append(s, y), x) =
          IF y = x THEN Append(Append(o, c), <<>>) ELSE Append(o, Append(c, y))

\* One more symbol, as the pieces that are complete and the one it is in.
LEMMA SplitGrows ==
    ASSUME NEW B, NEW s \in Seq(B), NEW y \in B, NEW x
    PROVE  \E o \in Seq(Seq(B)), c \in Seq(B) : Grown(s, y, x, o, c)
<1> DEFINE u == Append(s, y)
<1>0. u \in Seq(B) /\ Len(s) \in Nat /\ Len(u) = Len(s) + 1 /\ u[Len(u)] = y
  OBVIOUS
<1>1. PICK g : CutTable(s, x, g) /\ Split(s, x) = Append(g[Len(s)].out, g[Len(s)].cur)
  BY SplitTable
<1>2. PICK h : CutTable(u, x, h) /\ Split(u, x) = Append(h[Len(u)].out, h[Len(u)].cur)
  <2> HIDE DEF u
  <2> QED BY <1>0, SplitTable
<1>3. h[Len(s)] = g[Len(s)] /\ g[Len(s)] \in Cuts(B)
  <2>1. Len(s) \in 0..Len(s)
    BY <1>0
  <2>2. g[Len(s)] \in Cuts(B)
    BY <1>1, <2>1, CutTableIn
  <2>3. h[Len(s)] = g[Len(s)]
    BY <1>1, <1>2, <2>1, CutTableSame
  <2> QED BY <2>2, <2>3
<1>4. h[Len(u)] = Cutting(h[Len(s)], y, x)
  <2>1. Len(u) \in 1..Len(u) /\ Len(u) - 1 = Len(s) /\ Len(u) \in Nat
    BY <1>0
  <2>2. \A n \in 1..Len(u) : h[n] = Cutting(h[n-1], u[n], x)
    BY <1>2, <2>1, CutTableIs
  <2> HIDE DEF u
  <2>3. h[Len(u)] = Cutting(h[Len(u)-1], u[Len(u)], x)
    BY <2>1, <2>2
  <2> QED BY <1>0, <2>1, <2>3
<1> DEFINE o == g[Len(s)].out  c == g[Len(s)].cur
<1>5. o \in Seq(Seq(B)) /\ c \in Seq(B)
  BY <1>3 DEF Cuts
<1>6. Split(u, x) = IF y = x THEN Append(Append(o, c), <<>>) ELSE Append(o, Append(c, y))
  <2>1. CASE y = x
    BY <1>2, <1>3, <1>4, <2>1 DEF Cutting
  <2>2. CASE y # x
    BY <1>2, <1>3, <1>4, <2>2 DEF Cutting
  <2> QED BY <2>1, <2>2
<1> HIDE DEF o, c
<1>7. Split(s, x) = Append(o, c)
  BY <1>1 DEF o, c
<1>8. Grown(s, y, x, o, c)
  BY <1>6, <1>7 DEF u, Grown
<1> QED BY <1>5, <1>8

LEMMA AppendIn ==
    ASSUME NEW X, NEW p \in Seq(X), NEW e \in X
    PROVE  Append(p, e) \in Seq(X) /\ Append(p, e) # <<>>
BY AppendProperties

LEMMA SeqDom ==
    ASSUME NEW X, NEW p \in Seq(X)
    PROVE  /\ Len(p) \in Nat /\ DOMAIN p = 1..Len(p) /\ p = [k \in 1..Len(p) |-> p[k]]
           /\ \A k \in 1..Len(p) : p[k] \in X
OBVIOUS

\* The pieces have nothing of x, and there is one at least.
LEMMA SplitIn ==
    ASSUME NEW B, NEW s \in Seq(B), NEW x
    PROVE  Split(s, x) \in Seq(Seq(B \ {x})) /\ Split(s, x) # <<>>
<1> DEFINE C == B \ {x}
           S == {t \in Seq(B) : Split(t, x) \in Seq(Seq(C)) /\ Split(t, x) # <<>>}
<1>1. <<>> \in S
  <2>1. << <<>> >> \in Seq(Seq(C)) /\ << <<>> >> # <<>> /\ <<>> \in Seq(B)
    OBVIOUS
  <2> HIDE DEF C
  <2> QED BY <2>1, SplitNothing
<1>2. ASSUME NEW t \in Seq(B), t \in S, NEW y \in B PROVE Append(t, y) \in S
  <2>0. PICK o \in Seq(Seq(B)), c \in Seq(B) : Grown(t, y, x, o, c)
    BY SplitGrows
  <2>1. /\ Split(t, x) = Append(o, c)
        /\ Split(Append(t, y), x) =
              IF y = x THEN Append(Append(o, c), <<>>) ELSE Append(o, Append(c, y))
    BY <2>0 DEF Grown
  <2>2. Append(o, c) \in Seq(Seq(C))
    BY <1>2, <2>1
  <2>3. o \in Seq(Seq(C)) /\ c \in Seq(C)
    <3> DEFINE p == Append(o, c)
    <3>1. p[Len(o) + 1] = c /\ Len(o) + 1 \in 1..Len(p) /\ o = SubSeq(p, 1, Len(o)) /\ Len(o) \in 0..Len(p)
      OBVIOUS
    <3> HIDE DEF p, C
    <3>2. p \in Seq(Seq(C))
      BY <2>2 DEF p
    <3>3. c \in Seq(C)
      BY <3>1, <3>2, ElementOfSeq
    <3>4. SubSeq(p, 1, Len(o)) \in Seq(Seq(C))
      BY <3>1, <3>2
    <3> QED BY <3>1, <3>3, <3>4
  <2> DEFINE v == Split(Append(t, y), x)
  <2>4. v \in Seq(Seq(C)) /\ v # <<>>
    <3>1. CASE y = x
      <4>1. v = Append(Append(o, c), <<>>)
        BY <2>1, <3>1
      <4> HIDE DEF v, C
      <4>2. \A p \in Seq(Seq(C)) : Append(p, <<>>) \in Seq(Seq(C)) /\ Append(p, <<>>) # <<>>
        <5>1. <<>> \in Seq(C)
          OBVIOUS
        <5> QED BY <5>1, AppendIn
      <4> QED BY <2>2, <4>1, <4>2
    <3>2. CASE y # x
      <4>1. v = Append(o, Append(c, y))
        BY <2>1, <3>2
      <4>2. y \in C
        BY <3>2
      <4> HIDE DEF v, C
      <4>3. Append(c, y) \in Seq(C)
        BY <2>3, <4>2
      <4>4. \A d \in Seq(C) : Append(o, d) \in Seq(Seq(C)) /\ Append(o, d) # <<>>
        BY <2>3, AppendIn
      <4> QED BY <4>1, <4>3, <4>4
    <3> QED BY <3>1, <3>2
  <2>5. Append(t, y) \in Seq(B)
    OBVIOUS
  <2> QED BY <2>4, <2>5
<1> HIDE DEF S
<1>3. \A t \in Seq(B) : t \in S => \A y \in B : Append(t, y) \in S
  BY <1>2
<1>4. s \in S
  BY <1>1, <1>3, SeqsByAppend
<1> QED BY <1>4 DEF S

\* Splitting a text that is put together at x splits its parts.
Around(s, x, t) == s \o <<x>> \o t

LEMMA SplitConcat ==
    ASSUME NEW B, NEW s \in Seq(B), NEW t \in Seq(B), NEW x \in B
    PROVE  Split(Around(s, x, t), x) = Split(s, x) \o Split(t, x)
<1> DEFINE D == Seq(Seq(B))
           head == s \o <<x>>
           S == {r \in Seq(B) : Split(head \o r, x) = Split(s, x) \o Split(r, x)}
<1>0. head \in Seq(B) /\ head = Append(s, x)
  OBVIOUS
<1>1. Split(s, x) \in D
  <2>0. PICK o \in Seq(Seq(B)), c \in Seq(B) : Grown(s, x, x, o, c)
    BY SplitGrows
  <2>1. Split(s, x) = Append(o, c)
    BY <2>0 DEF Grown
  <2> QED BY <2>1
<1> HIDE DEF head
<1>2. <<>> \in S
  <2>0. PICK o \in Seq(Seq(B)), c \in Seq(B) : Grown(s, x, x, o, c)
    BY SplitGrows
  <2>1. Split(s, x) = Append(o, c) /\ Split(Append(s, x), x) = Append(Append(o, c), <<>>)
    BY <2>0 DEF Grown
  <2>2. head \o <<>> = head
    BY <1>0
  <2>3. Split(head \o <<>>, x) = Append(Split(s, x), <<>>)
    BY <1>0, <2>1, <2>2
  <2>4. Append(Split(s, x), <<>>) = Split(s, x) \o << <<>> >>
    BY <1>1
  <2>5. Split(<<>>, x) = << <<>> >>
    BY SplitNothing
  <2>6. <<>> \in Seq(B)
    OBVIOUS
  <2>7. Split(head \o <<>>, x) = Split(s, x) \o Split(<<>>, x)
    BY <2>3, <2>4, <2>5
  <2> QED BY <2>6, <2>7
<1>3. ASSUME NEW r \in Seq(B), r \in S, NEW y \in B PROVE Append(r, y) \in S
  <2>0. PICK o \in Seq(Seq(B)), c \in Seq(B) : Grown(r, y, x, o, c)
    BY SplitGrows
  <2>1. /\ Split(r, x) = Append(o, c)
        /\ Split(Append(r, y), x) =
              IF y = x THEN Append(Append(o, c), <<>>) ELSE Append(o, Append(c, y))
    BY <2>0 DEF Grown
  <2> DEFINE u == head \o r  p == Split(s, x)
  <2>2. u \in Seq(B) /\ head \o Append(r, y) = Append(u, y)
    BY <1>0
  <2> HIDE DEF u
  <2>11. PICK a \in Seq(Seq(B)), d \in Seq(B) : Grown(u, y, x, a, d)
    BY <2>2, SplitGrows
  <2>3. /\ Split(u, x) = Append(a, d)
        /\ Split(Append(u, y), x) =
              IF y = x THEN Append(Append(a, d), <<>>) ELSE Append(a, Append(d, y))
    BY <2>11 DEF Grown
  <2>4. Append(a, d) = p \o Append(o, c)
    BY <1>3, <2>1, <2>3 DEF u
  <2> HIDE DEF p
  <2>5. p \in D
    BY <1>1 DEF p
  <2>6. \A e : e \in Seq(B) => p \o Append(o, e) = Append(p \o o, e)
    BY <2>5
  <2>7. p \o o \in D
    BY <2>5
  <2>8. a = p \o o /\ d = c
    <3> DEFINE q == p \o o
    <3>1. Append(a, d) = Append(q, c) /\ q \in D
      BY <2>4, <2>6, <2>7
    <3> HIDE DEF q
    <3>2. a = q /\ d = c
      BY <3>1, AppendInjective
    <3> QED BY <3>2 DEF q
  <2>9. Split(Append(u, y), x) = p \o Split(Append(r, y), x)
    <3>1. CASE y = x
      <4>1. Append(Append(p \o o, c), <<>>) = p \o Append(Append(o, c), <<>>)
        <5> DEFINE w == Append(o, c)
        <5>1. w \in D /\ <<>> \in Seq(B)
          OBVIOUS
        <5>2. p \o w = Append(p \o o, c)
          BY <2>6
        <5> HIDE DEF w
        <5>3. p \o Append(w, <<>>) = Append(p \o w, <<>>)
          BY <2>5, <5>1
        <5> QED BY <5>2, <5>3 DEF w
      <4> QED BY <2>1, <2>3, <2>8, <3>1, <4>1
    <3>2. CASE y # x
      <4>1. Append(c, y) \in Seq(B)
        OBVIOUS
      <4>2. Append(p \o o, Append(c, y)) = p \o Append(o, Append(c, y))
        BY <2>6, <4>1
      <4> QED BY <2>1, <2>3, <2>8, <3>2, <4>2
    <3> QED BY <3>1, <3>2
  <2>10. Append(r, y) \in Seq(B)
    OBVIOUS
  <2> QED BY <2>2, <2>9, <2>10 DEF p
<1> HIDE DEF S
<1>4. \A r \in Seq(B) : r \in S => \A y \in B : Append(r, y) \in S
  BY <1>3
<1>5. t \in S
  BY <1>2, <1>4, SeqsByAppend
<1> QED BY <1>5 DEF S, head, Around

\* A text without x is one piece.
LEMMA SplitWhole ==
    ASSUME NEW B, NEW x, x \notin B, NEW s \in Seq(B)
    PROVE  Split(s, x) = <<s>>
<1> DEFINE S == {r \in Seq(B) : Split(r, x) = <<r>>}
<1>1. <<>> \in S
  BY SplitNothing
<1>2. ASSUME NEW r \in Seq(B), r \in S, NEW y \in B PROVE Append(r, y) \in S
  <2>0. PICK o \in Seq(Seq(B)), c \in Seq(B) : Grown(r, y, x, o, c)
    BY SplitGrows
  <2>1. /\ Split(r, x) = Append(o, c)
        /\ Split(Append(r, y), x) =
              IF y = x THEN Append(Append(o, c), <<>>) ELSE Append(o, Append(c, y))
    BY <2>0 DEF Grown
  <2>2. Append(o, c) = <<r>>
    BY <1>2, <2>1
  <2>3. o = <<>> /\ c = r
    <3>1. Append(o, c) = Append(<<>>, r) /\ <<>> \in Seq(Seq(B))
      BY <2>2
    <3>2. r \in Seq(B)
      OBVIOUS
    <3> DEFINE E == Seq(B)
    <3>3. o \in Seq(E) /\ c \in E /\ r \in E /\ <<>> \in Seq(E)
      OBVIOUS
    <3> HIDE DEF E
    <3> DEFINE p == Append(o, c)
    <3>4. Len(p) = Len(o) + 1 /\ p[Len(o) + 1] = c /\ Len(o) \in Nat
      BY <3>3, AppendProperties
    <3>5. p = <<r>>
      BY <2>2
    <3> HIDE DEF p
    <3>6. Len(o) = 0
      BY <3>4, <3>5
    <3> QED BY <3>3, <3>4, <3>5, <3>6
  <2>4. y # x
    OBVIOUS
  <2>5. Split(Append(r, y), x) = Append(<<>>, Append(r, y))
    BY <2>1, <2>3, <2>4
  <2> QED BY <2>5
<1> HIDE DEF S
<1>3. \A r \in Seq(B) : r \in S => \A y \in B : Append(r, y) \in S
  BY <1>2
<1>4. s \in S
  BY <1>1, <1>3, SeqsByAppend
<1> QED BY <1>4 DEF S

----------------------------------------------------------------------------
\* A word: symbols without a blank.
WordOf(B) == Seq(B \ {Blank}) \ {<<>>}

LEMMA WordsOf ==
    ASSUME NEW B, NEW s \in Seq(B)
    PROVE  /\ Words(s) = Of(Split(s, Blank), WordOf(B))
           /\ Words(s) \in Seq(WordOf(B))
<1> DEFINE p == Split(s, Blank)
           W == WordOf(B)
           at == {k \in 1..Len(p) : p[k] \in W}
<1>1. p \in Seq(Seq(B \ {Blank}))
  BY SplitIn
<1> HIDE DEF p
<1>2. {k \in DOMAIN p : p[k] # <<>>} = at
  <2>1. DOMAIN p = 1..Len(p)
    BY <1>1, SeqDom
  <2>2. \A k \in 1..Len(p) : p[k] \in Seq(B \ {Blank})
    BY <1>1, ElementOfSeq
  <2> QED BY <2>1, <2>2 DEF WordOf
<1>3. Words(s) = Pick(p, at)
  BY <1>2 DEF Words, Filled, p
<1>4. Words(s) = Of(p, W)
  BY <1>3 DEF Of
<1> HIDE DEF W
<1>5. Pick(p, at) \in Seq(W)
  <2>1. at \in SUBSET (1..Len(p))
    OBVIOUS
  <2>2. \A k \in at : p[k] \in W
    OBVIOUS
  <2> HIDE DEF at
  <2>3. /\ IsFiniteSet(at) /\ Cardinality(at) \in Nat
        /\ Pick(p, at) \in Seq(Seq(B \ {Blank})) /\ Len(Pick(p, at)) = Cardinality(at)
        /\ \A k \in 1..Cardinality(at) : Ascending(at)[k] \in at /\ Pick(p, at)[k] = p[Ascending(at)[k]]
    BY <1>1, <2>1, PickIs
  <2> DEFINE f == Pick(p, at)  n == Cardinality(at)
  <2>4. \A k \in 1..n : f[k] \in W
    BY <2>2, <2>3
  <2>5. f = [k \in 1..n |-> f[k]]
    <3> HIDE DEF f, n
    <3>1. f \in Seq(Seq(B \ {Blank})) /\ Len(f) = n
      BY <2>3 DEF f, n
    <3> QED BY <3>1
  <2>6. n \in Nat
    BY <2>3
  <2> HIDE DEF f, n
  <2>7. f \in Seq(W)
    BY <2>4, <2>5, <2>6, SeqIs
  <2> QED BY <2>7 DEF f
<1> QED BY <1>3, <1>4, <1>5 DEF p, W

LEMMA WordsNothing == Words(<<>>) = <<>>
<1>1. Split(<<>>, Blank) = << <<>> >> /\ <<>> \in Seq({})
  BY SplitNothing
<1>2. Words(<<>>) = Of(<< <<>> >>, WordOf({}))
  BY <1>1, WordsOf
<1>3. Of(Append(<<>>, <<>>), WordOf({})) = Of(<<>>, WordOf({}))
  <2>1. <<>> \in Seq({<<>>}) /\ <<>> \in {<<>>} /\ <<>> \notin WordOf({})
    BY DEF WordOf
  <2> HIDE DEF WordOf
  <2> QED BY <2>1, OfAppend
<1>4. Append(<<>>, <<>>) = << <<>> >>
  OBVIOUS
<1> QED BY <1>2, <1>3, <1>4, OfNone

\* A word is its own only word, and a blank between texts parts their words.
LEMMA WordsOfWord ==
    ASSUME NEW B, NEW w \in WordOf(B)
    PROVE  Words(w) = <<w>>
<1> DEFINE C == B \ {Blank}
<1>1. w \in Seq(C) /\ w # <<>> /\ C \ {Blank} = C
  BY DEF WordOf
<1>2. Split(w, Blank) = <<w>>
  <2>1. Blank \notin C
    OBVIOUS
  <2> HIDE DEF C
  <2> QED BY <1>1, <2>1, SplitWhole
<1>3. Words(w) = Of(<<w>>, WordOf(C))
  BY <1>1, <1>2, WordsOf
<1>4. w \in WordOf(C)
  BY <1>1 DEF WordOf
<1>5. Of(Append(<<>>, w), WordOf(C)) = Append(Of(<<>>, WordOf(C)), w)
  <2> DEFINE W == WordOf(C)
  <2>1. <<>> \in Seq(W) /\ w \in W
    BY <1>4
  <2> HIDE DEF W
  <2>2. Of(Append(<<>>, w), W) = IF w \in W THEN Append(Of(<<>>, W), w) ELSE Of(<<>>, W)
    BY <2>1, OfAppend
  <2>3. Of(Append(<<>>, w), W) = Append(Of(<<>>, W), w)
    BY <2>1, <2>2
  <2> QED BY <2>3 DEF W
<1>6. Append(<<>>, w) = <<w>>
  OBVIOUS
<1> QED BY <1>3, <1>5, <1>6, OfNone

LEMMA WordsConcat ==
    ASSUME NEW B, Blank \in B, NEW s \in Seq(B), NEW t \in Seq(B)
    PROVE  Words(s \o <<Blank>> \o t) = Words(s) \o Words(t)
<1> DEFINE W == WordOf(B)
<1>1. Split(s \o <<Blank>> \o t, Blank) = Split(s, Blank) \o Split(t, Blank)
  <2>1. Split(Around(s, Blank, t), Blank) = Split(s, Blank) \o Split(t, Blank)
    BY SplitConcat
  <2> QED BY <2>1 DEF Around
<1>2. s \o <<Blank>> \o t \in Seq(B)
  OBVIOUS
<1>3. /\ Words(s \o <<Blank>> \o t) = Of(Split(s, Blank) \o Split(t, Blank), W)
      /\ Words(s) = Of(Split(s, Blank), W)
      /\ Words(t) = Of(Split(t, Blank), W)
  BY <1>1, <1>2, WordsOf
<1>4. Split(s, Blank) \in Seq(Seq(B \ {Blank})) /\ Split(t, Blank) \in Seq(Seq(B \ {Blank}))
  BY SplitIn
<1> DEFINE p == Split(s, Blank)  q == Split(t, Blank)  C == Seq(B \ {Blank})
<1> HIDE DEF p, q, C, W
<1>5. p \in Seq(C) /\ q \in Seq(C)
  BY <1>4 DEF p, q, C
<1>6. Of(p \o q, W) = Of(p, W) \o Of(q, W)
  BY <1>5, OfConcat
<1> QED BY <1>3, <1>6 DEF p, q

----------------------------------------------------------------------------
(* Words that are joined, and their words again.                           *)

JoinTable(ws, g) ==
    g = [n \in 0..Len(ws) |->
            IF n = 0 THEN <<>> ELSE IF n = 1 THEN ws[1] ELSE g[n - 1] \o <<Blank>> \o ws[n]]

\* The text so far and a word more, the n-th.
WithWord(n, text, w) == IF n = 1 THEN w ELSE text \o <<Blank>> \o w

LEMMA JoinTableIs ==
    ASSUME NEW ws, Len(ws) \in Nat, NEW g, JoinTable(ws, g)
    PROVE  /\ g[0] = <<>>
           /\ \A n \in 1..Len(ws) : g[n] = WithWord(n, g[n-1], ws[n])
<1> DEFINE val(n) == IF n = 0 THEN <<>> ELSE IF n = 1 THEN ws[1] ELSE g[n - 1] \o <<Blank>> \o ws[n]
<1>1. g = [n \in 0..Len(ws) |-> val(n)]
  BY DEF JoinTable
<1>2. val(0) = <<>> /\ \A n \in 1..Len(ws) : val(n) = WithWord(n, g[n-1], ws[n])
  BY DEF WithWord
<1>3. 0 \in 0..Len(ws) /\ \A n \in 1..Len(ws) : n \in 0..Len(ws)
  OBVIOUS
<1> HIDE DEF val
<1>4. \A n \in 0..Len(ws) : g[n] = val(n)
  BY <1>1
<1> QED BY <1>2, <1>3, <1>4

LEMMA JoiningIn ==
    ASSUME NEW B, Blank \in B, NEW n, NEW text \in Seq(B), NEW w \in Seq(B)
    PROVE  WithWord(n, text, w) \in Seq(B)
BY DEF WithWord

\* The loop of JoinWords is a function.
LEMMA JoinTableExists ==
    ASSUME NEW B, Blank \in B, NEW ws \in Seq(Seq(B))
    PROVE  \E g : JoinTable(ws, g)
<1> DEFINE T == Seq(B)
           n == Len(ws)
           step == [k \in 1..n |-> [u \in T |-> WithWord(k, u, ws[k])]]
<1>0. n \in Nat /\ \A k \in 1..n : ws[k] \in T
  BY SeqDom
<1>1. <<>> \in T
  OBVIOUS
<1>2. \A k \in 1..n : \A u \in T : WithWord(k, u, ws[k]) \in T
  BY <1>0, JoiningIn
<1> HIDE DEF T, n
<1>3. step \in [1..n -> [T -> T]]
  BY <1>2
<1>4. \A k \in 1..n : \A u \in T : step[k][u] = WithWord(k, u, ws[k])
  OBVIOUS
<1> HIDE DEF step
<1>5. PICK g : Iterates(T, <<>>, n, step, g)
  BY <1>0, <1>1, <1>3, IterationExists
<1>6. /\ g \in [0..n -> T] /\ g[0] = <<>> /\ \A k \in 1..n : g[k] = step[k][g[k-1]]
  BY <1>5 DEF Iterates
<1> DEFINE val(k) == IF k = 0 THEN <<>> ELSE IF k = 1 THEN ws[1] ELSE g[k - 1] \o <<Blank>> \o ws[k]
<1>7. \A k \in 0..n : g[k] = val(k)
  <2> SUFFICES ASSUME NEW k \in 0..n PROVE g[k] = val(k)
    OBVIOUS
  <2>1. CASE k = 0
    BY <1>6, <2>1
  <2>2. CASE k # 0
    <3>1. k \in 1..n /\ k-1 \in 0..n
      BY <1>0, <2>2
    <3>2. val(k) = WithWord(k, g[k-1], ws[k])
      BY <2>2 DEF WithWord
    <3> HIDE DEF val
    <3> QED BY <1>4, <1>6, <3>1, <3>2
  <2> QED BY <2>1, <2>2
<1> HIDE DEF val
<1>8. g = [k \in 0..n |-> val(k)]
  BY <1>6, <1>7
<1>9. JoinTable(ws, g)
  BY <1>8 DEF JoinTable, n, val
<1> QED BY <1>9

LEMMA JoinTableSame ==
    ASSUME NEW ws, NEW vs, NEW g, NEW h, JoinTable(ws, g), JoinTable(vs, h),
           Len(ws) \in Nat, Len(vs) \in Nat, Len(ws) <= Len(vs), \A k \in 1..Len(ws) : ws[k] = vs[k]
    PROVE  \A n \in 0..Len(ws) : g[n] = h[n]
<1> DEFINE S == {n \in 0..Len(ws) : g[n] = h[n]}
<1>1. 0 \in S
  BY JoinTableIs
<1>2. ASSUME NEW n \in 1..Len(ws), g[n-1] = h[n-1] PROVE g[n] = h[n]
  <2>1. g[n] = WithWord(n, g[n-1], ws[n])
    BY JoinTableIs
  <2>2. n \in 1..Len(vs)
    OBVIOUS
  <2>3. h[n] = WithWord(n, h[n-1], vs[n])
    BY <2>2, JoinTableIs
  <2> QED BY <1>2, <2>1, <2>3
<1>3. \A n \in 1..Len(ws) : n - 1 \in S => n \in S
  BY <1>2
<1> HIDE DEF S
<1>4. \A n \in 0..Len(ws) : n \in S
  BY <1>1, <1>3, AllUpto
<1> QED BY <1>4 DEF S

\* What JoinWords returns is the last entry of its table.
LEMMA JoinWordsTable ==
    ASSUME NEW B, Blank \in B, NEW ws \in Seq(Seq(B))
    PROVE  \E g : JoinTable(ws, g) /\ JoinWords(ws) = g[Len(ws)]
<1> DEFINE R(g) == JoinTable(ws, g)
           upto == CHOOSE g : R(g)
<1>1. JoinWords(ws) = upto[Len(ws)]
  BY DEF JoinWords, JoinTable
<1>2. R(upto)
  <2>1. \E g : R(g)
    BY JoinTableExists
  <2> HIDE DEF R
  <2> QED BY <2>1
<1> HIDE DEF upto
<1> QED BY <1>1, <1>2

\* Joining, word by word.
LEMMA JoinNothing == JoinWords(<<>>) = <<>>
<1>1. <<>> \in Seq(Seq({Blank})) /\ Len(<<>>) = 0 /\ Blank \in {Blank}
  OBVIOUS
<1>2. PICK g : JoinTable(<<>>, g) /\ JoinWords(<<>>) = g[0]
  BY <1>1, JoinWordsTable
<1> QED BY <1>1, <1>2, JoinTableIs

\* One more word, behind a blank.
LEMMA JoinMore ==
    ASSUME NEW B, Blank \in B, NEW ws \in Seq(Seq(B)), NEW w \in Seq(B)
    PROVE  JoinWords(Append(ws, w)) = IF ws = <<>> THEN w ELSE Around(JoinWords(ws), Blank, w)
<1> DEFINE vs == Append(ws, w)  T == Seq(B)
<1>0. vs \in Seq(T) /\ Len(ws) \in Nat /\ Len(vs) = Len(ws) + 1
      /\ vs[Len(ws) + 1] = w /\ \A k \in 1..Len(ws) : vs[k] = ws[k]
  <2>1. ws \in Seq(T) /\ w \in T
    OBVIOUS
  <2> HIDE DEF T
  <2> QED BY <2>1, AppendProperties
<1>1. PICK g : JoinTable(ws, g) /\ JoinWords(ws) = g[Len(ws)]
  BY JoinWordsTable
<1> HIDE DEF vs
<1>2. PICK h : JoinTable(vs, h) /\ JoinWords(vs) = h[Len(vs)]
  BY <1>0, JoinWordsTable
<1>3. h[Len(ws)] = g[Len(ws)]
  <2>1. Len(ws) <= Len(vs) /\ Len(vs) \in Nat /\ Len(ws) \in 0..Len(ws)
    BY <1>0
  <2>2. \A n \in 0..Len(ws) : g[n] = h[n]
    <3>1. JoinTable(ws, g) /\ JoinTable(vs, h) /\ Len(ws) \in Nat
      BY <1>0, <1>1, <1>2
    <3>2. \A k \in 1..Len(ws) : ws[k] = vs[k]
      BY <1>0
    <3> HIDE DEF T
    <3> QED BY <2>1, <3>1, <3>2, JoinTableSame
  <2> QED BY <2>1, <2>2
<1>4. h[Len(vs)] = WithWord(Len(vs), h[Len(ws)], w)
  <2>1. Len(vs) \in 1..Len(vs) /\ Len(vs) \in Nat /\ Len(vs) - 1 = Len(ws)
    BY <1>0
  <2>2. \A n \in 1..Len(vs) : h[n] = WithWord(n, h[n-1], vs[n])
    BY <1>2, <2>1, JoinTableIs
  <2>3. h[Len(vs)] = WithWord(Len(vs), h[Len(vs)-1], vs[Len(vs)])
    BY <2>1, <2>2
  <2> QED BY <1>0, <2>1, <2>3
<1>5. Len(vs) = 1 <=> ws = <<>>
  BY <1>0
<1>6. JoinWords(vs) = IF Len(vs) = 1 THEN w ELSE Around(JoinWords(ws), Blank, w)
  BY <1>1, <1>2, <1>3, <1>4 DEF WithWord, Around
<1> QED BY <1>5, <1>6 DEF vs

LEMMA AroundIn ==
    ASSUME NEW B, NEW s \in Seq(B), NEW x \in B, NEW t \in Seq(B)
    PROVE  Around(s, x, t) \in Seq(B)
BY DEF Around

\* Words that are joined are the words of what they make.
LEMMA WordsOfJoined ==
    ASSUME NEW B, Blank \in B, NEW v \in Seq(WordOf(B))
    PROVE  JoinWords(v) \in Seq(B) /\ Words(JoinWords(v)) = v
<1> DEFINE W == WordOf(B)
           S == {r \in Seq(W) : JoinWords(r) \in Seq(B) /\ Words(JoinWords(r)) = r}
<1>0. W \subseteq Seq(B) /\ \A w \in W : Words(w) = <<w>>
  <2>1. W \subseteq Seq(B)
    BY DEF WordOf
  <2> QED BY <2>1, WordsOfWord
<1>1. <<>> \in S
  <2> HIDE DEF W
  <2>1. <<>> \in Seq(W) /\ <<>> \in Seq(B)
    OBVIOUS
  <2> QED BY <2>1, JoinNothing, WordsNothing
<1>2. ASSUME NEW r \in Seq(W), r \in S, NEW w \in W PROVE Append(r, w) \in S
  <2> DEFINE j == JoinWords(r)  T == Seq(B)
  <2>0. j \in Seq(B) /\ Words(j) = r
    BY <1>2
  <2> HIDE DEF W, S, j
  <2>1. Append(r, w) \in Seq(W)
    BY AppendIn
  <2>2. w \in T
    BY <1>0
  <2>3. r \in Seq(T)
    <3>1. W \subseteq T
      BY <1>0
    <3> HIDE DEF T
    <3> QED BY <3>1
  <2>4. JoinWords(Append(r, w)) = IF r = <<>> THEN w ELSE Around(j, Blank, w)
    BY <2>2, <2>3, JoinMore DEF j
  <2>5. CASE r = <<>>
    <3>1. Append(r, w) = <<w>>
      BY <2>5
    <3> QED BY <1>0, <2>1, <2>2, <2>4, <2>5, <3>1 DEF S
  <2>6. CASE r # <<>>
    <3>1. Words(Around(j, Blank, w)) = Words(j) \o Words(w)
      BY <2>0, <2>2, WordsConcat DEF Around
    <3>2. Words(w) = <<w>>
      BY <1>0
    <3>3. r \o <<w>> = Append(r, w)
      OBVIOUS
    <3>4. Around(j, Blank, w) \in Seq(B)
      BY <2>0, <2>2, AroundIn
    <3> QED BY <2>0, <2>1, <2>4, <2>6, <3>1, <3>2, <3>3, <3>4 DEF S
  <2> QED BY <2>5, <2>6
<1> HIDE DEF S
<1>3. \A r \in Seq(W) : r \in S => \A w \in W : Append(r, w) \in S
  BY <1>2
<1> HIDE DEF W
<1>4. v \in S
  <2>1. v \in Seq(W)
    BY DEF W
  <2> QED BY <1>1, <1>3, <2>1, SeqsByAppend
<1> QED BY <1>4 DEF S

----------------------------------------------------------------------------
(* The groups of a clause, from its words.                                 *)

\* F of each element.
MapBy(F, s) == [k \in 1..Len(s) |-> F[s[k]]]

Mapped(F, s, C) ==
    /\ MapBy(F, s) \in Seq(C) /\ Len(MapBy(F, s)) = Len(s)
    /\ \A k \in 1..Len(s) : MapBy(F, s)[k] = F[s[k]]

LEMMA MapByMapped ==
    ASSUME NEW A, NEW C, NEW F \in [A -> C], NEW s \in Seq(A)
    PROVE  Mapped(F, s, C)
<1>1. Len(s) \in Nat /\ \A k \in 1..Len(s) : s[k] \in A
  BY SeqDom
<1> DEFINE f == MapBy(F, s)  n == Len(s)
<1>2. f = [k \in 1..n |-> F[s[k]]]
  BY DEF MapBy
<1>3. \A k \in 1..n : F[s[k]] \in C
  BY <1>1
<1> HIDE DEF f, n
<1>4. f = [k \in 1..n |-> f[k]] /\ \A k \in 1..n : f[k] \in C
  BY <1>2, <1>3
<1>5. n \in Nat
  BY <1>1 DEF n
<1>6. f \in Seq(C)
  BY <1>4, <1>5, SeqIs
<1>7. Len(f) = n
  BY <1>4, <1>5, <1>6
<1>8. \A k \in 1..n : f[k] = F[s[k]]
  BY <1>2
<1> QED BY <1>6, <1>7, <1>8 DEF f, n, Mapped

LEMMA MapByOne ==
    ASSUME NEW A, NEW C, NEW F \in [A -> C], NEW x \in A
    PROVE  MapBy(F, <<x>>) = <<F[x]>>
BY DEF MapBy

MapsParts(F, s, t) == MapBy(F, s \o t) = MapBy(F, s) \o MapBy(F, t)

\* Mapping a concatenation maps its parts.
LEMMA MapByConcat ==
    ASSUME NEW A, NEW C, NEW F \in [A -> C], NEW s \in Seq(A), NEW t \in Seq(A)
    PROVE  MapsParts(F, s, t)
<1> DEFINE u == MapBy(F, s)  v == MapBy(F, t)  w == MapBy(F, s \o t)  m == Len(s)  n == Len(t)
<1>1. /\ s \o t \in Seq(A) /\ Len(s \o t) = m + n /\ m \in Nat /\ n \in Nat
      /\ \A k \in 1..m : (s \o t)[k] = s[k]
      /\ \A k \in 1..n : (s \o t)[m + k] = t[k]
  OBVIOUS
<1>2. /\ u \in Seq(C) /\ Len(u) = m /\ \A k \in 1..m : u[k] = F[s[k]]
      /\ v \in Seq(C) /\ Len(v) = n /\ \A k \in 1..n : v[k] = F[t[k]]
  <2>1. Mapped(F, s, C) /\ Mapped(F, t, C)
    BY MapByMapped
  <2> QED BY <2>1 DEF Mapped
<1>3. w \in Seq(C) /\ Len(w) = m + n /\ \A k \in 1..m+n : w[k] = F[(s \o t)[k]]
  <2> DEFINE r == s \o t
  <2>1. r \in Seq(A) /\ Len(r) = m + n
    BY <1>1
  <2> HIDE DEF r, m, n
  <2>2. Mapped(F, r, C)
    BY <2>1, MapByMapped
  <2>3. MapBy(F, r) \in Seq(C) /\ Len(MapBy(F, r)) = Len(r) /\ \A k \in 1..Len(r) : MapBy(F, r)[k] = F[r[k]]
    BY <2>2 DEF Mapped
  <2> QED BY <2>1, <2>3 DEF r
<1> HIDE DEF u, v, w, m, n
<1>4. u \o v \in Seq(C) /\ Len(u \o v) = m + n
      /\ (\A k \in 1..m : (u \o v)[k] = u[k]) /\ (\A k \in 1..n : (u \o v)[m + k] = v[k])
  BY <1>1, <1>2
<1>5. ASSUME NEW k \in 1..m+n PROVE w[k] = (u \o v)[k]
  <2>1. CASE k \in 1..m
    <3>1. w[k] = F[(s \o t)[k]] /\ (s \o t)[k] = s[k]
      BY <1>1, <1>3, <2>1
    <3>2. (u \o v)[k] = u[k] /\ u[k] = F[s[k]]
      BY <1>2, <1>4, <2>1
    <3> QED BY <3>1, <3>2
  <2>2. CASE k \notin 1..m
    <3>1. PICK i \in 1..n : k = m + i
      <4>1. k - m \in 1..n /\ k = m + (k - m)
        BY <1>1, <2>2
      <4> QED BY <4>1
    <3>2. w[k] = F[(s \o t)[k]] /\ (s \o t)[k] = t[i]
      BY <1>1, <1>3, <3>1
    <3>3. (u \o v)[k] = v[i] /\ v[i] = F[t[i]]
      BY <1>2, <1>4, <3>1
    <3> QED BY <3>2, <3>3
  <2> QED BY <2>1, <2>2
<1>6. w = u \o v
  <2> DEFINE z == u \o v
  <2>1. z \in Seq(C) /\ Len(z) = m + n /\ \A k \in 1..m+n : w[k] = z[k]
    BY <1>4, <1>5
  <2> HIDE DEF z
  <2>2. w = z
    BY <1>1, <1>3, <2>1
  <2> QED BY <2>2 DEF z
<1> QED BY <1>6 DEF u, v, w, MapsParts

----------------------------------------------------------------------------
\* The conditions of a list of words, joined at "and", and the groups of one that is
\* joined at "or".
CondOf(B) == [p \in Seq(WordOf(B)) |-> ParseFieldCond(JoinWords(p))]
CondsAt(B, v) == MapBy(CondOf(B), Split(v, <<"and">>))
GroupOf(B) == [p \in Seq(WordOf(B)) |-> CondsAt(B, p)]
GroupsAt(B, v) == MapBy(GroupOf(B), Split(v, <<"or">>))
CondsOf(B) == {ParseFieldCond(JoinWords(p)) : p \in Seq(WordOf(B))}

LEMMA PiecesIn ==
    ASSUME NEW A, NEW v \in Seq(A), NEW x
    PROVE  /\ Split(v, x) \in Seq(Seq(A)) /\ Split(v, x) # <<>> /\ Len(Split(v, x)) \in Nat
           /\ DOMAIN Split(v, x) = 1..Len(Split(v, x))
           /\ \A k \in 1..Len(Split(v, x)) : Split(v, x)[k] \in Seq(A)
<1> DEFINE p == Split(v, x)  C == Seq(A \ {x})  D == Seq(A)
<1>1. p \in Seq(C) /\ p # <<>>
  BY SplitIn
<1>2. C \subseteq D
  OBVIOUS
<1> HIDE DEF p, C, D
<1>3. p \in Seq(D)
  BY <1>1, <1>2
<1>4. Len(p) \in Nat /\ DOMAIN p = 1..Len(p) /\ \A k \in 1..Len(p) : p[k] \in D
  BY <1>3, SeqDom
<1> QED BY <1>1, <1>3, <1>4 DEF p, D

LEMMA CondsAtIn ==
    ASSUME NEW B, NEW v \in Seq(WordOf(B))
    PROVE  /\ CondOf(B) \in [Seq(WordOf(B)) -> CondsOf(B)]
           /\ CondsAt(B, v) \in Seq(CondsOf(B))
<1> DEFINE W == WordOf(B)  D == Seq(W)
<1>1. CondOf(B) \in [D -> CondsOf(B)]
  <2> HIDE DEF W
  <2> QED BY DEF CondOf, CondsOf, W
<1>2. Split(v, <<"and">>) \in Seq(D)
  BY PiecesIn
<1> HIDE DEF D
<1>3. CondsAt(B, v) \in Seq(CondsOf(B))
  BY <1>1, <1>2, MapByMapped DEF CondsAt, Mapped
<1> QED BY <1>1, <1>3 DEF D

LEMMA GroupsAtIn ==
    ASSUME NEW B, NEW v \in Seq(WordOf(B))
    PROVE  /\ GroupOf(B) \in [Seq(WordOf(B)) -> Seq(CondsOf(B))]
           /\ GroupsAt(B, v) \in Seq(Seq(CondsOf(B))) /\ GroupsAt(B, v) # <<>>
<1> DEFINE D == Seq(WordOf(B))  C == Seq(CondsOf(B))  p == Split(v, <<"or">>)
<1>1. GroupOf(B) \in [D -> C]
  <2>1. \A q \in D : CondsAt(B, q) \in C
    BY CondsAtIn
  <2> HIDE DEF D, C
  <2> QED BY <2>1 DEF GroupOf, D
<1>2. p \in Seq(D) /\ p # <<>>
  BY PiecesIn
<1> HIDE DEF D, C, p
<1>3. GroupsAt(B, v) = MapBy(GroupOf(B), p)
  BY DEF GroupsAt, p
<1>4. MapBy(GroupOf(B), p) \in Seq(C) /\ Len(MapBy(GroupOf(B), p)) = Len(p)
  BY <1>1, <1>2, MapByMapped DEF Mapped
<1>5. Len(p) # 0
  BY <1>2
<1>6. GroupsAt(B, v) # <<>>
  BY <1>3, <1>4, <1>5
<1> QED BY <1>1, <1>3, <1>4, <1>6 DEF D, C

\* The groups of a clause are those of its words.
LEMMA KeywordParts ==
    ASSUME NEW B, Blank \in B, NEW s, NEW v \in Seq(WordOf(B)), Words(s) = v, NEW kw
    PROVE  SplitKeyword(s, kw) =
              [k \in 1..Len(Split(v, <<kw>>)) |-> JoinWords(Split(v, <<kw>>)[k])]
<1>1. DOMAIN Split(v, <<kw>>) = 1..Len(Split(v, <<kw>>))
  BY PiecesIn
<1> QED BY <1>1 DEF SplitKeyword, JoinEach

LEMMA ConditionsAre ==
    ASSUME NEW B, Blank \in B, NEW s, NEW v \in Seq(WordOf(B)), Words(s) = v
    PROVE  Conditions(SplitKeyword(s, "and")) = CondsAt(B, v)
<1> DEFINE p == Split(v, <<"and">>)  n == Len(p)
<1>1. n \in Nat /\ \A k \in 1..n : p[k] \in Seq(WordOf(B))
  BY PiecesIn
<1>2. SplitKeyword(s, "and") = [k \in 1..n |-> JoinWords(p[k])]
  BY KeywordParts
<1> HIDE DEF p, n
<1>3. Conditions(SplitKeyword(s, "and")) = [k \in 1..n |-> ParseFieldCond(JoinWords(p[k]))]
  BY <1>2 DEF Conditions
<1>4. \A k \in 1..n : CondOf(B)[p[k]] = ParseFieldCond(JoinWords(p[k]))
  BY <1>1 DEF CondOf
<1>5. CondsAt(B, v) = [k \in 1..n |-> CondOf(B)[p[k]]]
  BY DEF CondsAt, MapBy, p, n
<1> QED BY <1>3, <1>4, <1>5

LEMMA GroupsAre ==
    ASSUME NEW B, Blank \in B, NEW s, NEW v \in Seq(WordOf(B)), Words(s) = v
    PROVE  Groups(s) = GroupsAt(B, v)
<1> DEFINE p == Split(v, <<"or">>)  n == Len(p)
<1>1. n \in Nat /\ \A k \in 1..n : p[k] \in Seq(WordOf(B))
  BY PiecesIn
<1>2. SplitKeyword(s, "or") = [k \in 1..n |-> JoinWords(p[k])]
  BY KeywordParts
<1> HIDE DEF p, n
<1>3. Groups(s) = [k \in 1..n |-> Conditions(SplitKeyword(JoinWords(p[k]), "and"))]
  BY <1>2 DEF Groups, GroupsOf
<1>4. \A k \in 1..n : Conditions(SplitKeyword(JoinWords(p[k]), "and")) = GroupOf(B)[p[k]]
  <2> SUFFICES ASSUME NEW k \in 1..n
               PROVE  Conditions(SplitKeyword(JoinWords(p[k]), "and")) = GroupOf(B)[p[k]]
    OBVIOUS
  <2>1. p[k] \in Seq(WordOf(B))
    BY <1>1
  <2>2. Words(JoinWords(p[k])) = p[k]
    BY <2>1, WordsOfJoined
  <2>3. Conditions(SplitKeyword(JoinWords(p[k]), "and")) = CondsAt(B, p[k])
    BY <2>1, <2>2, ConditionsAre
  <2> QED BY <2>1, <2>3 DEF GroupOf
<1>5. GroupsAt(B, v) = [k \in 1..n |-> GroupOf(B)[p[k]]]
  BY DEF GroupsAt, MapBy, p, n
<1> QED BY <1>3, <1>4, <1>5

LEMMA GroupsOfJoined ==
    ASSUME NEW B, Blank \in B, NEW v \in Seq(WordOf(B))
    PROVE  Groups(JoinWords(v)) = GroupsAt(B, v)
BY WordsOfJoined, GroupsAre

\* Words put together at "or" and at "and".
LEMMA GroupsOr ==
    ASSUME NEW B, NEW u \in Seq(WordOf(B)), NEW w \in Seq(WordOf(B)), <<"or">> \in WordOf(B)
    PROVE  GroupsAt(B, Around(u, <<"or">>, w)) = GroupsAt(B, u) \o GroupsAt(B, w)
<1> DEFINE W == WordOf(B)  D == Seq(W)  x == <<"or">>  p == Split(u, x)  q == Split(w, x)
<1>1. Split(Around(u, x, w), x) = p \o q
  <2> HIDE DEF x, W
  <2> QED BY SplitConcat DEF x, W
<1>2. p \in Seq(D) /\ q \in Seq(D)
  BY PiecesIn
<1>3. GroupOf(B) \in [D -> Seq(CondsOf(B))]
  BY GroupsAtIn
<1> DEFINE F == GroupOf(B)  C == Seq(CondsOf(B))
<1> HIDE DEF D, p, q, F, C
<1>5. F \in [D -> C]
  BY <1>3 DEF F, C
<1>4. MapBy(F, p \o q) = MapBy(F, p) \o MapBy(F, q)
  <2>1. MapsParts(F, p, q)
    BY <1>2, <1>5, MapByConcat
  <2> QED BY <2>1 DEF MapsParts
<1> QED BY <1>1, <1>4 DEF GroupsAt, p, q, F

LEMMA CondsAnd ==
    ASSUME NEW B, NEW u \in Seq(WordOf(B)), NEW w \in Seq(WordOf(B)), <<"and">> \in WordOf(B)
    PROVE  CondsAt(B, Around(u, <<"and">>, w)) = CondsAt(B, u) \o CondsAt(B, w)
<1> DEFINE W == WordOf(B)  D == Seq(W)  x == <<"and">>  p == Split(u, x)  q == Split(w, x)
<1>1. Split(Around(u, x, w), x) = p \o q
  <2> HIDE DEF x, W
  <2> QED BY SplitConcat DEF x, W
<1>2. p \in Seq(D) /\ q \in Seq(D)
  BY PiecesIn
<1>3. CondOf(B) \in [D -> CondsOf(B)]
  BY CondsAtIn
<1> DEFINE F == CondOf(B)  C == CondsOf(B)
<1> HIDE DEF D, p, q, F, C
<1>5. F \in [D -> C]
  BY <1>3 DEF F, C
<1>4. MapBy(F, p \o q) = MapBy(F, p) \o MapBy(F, q)
  <2>1. MapsParts(F, p, q)
    BY <1>2, <1>5, MapByConcat
  <2> QED BY <2>1 DEF MapsParts
<1> QED BY <1>1, <1>4 DEF CondsAt, p, q, F

\* Without an "or", there is one group.
LEMMA GroupsOne ==
    ASSUME NEW B, NEW v \in Seq(WordOf(B) \ {<<"or">>})
    PROVE  GroupsAt(B, v) = <<CondsAt(B, v)>>
<1> DEFINE W == WordOf(B)  D == Seq(W)  x == <<"or">>
<1>1. Split(v, x) = <<v>>
  <2> DEFINE A == W \ {x}
  <2>1. x \notin A /\ v \in Seq(A)
    OBVIOUS
  <2> HIDE DEF A, x
  <2> QED BY <2>1, SplitWhole
<1>2. v \in D
  OBVIOUS
<1>3. GroupOf(B) \in [D -> Seq(CondsOf(B))]
  BY <1>2, GroupsAtIn
<1>4. GroupOf(B)[v] = CondsAt(B, v)
  BY <1>2 DEF GroupOf
<1> HIDE DEF D
<1>5. MapBy(GroupOf(B), <<v>>) = <<GroupOf(B)[v]>>
  BY <1>2, <1>3, MapByOne
<1> QED BY <1>1, <1>4, <1>5 DEF GroupsAt

----------------------------------------------------------------------------
(* What a filter keeps, from its groups.                                   *)

\* A line passes a group, and the lines that pass one of the groups.
PassesGroup(g, sep, line) ==
    \A j \in DOMAIN g : Eval(g[j], line, FieldsBy(sep, TextsOf(From(line, MessageStart(line) + 1))))
Shown(gs, sep) == {line \in LogLines : \E k \in DOMAIN gs : PassesGroup(gs[k], sep, line)}
BrokenAny(gs) == \E k \in DOMAIN gs : Broken(gs[k])

\* A filter keeps the lines that pass one of its groups, and every line without any.
LEMMA KeptIs ==
    ASSUME NEW f
    PROVE  KeptBy(f) = IF f.ors = <<>> THEN LogLines ELSE Shown(f.ors, f.sep)
<1>1. \A line : PassesGroup(line, f.sep, line) = PassesGroup(line, f.sep, line)
  OBVIOUS
<1>2. \A line, k : PassesGroup(f.ors[k], f.sep, line) <=>
                      \A j \in DOMAIN f.ors[k] : Eval(f.ors[k][j], line, FieldsOf(f, line))
  BY DEF PassesGroup, FieldsOf
<1>3. \A line : Keep(f, line) <=>
                   (f.ors # <<>> => \E k \in DOMAIN f.ors : PassesGroup(f.ors[k], f.sep, line))
  BY <1>2 DEF Keep, Active
<1>4. KeptBy(f) = {line \in LogLines : Keep(f, line)}
  BY DEF KeptBy
<1>5. CASE f.ors = <<>>
  <2>1. \A line : Keep(f, line)
    BY <1>3, <1>5
  <2>2. KeptBy(f) = LogLines
    BY <1>4, <2>1
  <2> QED BY <1>5, <2>2
<1>6. CASE f.ors # <<>>
  <2>1. \A line : Keep(f, line) <=> \E k \in DOMAIN f.ors : PassesGroup(f.ors[k], f.sep, line)
    BY <1>3, <1>6
  <2>2. KeptBy(f) = Shown(f.ors, f.sep)
    BY <1>4, <2>1 DEF Shown
  <2> QED BY <1>6, <2>2
<1> QED BY <1>5, <1>6

\* The elements of a concatenation.
HasElements(u, g, h) ==
    /\ \A k \in DOMAIN u : (\E j \in DOMAIN g : u[k] = g[j]) \/ (\E j \in DOMAIN h : u[k] = h[j])
    /\ \A j \in DOMAIN g : \E k \in DOMAIN u : u[k] = g[j]
    /\ \A j \in DOMAIN h : \E k \in DOMAIN u : u[k] = h[j]

LEMMA ConcatElements ==
    ASSUME NEW C, NEW g \in Seq(C), NEW h \in Seq(C)
    PROVE  HasElements(g \o h, g, h)
<1> DEFINE u == g \o h  m == Len(g)  n == Len(h)
<1>1. /\ DOMAIN u = 1..m+n /\ DOMAIN g = 1..m /\ DOMAIN h = 1..n /\ m \in Nat /\ n \in Nat
      /\ \A k \in 1..m : u[k] = g[k]
      /\ \A k \in 1..n : u[m + k] = h[k]
  OBVIOUS
<1> HIDE DEF u, m, n
<1>2. ASSUME NEW k \in DOMAIN u
      PROVE  (\E j \in DOMAIN g : u[k] = g[j]) \/ (\E j \in DOMAIN h : u[k] = h[j])
  <2>1. CASE k \in 1..m
    BY <1>1, <2>1
  <2>2. CASE k \notin 1..m
    <3>1. k - m \in 1..n /\ k = m + (k - m)
      BY <1>1, <2>2
    <3>2. u[k] = h[k - m]
      BY <1>1, <3>1
    <3> QED BY <1>1, <3>1, <3>2
  <2> QED BY <2>1, <2>2
<1>3. ASSUME NEW j \in DOMAIN g PROVE \E k \in DOMAIN u : u[k] = g[j]
  <2>1. j \in DOMAIN u
    BY <1>1
  <2> QED BY <1>1, <2>1
<1>4. ASSUME NEW j \in DOMAIN h PROVE \E k \in DOMAIN u : u[k] = h[j]
  <2>1. m + j \in DOMAIN u
    BY <1>1
  <2> QED BY <1>1, <2>1
<1> QED BY <1>2, <1>3, <1>4 DEF u, HasElements

\* More groups show more lines, and break if one of them does.
LEMMA ShownConcat ==
    ASSUME NEW C, NEW g \in Seq(C), NEW h \in Seq(C), NEW sep
    PROVE  /\ Shown(g \o h, sep) = Shown(g, sep) \cup Shown(h, sep)
           /\ BrokenAny(g \o h) <=> BrokenAny(g) \/ BrokenAny(h)
<1> DEFINE u == g \o h
<1>1. /\ \A k \in DOMAIN u :
            \/ \E j \in DOMAIN g : u[k] = g[j]
            \/ \E j \in DOMAIN h : u[k] = h[j]
      /\ \A j \in DOMAIN g : \E k \in DOMAIN u : u[k] = g[j]
      /\ \A j \in DOMAIN h : \E k \in DOMAIN u : u[k] = h[j]
  <2>1. HasElements(u, g, h)
    BY ConcatElements
  <2> QED BY <2>1 DEF HasElements
<1> HIDE DEF u
<1>2. \A line : (\E k \in DOMAIN u : PassesGroup(u[k], sep, line)) <=>
                   \/ \E k \in DOMAIN g : PassesGroup(g[k], sep, line)
                   \/ \E k \in DOMAIN h : PassesGroup(h[k], sep, line)
  BY <1>1
<1>3. Shown(u, sep) = Shown(g, sep) \cup Shown(h, sep)
  BY <1>2 DEF Shown
<1>4. BrokenAny(u) <=> BrokenAny(g) \/ BrokenAny(h)
  BY <1>1 DEF BrokenAny
<1> QED BY <1>3, <1>4 DEF u

ShowsBoth(u, g, h, sep) ==
    /\ Shown(<<u>>, sep) = Shown(<<g>>, sep) \cap Shown(<<h>>, sep)
    /\ BrokenAny(<<u>>) <=> BrokenAny(<<g>>) \/ BrokenAny(<<h>>)

LEMMA ShownBoth ==
    ASSUME NEW C, NEW g \in Seq(C), NEW h \in Seq(C), NEW sep
    PROVE  ShowsBoth(g \o h, g, h, sep)
<1> DEFINE u == g \o h
<1>1. /\ \A k \in DOMAIN u :
            \/ \E j \in DOMAIN g : u[k] = g[j]
            \/ \E j \in DOMAIN h : u[k] = h[j]
      /\ \A j \in DOMAIN g : \E k \in DOMAIN u : u[k] = g[j]
      /\ \A j \in DOMAIN h : \E k \in DOMAIN u : u[k] = h[j]
  <2>1. HasElements(u, g, h)
    BY ConcatElements
  <2> QED BY <2>1 DEF HasElements
<1>2. \A x : DOMAIN <<x>> = {1} /\ <<x>>[1] = x
  OBVIOUS
<1> HIDE DEF u
<1>3. \A line : PassesGroup(u, sep, line) <=> PassesGroup(g, sep, line) /\ PassesGroup(h, sep, line)
  BY <1>1 DEF PassesGroup
<1>4. Broken(u) <=> Broken(g) \/ Broken(h)
  BY <1>1 DEF Broken
<1>5. \A x : Shown(<<x>>, sep) = {line \in LogLines : PassesGroup(x, sep, line)}
  BY <1>2 DEF Shown
<1>6. \A x : BrokenAny(<<x>>) <=> Broken(x)
  BY <1>2 DEF BrokenAny
<1>7. Shown(<<u>>, sep) = Shown(<<g>>, sep) \cap Shown(<<h>>, sep)
  BY <1>3, <1>5
<1>8. BrokenAny(<<u>>) <=> BrokenAny(<<g>>) \/ BrokenAny(<<h>>)
  BY <1>4, <1>6
<1> QED BY <1>7, <1>8 DEF u, ShowsBoth

\* A filter, from its groups.
LEMMA FilterIs ==
    ASSUME NEW gs, gs # <<>>, NEW sep
    PROVE  LET f == FilterOf(gs, sep)
           IN  /\ (f.bad <=> BrokenAny(gs))
               /\ f.sep = sep
               /\ f.bad => f.ors = <<>> /\ KeptBy(f) = LogLines
               /\ ~f.bad => f.ors = gs /\ KeptBy(f) = Shown(gs, sep)
<1> DEFINE f == FilterOf(gs, sep)
<1>1. CASE BrokenAny(gs)
  <2>1. f = [BadFilter EXCEPT !.sep = sep]
    BY <1>1 DEF FilterOf, BrokenAny
  <2>2. f.bad = TRUE /\ f.ors = <<>> /\ f.sep = sep
    BY <2>1 DEF BadFilter, NoFilter
  <2> HIDE DEF f
  <2>3. KeptBy(f) = LogLines
    BY <2>2, KeptIs
  <2> QED BY <1>1, <2>2, <2>3 DEF f
<1>2. CASE ~BrokenAny(gs)
  <2>1. f = [bad |-> FALSE, ors |-> gs, sep |-> sep]
    BY <1>2 DEF FilterOf, BrokenAny
  <2>2. f.bad = FALSE /\ f.ors = gs /\ f.sep = sep
    BY <2>1
  <2> HIDE DEF f
  <2>3. KeptBy(f) = Shown(gs, sep)
    BY <2>2, KeptIs
  <2> QED BY <1>2, <2>2, <2>3 DEF f
<1> QED BY <1>1, <1>2

\* A sequence, put together at one of its elements.
LEMMA AroundAt ==
    ASSUME NEW A, NEW ws \in Seq(A), NEW k \in 1..Len(ws)
    PROVE  /\ Upto(ws, k - 1) \in Seq(A) /\ From(ws, k + 1) \in Seq(A) /\ ws[k] \in A
           /\ Len(Upto(ws, k - 1)) = k - 1 /\ Len(From(ws, k + 1)) = Len(ws) - k
           /\ \A j \in 1..k-1 : Upto(ws, k - 1)[j] = ws[j]
           /\ \A j \in 1..Len(ws)-k : From(ws, k + 1)[j] = ws[k + j]
           /\ ws = Around(Upto(ws, k - 1), ws[k], From(ws, k + 1))
<1> DEFINE n == Len(ws)  u == SubSeq(ws, 1, k-1)  w == SubSeq(ws, k+1, n)
<1>1. n \in Nat /\ ws[k] \in A /\ DOMAIN ws = 1..n
  OBVIOUS
<1>2. Upto(ws, k - 1) = u /\ From(ws, k + 1) = w
  BY <1>1 DEF Upto, From
<1>3. u \in Seq(A) /\ Len(u) = k - 1 /\ \A j \in 1..k-1 : u[j] = ws[j]
  BY <1>1
<1>4. w \in Seq(A) /\ Len(w) = n - k /\ \A j \in 1..n-k : w[j] = ws[k + j]
  <2>1. k + 1 \in 1..n+1
    BY <1>1
  <2>2. w = [i \in 1..n-k |-> ws[i + (k+1) - 1]]
    BY <1>1
  <2>3. \A i \in 1..n-k : i + (k+1) - 1 = k + i /\ k + i \in 1..n
    BY <1>1
  <2>4. \A i \in 1..n-k : w[i] = ws[k + i] /\ ws[k + i] \in A
    <3>1. \A i \in 1..n : ws[i] \in A
      OBVIOUS
    <3> HIDE DEF w, n
    <3> QED BY <2>2, <2>3, <3>1
  <2>5. n - k \in Nat /\ w = [i \in 1..n-k |-> w[i]]
    BY <1>1, <2>2
  <2>6. \A i \in 1..n-k : w[i] \in A
    BY <2>4
  <2> HIDE DEF w, n
  <2>7. w \in Seq(A)
    BY <2>5, <2>6, SeqIs
  <2>8. Len(w) = n - k
    BY <2>5, <2>7
  <2> QED BY <2>4, <2>7, <2>8
<1> HIDE DEF u, w
<1>5. ws = Around(u, ws[k], w)
  <2> DEFINE a == u \o <<ws[k]>>  z == a \o w
  <2>1. a \in Seq(A) /\ Len(a) = k /\ (\A j \in 1..k-1 : a[j] = ws[j]) /\ a[k] = ws[k]
    BY <1>1, <1>3
  <2> HIDE DEF a
  <2>2. z \in Seq(A) /\ Len(z) = n /\ (\A j \in 1..k : z[j] = a[j]) /\ (\A j \in 1..n-k : z[k + j] = w[j])
    <3>1. \A p, q \in Seq(A) :
             /\ p \o q \in Seq(A) /\ Len(p \o q) = Len(p) + Len(q)
             /\ \A j \in 1..Len(p) : (p \o q)[j] = p[j]
             /\ \A j \in 1..Len(q) : (p \o q)[Len(p) + j] = q[j]
      OBVIOUS
    <3>2. a \in Seq(A) /\ w \in Seq(A) /\ Len(a) = k /\ Len(w) = n - k /\ k + (n - k) = n
      BY <1>1, <1>4, <2>1
    <3> HIDE DEF n
    <3>3. /\ z \in Seq(A) /\ Len(z) = Len(a) + Len(w)
          /\ \A j \in 1..Len(a) : z[j] = a[j]
          /\ \A j \in 1..Len(w) : z[Len(a) + j] = w[j]
      BY <3>1, <3>2
    <3> HIDE DEF z
    <3> QED BY <3>2, <3>3
  <2> HIDE DEF z, n
  <2>3. ASSUME NEW i \in 1..n PROVE z[i] = ws[i]
    <3>1. CASE i \in 1..k-1
      <4>1. i \in 1..k
        BY <3>1
      <4> QED BY <2>1, <2>2, <3>1, <4>1
    <3>2. CASE i = k
      <4>1. k \in 1..k
        BY <3>2
      <4> QED BY <2>1, <2>2, <3>2, <4>1
    <3>3. CASE i \in k+1..n
      <4>1. i - k \in 1..n-k /\ k + (i - k) = i
        BY <1>1, <3>3
      <4>2. z[k + (i - k)] = w[i - k] /\ w[i - k] = ws[k + (i - k)]
        BY <1>4, <2>2, <4>1
      <4> QED BY <4>1, <4>2
    <3>4. k \in 1..n
      BY DEF n
    <3> QED BY <1>1, <3>1, <3>2, <3>3, <3>4
  <2>4. z = ws
    <3>1. ws \in Seq(A) /\ Len(ws) = n
      BY DEF n
    <3> QED BY <1>1, <2>2, <2>3, <3>1
  <2> QED BY <2>4 DEF z, a, Around
<1> QED BY <1>1, <1>2, <1>3, <1>4, <1>5 DEF n

\* A part of the words, as a filter.
LEMMA PartIs ==
    ASSUME NEW B, Blank \in B, NEW v \in Seq(WordOf(B)), NEW sep
    PROVE  Part(v, sep) = FilterOf(GroupsAt(B, v), sep)
BY GroupsOfJoined DEF Part

\* A list of words shows what its parts show, wherever it is joined.
LEMMA FilterShows ==
    ASSUME NEW B, Blank \in B, NEW ws \in Seq(WordOf(B)), NEW sep
    PROVE  ShowsWhatPartsShow(FilterOf(GroupsAt(B, ws), sep), ws)
<1> DEFINE W == WordOf(B)
           C == CondsOf(B)
           gs == GroupsAt(B, ws)
           f == FilterOf(gs, sep)
<1>1. gs \in Seq(Seq(C)) /\ gs # <<>>
  BY GroupsAtIn
<1>2. /\ (f.bad <=> BrokenAny(gs))
      /\ f.sep = sep
      /\ f.bad => KeptBy(f) = LogLines
      /\ ~f.bad => KeptBy(f) = Shown(gs, sep)
  <2> HIDE DEF gs
  <2> QED BY <1>1, FilterIs
<1>3. ASSUME NEW k \in Joints(ws), ~f.bad
      PROVE  KeptBy(f) = KeptJoined(Part(Upto(ws, k - 1), sep), Part(From(ws, k + 1), sep), ws[k][1])
  <2> DEFINE u == Upto(ws, k - 1)
             w == From(ws, k + 1)
             gu == GroupsAt(B, u)
             gw == GroupsAt(B, w)
             l == Part(u, sep)
             r == Part(w, sep)
  <2>1. k \in 1..Len(ws) /\ (ws[k] = <<"or">> \/ (At(ws, "or") = {} /\ ws[k] = <<"and">>))
    <3>1. DOMAIN ws = 1..Len(ws)
      OBVIOUS
    <3> QED BY <1>3, <3>1 DEF Joints, At
  <2>2. u \in Seq(W) /\ w \in Seq(W) /\ ws[k] \in W /\ ws = Around(u, ws[k], w)
    BY <2>1, AroundAt
  <2> HIDE DEF u, w
  <2>3. gu \in Seq(Seq(C)) /\ gu # <<>> /\ gw \in Seq(Seq(C)) /\ gw # <<>>
    BY <2>2, GroupsAtIn
  <2>4. l = FilterOf(gu, sep) /\ r = FilterOf(gw, sep)
    BY <2>2, PartIs
  <2> DEFINE fu == FilterOf(gu, sep)  fw == FilterOf(gw, sep)
  <2>5. /\ (fu.bad <=> BrokenAny(gu)) /\ (~fu.bad => KeptBy(fu) = Shown(gu, sep))
        /\ (fw.bad <=> BrokenAny(gw)) /\ (~fw.bad => KeptBy(fw) = Shown(gw, sep))
    <3> HIDE DEF gu, gw
    <3> QED BY <2>3, FilterIs
  <2>6. ~BrokenAny(gs) /\ KeptBy(f) = Shown(gs, sep)
    BY <1>2, <1>3
  <2> HIDE DEF f, fu, fw, l, r
  <2>7. CASE ws[k] = <<"or">>
    <3>1. ws = Around(u, <<"or">>, w) /\ <<"or">> \in W
      BY <2>2, <2>7
    <3>2. gs = gu \o gw
      <4>1. GroupsAt(B, Around(u, <<"or">>, w)) = GroupsAt(B, u) \o GroupsAt(B, w)
        BY <2>2, <3>1, GroupsOr
      <4> QED BY <3>1, <4>1
    <3> DEFINE T == Seq(C)
    <3>3. gu \in Seq(T) /\ gw \in Seq(T)
      BY <2>3
    <3> HIDE DEF gs, gu, gw, T
    <3>4. /\ Shown(gs, sep) = Shown(gu, sep) \cup Shown(gw, sep)
          /\ BrokenAny(gs) <=> BrokenAny(gu) \/ BrokenAny(gw)
      BY <3>2, <3>3, ShownConcat
    <3>5. ~fu.bad /\ ~fw.bad
      BY <2>5, <2>6, <3>4
    <3>6. KeptBy(f) = KeptBy(l) \cup KeptBy(r) /\ ~l.bad /\ ~r.bad
      BY <2>4, <2>5, <2>6, <3>4, <3>5 DEF fu, fw
    <3>7. ws[k][1] = "or"
      BY <2>7
    <3> QED BY <3>6, <3>7 DEF KeptJoined, l, r, u, w
  <2>8. CASE ws[k] # <<"or">>
    <3>1. ws = Around(u, <<"and">>, w) /\ <<"and">> \in W /\ ws[k][1] = "and" /\ At(ws, "or") = {}
      BY <2>1, <2>2, <2>8
    <3> DEFINE V == W \ {<<"or">>}
    <3>2. ws \in Seq(V)
      <4>1. \A j \in 1..Len(ws) : ws[j] \in V
        <5>1. \A j \in 1..Len(ws) : ws[j] \in W
          BY SeqDom
        <5>2. DOMAIN ws = 1..Len(ws)
          BY SeqDom
        <5> QED BY <3>1, <5>1, <5>2 DEF At
      <4>2. ws = [j \in 1..Len(ws) |-> ws[j]] /\ Len(ws) \in Nat
        BY SeqDom
      <4> HIDE DEF V, W
      <4> QED BY <4>1, <4>2, SeqIs
    <3>3. u \in Seq(V) /\ w \in Seq(V)
      <4> HIDE DEF V
      <4> QED BY <2>1, <3>2, AroundAt DEF u, w
    <3> DEFINE cs == CondsAt(B, ws)  cu == CondsAt(B, u)  cw == CondsAt(B, w)
    <3>4. gs = <<cs>> /\ gu = <<cu>> /\ gw = <<cw>>
      BY <3>2, <3>3, GroupsOne
    <3>5. cs = cu \o cw
      <4>1. CondsAt(B, Around(u, <<"and">>, w)) = CondsAt(B, u) \o CondsAt(B, w)
        BY <2>2, <3>1, CondsAnd
      <4> QED BY <3>1, <4>1
    <3>6. cu \in Seq(C) /\ cw \in Seq(C)
      BY <2>2, CondsAtIn
    <3> HIDE DEF gs, gu, gw, cs, cu, cw
    <3>7. /\ Shown(<<cs>>, sep) = Shown(<<cu>>, sep) \cap Shown(<<cw>>, sep)
          /\ BrokenAny(<<cs>>) <=> BrokenAny(<<cu>>) \/ BrokenAny(<<cw>>)
      <4>1. ShowsBoth(cu \o cw, cu, cw, sep)
        BY <3>6, ShownBoth
      <4> QED BY <3>5, <4>1 DEF ShowsBoth
    <3>8. ~fu.bad /\ ~fw.bad
      BY <2>5, <2>6, <3>4, <3>7
    <3>9. KeptBy(f) = KeptBy(l) \cap KeptBy(r) /\ ~l.bad /\ ~r.bad
      BY <2>4, <2>5, <2>6, <3>4, <3>7, <3>8 DEF fu, fw
    <3> QED BY <3>1, <3>9 DEF KeptJoined, l, r, u, w
  <2> QED BY <2>7, <2>8 DEF f
<1> HIDE DEF f
<1>4. \A k \in Joints(ws) : ~f.bad =>
         KeptBy(f) = KeptJoined(Part(Upto(ws, k - 1), f.sep), Part(From(ws, k + 1), f.sep), ws[k][1])
  BY <1>2, <1>3
<1> QED BY <1>2, <1>4 DEF ShowsWhatPartsShow, f

----------------------------------------------------------------------------
(* Stretches of texts: what the input is cut into are texts.               *)

LEMMA MinIs ==
    ASSUME NEW T \in SUBSET Nat, T # {}
    PROVE  Min(T) \in T /\ \A y \in T : Min(T) <= y
<1>1. \E x \in T : \A y \in T : x <= y
  BY LeastNumber
<1> QED BY <1>1 DEF Min

LEMMA MaxIs ==
    ASSUME NEW m \in Nat, NEW T \in SUBSET (0..m), T # {}
    PROVE  Max(T) \in T /\ \A y \in T : y <= Max(T)
<1>1. \E x \in T : \A y \in T : y <= x
  BY GreatestNumber
<1>2. \E x \in T : \A y \in T : x >= y
  BY <1>1
<1>3. Max(T) \in T /\ \A y \in T : Max(T) >= y
  BY <1>2 DEF Max
<1> QED BY <1>3

\* A stretch of a text, and texts that are cut off at one end.
LEMMA StretchIn ==
    ASSUME NEW B, NEW s \in Seq(B), NEW i \in 1..Len(s)+1, NEW j \in 0..Len(s)
    PROVE  SubSeq(s, i, j) \in Seq(B)
OBVIOUS

LEMMA FromIn ==
    ASSUME NEW B, NEW s \in Seq(B), NEW i \in 1..Len(s)+1
    PROVE  From(s, i) \in Seq(B)
BY DEF From

LEMMA UptoIn ==
    ASSUME NEW B, NEW s \in Seq(B), NEW i \in 0..Len(s)
    PROVE  Upto(s, i) \in Seq(B) /\ Upto(s, i) = SubSeq(s, 1, i)
<1>1. Upto(s, i) = SubSeq(s, 1, i)
  BY DEF Upto
<1> QED BY <1>1

\* What is left when the ends are trimmed.
LEMMA TrimOfIs ==
    ASSUME NEW B, NEW s \in Seq(B), NEW C
    PROVE  \/ TrimOf(s, C) = <<>> /\ \A k \in 1..Len(s) : s[k] \in C
           \/ \E i \in 1..Len(s), j \in 1..Len(s) :
                 /\ i <= j /\ TrimOf(s, C) = SubSeq(s, i, j)
                 /\ \A k \in 1..Len(s) : k < i \/ k > j => s[k] \in C
<1> DEFINE kept == {k \in DOMAIN s : s[k] \notin C}
<1>1. DOMAIN s = 1..Len(s) /\ Len(s) \in Nat
  BY SeqDom
<1>2. TrimOf(s, C) = IF kept = {} THEN <<>> ELSE SubSeq(s, Min(kept), Max(kept))
  BY DEF TrimOf
<1>3. kept \in SUBSET (1..Len(s)) /\ \A k \in 1..Len(s) : k \notin kept => s[k] \in C
  BY <1>1
<1> HIDE DEF kept
<1>4. CASE kept = {}
  BY <1>2, <1>3, <1>4
<1>5. CASE kept # {}
  <2>1. kept \in SUBSET Nat /\ kept \in SUBSET (0..Len(s))
    BY <1>3
  <2>2. Min(kept) \in kept /\ \A y \in kept : Min(kept) <= y
    BY <1>5, <2>1, MinIs
  <2>3. Max(kept) \in kept /\ \A y \in kept : y <= Max(kept)
    BY <1>1, <1>5, <2>1, MaxIs
  <2> DEFINE i == Min(kept)  j == Max(kept)
  <2>4. i \in 1..Len(s) /\ j \in 1..Len(s) /\ i <= j
    BY <1>3, <2>2, <2>3
  <2>5. ASSUME NEW k \in 1..Len(s), k < i \/ k > j PROVE s[k] \in C
    <3>1. k \notin kept
      BY <1>1, <2>2, <2>3, <2>4, <2>5
    <3> QED BY <1>3, <3>1
  <2>6. TrimOf(s, C) = SubSeq(s, i, j)
    BY <1>2, <1>5
  <2> HIDE DEF i, j
  <2> QED BY <2>4, <2>5, <2>6
<1> QED BY <1>4, <1>5

LEMMA TrimOfIn ==
    ASSUME NEW B, NEW s \in Seq(B), NEW C
    PROVE  TrimOf(s, C) \in Seq(B)
<1>1. CASE TrimOf(s, C) = <<>>
  BY <1>1
<1>2. CASE TrimOf(s, C) # <<>>
  <2>1. PICK i \in 1..Len(s), j \in 1..Len(s) : TrimOf(s, C) = SubSeq(s, i, j)
    BY <1>2, TrimOfIs
  <2>2. i \in 1..Len(s)+1 /\ j \in 0..Len(s)
    OBVIOUS
  <2> QED BY <2>1, <2>2, StretchIn
<1> QED BY <1>1, <1>2

LEMMA TrimIn ==
    ASSUME NEW B, NEW s \in Seq(B)
    PROVE  Trim(s) \in Seq(B)
BY TrimOfIn DEF Trim

\* The two halves of the input.
LEMMA SplitFieldClauseIs ==
    ASSUME NEW B, NEW raw \in Seq(B)
    PROVE  LET x == SplitFieldClause(raw)
           IN  \/ x.query = raw /\ x.clause = <<>>
               \/ \E i \in 1..Len(raw) :
                     raw[i] = "|" /\ x.query = Trim(Upto(raw, i - 1)) /\ x.clause = Trim(From(raw, i + 1))
<1> DEFINE pipes == {i \in DOMAIN raw : IsPipe(raw, i)}
           x == SplitFieldClause(raw)
<1>1. DOMAIN raw = 1..Len(raw) /\ Len(raw) \in Nat
  BY SeqDom
<1>2. x = IF pipes = {} THEN [query |-> raw, clause |-> <<>>]
          ELSE [query |-> Trim(Upto(raw, Max(pipes) - 1)), clause |-> Trim(From(raw, Max(pipes) + 1))]
  BY DEF SplitFieldClause
<1>3. pipes \in SUBSET (0..Len(raw)) /\ \A i \in pipes : i \in 1..Len(raw) /\ raw[i] = "|"
  BY <1>1 DEF IsPipe
<1> HIDE DEF pipes
<1>4. CASE pipes = {}
  BY <1>2, <1>4
<1>5. CASE pipes # {}
  <2>1. Max(pipes) \in pipes
    BY <1>1, <1>3, <1>5, MaxIs
  <2>2. Max(pipes) \in 1..Len(raw) /\ raw[Max(pipes)] = "|"
    BY <1>3, <2>1
  <2>3. x.query = Trim(Upto(raw, Max(pipes) - 1)) /\ x.clause = Trim(From(raw, Max(pipes) + 1))
    BY <1>2, <1>5
  <2> HIDE DEF x
  <2> QED BY <2>2, <2>3 DEF x
<1> QED BY <1>4, <1>5

LEMMA ClauseIn ==
    ASSUME NEW B, NEW raw \in Seq(B)
    PROVE  SplitFieldClause(raw).query \in Seq(B) /\ SplitFieldClause(raw).clause \in Seq(B)
<1> DEFINE x == SplitFieldClause(raw)
<1>1. \/ x.query = raw /\ x.clause = <<>>
      \/ \E i \in 1..Len(raw) :
            raw[i] = "|" /\ x.query = Trim(Upto(raw, i - 1)) /\ x.clause = Trim(From(raw, i + 1))
  BY SplitFieldClauseIs
<1> HIDE DEF x
<1>2. CASE x.query = raw /\ x.clause = <<>>
  BY <1>2 DEF x
<1>3. ASSUME NEW i \in 1..Len(raw), x.query = Trim(Upto(raw, i - 1)), x.clause = Trim(From(raw, i + 1))
      PROVE  x.query \in Seq(B) /\ x.clause \in Seq(B)
  <2>1. i - 1 \in 0..Len(raw) /\ i + 1 \in 1..Len(raw)+1
    OBVIOUS
  <2>2. Upto(raw, i - 1) \in Seq(B) /\ From(raw, i + 1) \in Seq(B)
    BY <2>1, UptoIn, FromIn
  <2> QED BY <1>3, <2>2, TrimIn
<1> QED BY <1>1, <1>2, <1>3 DEF x

\* The first place from i on, or behind the end.
LEMMA FirstIs ==
    ASSUME NEW n \in Nat, NEW i \in Nat, NEW T \in SUBSET (i..n), i <= n + 1
    PROVE  Min(T \cup {n + 1}) \in i..n+1
<1>1. T \cup {n + 1} \in SUBSET Nat /\ T \cup {n + 1} # {}
  OBVIOUS
<1>2. Min(T \cup {n + 1}) \in T \cup {n + 1}
  BY <1>1, MinIs
<1> DEFINE m == Min(T \cup {n + 1})
<1>3. m \in T \/ m = n + 1
  BY <1>2
<1> HIDE DEF m
<1>4. CASE m \in T
  <2>1. m \in i..n
    BY <1>4
  <2>2. m \in i..n+1
    BY <2>1
  <2> QED BY <2>2 DEF m
<1>5. CASE m = n + 1
  <2>1. m \in i..n+1
    BY <1>5
  <2> QED BY <2>1 DEF m
<1> QED BY <1>3, <1>4, <1>5

LEMMA SeparatedIn ==
    ASSUME NEW B, NEW s \in Seq(B)
    PROVE  SeparatorOf(s).rest \in Seq(B)
<1> DEFINE n == Len(s)
           close == ClosingQuote(s)
           T == {k \in 1..n : s[k] = Blank}
           first == Min(T \cup {n + 1})
           end == ArgumentEnd(s, close)
<1>1. n \in Nat
  BY SeqDom
<1>2. end = IF close <= n THEN close ELSE first - 1
  BY DEF ArgumentEnd, FirstFrom
<1>3. first \in 1..n+1
  <2>1. T \in SUBSET (1..n) /\ 1 \in Nat /\ 1 <= n + 1
    BY <1>1
  <2> HIDE DEF T, n
  <2> QED BY <1>1, <2>1, FirstIs
<1>4. close \in Nat
  <2> DEFINE U == {k \in 2..n : s[k] = s[1]}
  <2>1. close = IF s[1] \in Quotes THEN Min(U \cup {n + 1}) ELSE n + 1
    BY DEF ClosingQuote, FirstFrom
  <2>2. U \cup {n + 1} \in SUBSET Nat /\ U \cup {n + 1} # {}
    BY <1>1
  <2> HIDE DEF U, n, close
  <2>3. Min(U \cup {n + 1}) \in Nat
    BY <2>2, MinIs
  <2> QED BY <1>1, <2>1, <2>3
<1> HIDE DEF close, first
<1>5. end \in 0..n
  BY <1>1, <1>2, <1>3, <1>4
<1> HIDE DEF end, n
<1>6. SeparatorOf(s).rest = Trim(From(s, end + 1))
  BY DEF SeparatorOf, SeparatorUpto, end, close
<1>7. end + 1 \in 1..Len(s)+1
  BY <1>1, <1>5 DEF n
<1>8. From(s, end + 1) \in Seq(B)
  BY <1>7, FromIn
<1> QED BY <1>6, <1>8, TrimIn

----------------------------------------------------------------------------
\* Whatever is typed, the filter shows what its parts show.
LEMMA ClauseShows ==
    ASSUME NEW B, Blank \in B, NEW clause \in Seq(B)
    PROVE  ShowsWhatPartsShow(ParseFieldFilter(clause), ConditionWords(clause))
<1> DEFINE f == ParseFieldFilter(clause)
           sp == SeparatorOf(Trim(Tail(clause)))
           apart == clause # <<>> /\ clause[1] = "-F" /\ Len(clause) > 1
<1>1. CASE clause = <<>>
  <2>1. f = NoFilter /\ ConditionWords(clause) = <<>>
    BY <1>1, WordsNothing DEF ParseFieldFilter, ConditionWords
  <2>2. f.bad = FALSE
    BY <2>1 DEF NoFilter
  <2>3. Joints(<<>>) = {}
    BY DEF Joints, At
  <2> HIDE DEF f
  <2> QED BY <2>1, <2>2, <2>3 DEF ShowsWhatPartsShow, f
<1>2. CASE apart
  <2>1. f = SeparatedFilter(sp) /\ ConditionWords(clause) = Words(sp.rest)
    BY <1>2 DEF ParseFieldFilter, ConditionWords
  <2>2. sp.rest \in Seq(B)
    <3>1. Tail(clause) \in Seq(B)
      BY <1>2
    <3> QED BY <3>1, TrimIn, SeparatedIn
  <2>3. Words(sp.rest) \in Seq(WordOf(B))
    BY <2>2, WordsOf
  <2> HIDE DEF sp, f
  <2>4. CASE sp.sep = <<>> \/ sp.rest = <<>>
    <3>1. f = BadFilter
      BY <2>1, <2>4 DEF SeparatedFilter
    <3>2. f.bad = TRUE /\ f.ors = <<>>
      BY <3>1 DEF BadFilter, NoFilter
    <3>3. KeptBy(f) = LogLines
      BY <3>2, KeptIs
    <3> QED BY <3>2, <3>3 DEF ShowsWhatPartsShow, f
  <2>5. CASE ~(sp.sep = <<>> \/ sp.rest = <<>>)
    <3>1. f = FilterOf(Groups(sp.rest), sp.sep)
      BY <2>1, <2>5 DEF SeparatedFilter
    <3>2. Groups(sp.rest) = GroupsAt(B, Words(sp.rest))
      BY <2>3, GroupsAre
    <3> QED BY <2>1, <2>3, <3>1, <3>2, FilterShows DEF f
  <2> QED BY <2>4, <2>5
<1>3. CASE clause # <<>> /\ ~apart
  <2>1. f = FilterOf(Groups(clause), <<>>) /\ ConditionWords(clause) = Words(clause)
    BY <1>3 DEF ParseFieldFilter, ConditionWords
  <2>2. Words(clause) \in Seq(WordOf(B))
    BY WordsOf
  <2>3. Groups(clause) = GroupsAt(B, Words(clause))
    BY <2>2, GroupsAre
  <2> HIDE DEF f
  <2> QED BY <2>1, <2>2, <2>3, FilterShows DEF f
<1> QED BY <1>1, <1>2, <1>3

\* What is typed is a text.
Symbols == STRING \cup {Blank}

\* The clause of the text that is typed.
LEMMA HalfTyped ==
    ASSUME typed \in Seq(Symbols)
    PROVE  HalfTypedShowsAll
<1> DEFINE B == Symbols
<1>1. SplitFieldClause(typed).clause \in Seq(B)
  BY ClauseIn
<1>2. ParseSearchQuery(typed).filter = ParseFieldFilter(SplitFieldClause(typed).clause)
  BY DEF ParseSearchQuery, ParseSplit
<1>3. Blank \in B
  BY DEF Symbols
<1> HIDE DEF B
<1> QED BY <1>1, <1>2, <1>3, ClauseShows DEF HalfTypedShowsAll

----------------------------------------------------------------------------
(* The parse functions: what they may return, and what they ask.           *)

----------------------------------------------------------------------------
\* What each parse function may return from position p: it never goes back, and
\* what is no loop goes on when it finds something.
Kinds == {"or", "ors", "and", "ands", "not"}
Loops == {"ors", "ands"}
Places(toks) == 1..Len(toks) + 1
Missed(toks, p) == {Nil(q) : q \in p..Len(toks) + 1}
FoundFrom(toks, p) == {Found(x, q) : x \in SUBSET LinesOver(toks), q \in p..Len(toks) + 1}
Results(toks, f, p) ==
    IF f \in Loops THEN FoundFrom(toks, p) ELSE Missed(toks, p) \cup FoundFrom(toks, p + 1)
Tables(toks) ==
    {g \in [ParseCalls(toks) -> Missed(toks, 1) \cup FoundFrom(toks, 1)] :
        \A f \in Kinds : \A p \in Places(toks) : g[<<f, p>>] \in Results(toks, f, p)}

\* The order in which the functions are called at one position, and in all.
Order(f) == IF f = "not" THEN 0 ELSE IF f \in {"and", "ands"} THEN 1 ELSE 2
CallRank(toks, c) == (Len(toks) + 1 - c[2]) * 3 + Order(c[1])
Before(f, p, e, q) == q > p \/ (q = p /\ Order(e) < Order(f))
Agree(toks, g, h, f, p) ==
    \A e \in Kinds : \A q \in Places(toks) : Before(f, p, e, q) => g[<<e, q>>] = h[<<e, q>>]

\* What a result says of its position and its lines.
LEMMA ResultIs ==
    ASSUME NEW toks, Len(toks) \in Nat, NEW f \in Kinds, NEW p \in Places(toks),
           NEW v \in Results(toks, f, p)
    PROVE  /\ v.pos \in Places(toks) /\ v.pos >= p
           /\ v.nil => f \notin Loops /\ v \in Missed(toks, p)
           /\ ~v.nil => /\ v.node \in SUBSET LinesOver(toks) /\ v = Found(v.node, v.pos)
                        /\ f \notin Loops => v.pos > p
<1>1. CASE v \in Missed(toks, p) /\ f \notin Loops
  <2>1. PICK q \in p..Len(toks)+1 : v = Nil(q)
    BY <1>1 DEF Missed
  <2>2. v.pos = q /\ v.nil = TRUE
    BY <2>1 DEF Nil
  <2> QED BY <1>1, <2>1, <2>2 DEF Places
<1>2. ASSUME v \in FoundFrom(toks, IF f \in Loops THEN p ELSE p + 1) PROVE
           /\ v.pos \in Places(toks) /\ v.pos >= p
           /\ v.nil = FALSE
           /\ v.node \in SUBSET LinesOver(toks) /\ v = Found(v.node, v.pos)
           /\ f \notin Loops => v.pos > p
  <2>1. PICK x \in SUBSET LinesOver(toks), q \in (IF f \in Loops THEN p ELSE p + 1)..Len(toks)+1 : v = Found(x, q)
    BY <1>2 DEF FoundFrom
  <2>2. v.pos = q /\ v.nil = FALSE /\ v.node = x
    BY <2>1 DEF Found
  <2> QED BY <2>1, <2>2 DEF Places
<1>3. (v \in Missed(toks, p) /\ f \notin Loops) \/ v \in FoundFrom(toks, IF f \in Loops THEN p ELSE p + 1)
  BY DEF Results
<1> QED BY <1>1, <1>2, <1>3

\* What is a result.
LEMMA ResultOf ==
    ASSUME NEW toks, Len(toks) \in Nat, NEW f \in Kinds, NEW p \in Places(toks)
    PROVE  /\ \A q \in p..Len(toks)+1 : f \notin Loops => Nil(q) \in Results(toks, f, p)
           /\ \A q \in p..Len(toks)+1 : \A x \in SUBSET LinesOver(toks) :
                 f \in Loops \/ q > p => Found(x, q) \in Results(toks, f, p)
<1>1. \A q \in p..Len(toks)+1 : f \notin Loops => Nil(q) \in Results(toks, f, p)
  BY DEF Results, Missed
<1>2. ASSUME NEW q \in p..Len(toks)+1, NEW x \in SUBSET LinesOver(toks), f \in Loops \/ q > p
      PROVE  Found(x, q) \in Results(toks, f, p)
  <2>1. CASE f \in Loops
    BY <2>1 DEF Results, FoundFrom
  <2>2. CASE f \notin Loops
    <3>1. q \in p+1..Len(toks)+1
      BY <1>2, <2>2 DEF Places
    <3>2. Found(x, q) \in FoundFrom(toks, p + 1)
      BY <3>1 DEF FoundFrom
    <3> QED BY <2>2, <3>2 DEF Results
  <2> QED BY <2>1, <2>2
<1> QED BY <1>1, <1>2

\* A table, asked at a place.
LEMMA TableAt ==
    ASSUME NEW toks, NEW g \in Tables(toks), NEW f \in Kinds, NEW p \in Places(toks)
    PROVE  g[<<f, p>>] \in Results(toks, f, p)
BY DEF Tables

LEMMA KindIs ==
    ASSUME NEW A, NEW toks \in Seq(A), NEW p \in Places(toks), KindAt(toks, p) # "end"
    PROVE  p + 1 \in Places(toks) /\ p \in 1..Len(toks) /\ KindAt(toks, p) = toks[p].kind
<1>1. DOMAIN toks = 1..Len(toks) /\ Len(toks) \in Nat
  BY SeqDom
<1> QED BY <1>1 DEF KindAt, Places

\* Each parse function returns such a result, from calls that come later or are closer.
LEMMA OrStep ==
    ASSUME NEW A, NEW toks \in Seq(A), NEW g \in Tables(toks), NEW h, NEW p \in Places(toks),
           Agree(toks, g, h, "or", p)
    PROVE  ParseOr(g, p) \in Results(toks, "or", p) /\ ParseOr(h, p) = ParseOr(g, p)
<1> DEFINE left == g[<<"and", p>>]
           rest == g[<<"ors", left.pos>>]
<1>0. Len(toks) \in Nat
  OBVIOUS
<1>1. left \in Results(toks, "and", p)
  BY TableAt DEF Kinds
<1>2. h[<<"and", p>>] = left
  BY DEF Agree, Before, Order, Kinds, Places
<1> HIDE DEF left
<1>3. /\ left.pos \in Places(toks) /\ left.pos >= p
      /\ left.nil => left \in Missed(toks, p)
      /\ ~left.nil => left.node \in SUBSET LinesOver(toks) /\ left.pos > p
  BY <1>0, <1>1, ResultIs DEF Kinds, Loops
<1>4. CASE left.nil
  <2>1. left \in Results(toks, "or", p)
    BY <1>3, <1>4 DEF Results, Loops
  <2> QED BY <1>2, <1>4, <2>1 DEF ParseOr, left
<1>5. CASE ~left.nil
  <2>1. rest \in Results(toks, "ors", left.pos)
    BY <1>3, TableAt DEF Kinds
  <2>2. h[<<"ors", left.pos>>] = rest
    BY <1>3, <1>5 DEF Agree, Before, Kinds
  <2> HIDE DEF rest
  <2>3. ~rest.nil /\ rest.pos \in Places(toks) /\ rest.pos >= left.pos /\ rest.node \in SUBSET LinesOver(toks)
    BY <1>0, <1>3, <2>1, ResultIs DEF Kinds, Loops
  <2>4. rest.pos \in p..Len(toks)+1 /\ rest.pos > p
    BY <1>0, <1>3, <1>5, <2>3 DEF Places
  <2>5. left.node \cup rest.node \in SUBSET LinesOver(toks)
    BY <1>3, <1>5, <2>3
  <2>6. Found(left.node \cup rest.node, rest.pos) \in Results(toks, "or", p)
    BY <1>0, <2>4, <2>5, ResultOf DEF Kinds
  <2>7. ParseOr(g, p) = Found(left.node \cup rest.node, rest.pos)
    BY <1>5 DEF ParseOr, left, rest
  <2>8. ParseOr(h, p) = Found(left.node \cup rest.node, rest.pos)
    BY <1>2, <1>5, <2>2 DEF ParseOr
  <2> QED BY <2>6, <2>7, <2>8
<1> QED BY <1>4, <1>5

LEMMA AndStep ==
    ASSUME NEW A, NEW toks \in Seq(A), NEW g \in Tables(toks), NEW h, NEW p \in Places(toks),
           Agree(toks, g, h, "and", p)
    PROVE  ParseAnd(g, p) \in Results(toks, "and", p) /\ ParseAnd(h, p) = ParseAnd(g, p)
<1> DEFINE left == g[<<"not", p>>]
           rest == g[<<"ands", left.pos>>]
<1>0. Len(toks) \in Nat
  OBVIOUS
<1>1. left \in Results(toks, "not", p)
  BY TableAt DEF Kinds
<1>2. h[<<"not", p>>] = left
  BY DEF Agree, Before, Order, Kinds, Places
<1> HIDE DEF left
<1>3. /\ left.pos \in Places(toks) /\ left.pos >= p
      /\ left.nil => left \in Missed(toks, p)
      /\ ~left.nil => left.node \in SUBSET LinesOver(toks) /\ left.pos > p
  BY <1>0, <1>1, ResultIs DEF Kinds, Loops
<1>4. CASE left.nil
  <2>1. left \in Results(toks, "and", p)
    BY <1>3, <1>4 DEF Results, Loops
  <2> QED BY <1>2, <1>4, <2>1 DEF ParseAnd, left
<1>5. CASE ~left.nil
  <2>1. rest \in Results(toks, "ands", left.pos)
    BY <1>3, TableAt DEF Kinds
  <2>2. h[<<"ands", left.pos>>] = rest
    BY <1>3, <1>5 DEF Agree, Before, Kinds
  <2> HIDE DEF rest
  <2>3. ~rest.nil /\ rest.pos \in Places(toks) /\ rest.pos >= left.pos /\ rest.node \in SUBSET LinesOver(toks)
    BY <1>0, <1>3, <2>1, ResultIs DEF Kinds, Loops
  <2>4. rest.pos \in p..Len(toks)+1 /\ rest.pos > p
    BY <1>0, <1>3, <1>5, <2>3 DEF Places
  <2>5. left.node \cap rest.node \in SUBSET LinesOver(toks)
    BY <1>3, <1>5, <2>3
  <2>6. Found(left.node \cap rest.node, rest.pos) \in Results(toks, "and", p)
    BY <1>0, <2>4, <2>5, ResultOf DEF Kinds
  <2>7. ParseAnd(g, p) = Found(left.node \cap rest.node, rest.pos)
    BY <1>5 DEF ParseAnd, left, rest
  <2>8. ParseAnd(h, p) = Found(left.node \cap rest.node, rest.pos)
    BY <1>2, <1>5, <2>2 DEF ParseAnd
  <2> QED BY <2>6, <2>7, <2>8
<1> QED BY <1>4, <1>5

\* The loops may find nothing more.
LEMMA OrsStep ==
    ASSUME NEW A, NEW toks \in Seq(A), NEW g \in Tables(toks), NEW h, NEW p \in Places(toks),
           Agree(toks, g, h, "ors", p)
    PROVE  /\ OrLoop(toks, g, p) \in Results(toks, "ors", p)
           /\ OrLoop(toks, h, p) = OrLoop(toks, g, p)
<1> DEFINE right == g[<<"and", p + 1>>]
           rest == g[<<"ors", right.pos>>]
<1>0. Len(toks) \in Nat
  OBVIOUS
<1>e. p \in p..Len(toks)+1 /\ {} \in SUBSET LinesOver(toks)
  BY <1>0 DEF Places
<1>1. CASE KindAt(toks, p) # "or"
  <2>1. Found({}, p) \in Results(toks, "ors", p)
    BY <1>0, <1>e, ResultOf DEF Kinds, Loops
  <2> QED BY <1>1, <2>1 DEF OrLoop
<1>2. CASE KindAt(toks, p) = "or"
  <2>1. p + 1 \in Places(toks)
    BY <1>2, KindIs
  <2>2. right \in Results(toks, "and", p + 1)
    BY <2>1, TableAt DEF Kinds
  <2>3. h[<<"and", p + 1>>] = right
    BY <1>0, <2>1 DEF Agree, Before, Kinds, Places
  <2> HIDE DEF right
  <2>4. /\ right.pos \in Places(toks) /\ right.pos >= p + 1
        /\ ~right.nil => right.node \in SUBSET LinesOver(toks)
    BY <1>0, <2>1, <2>2, ResultIs DEF Kinds
  <2>5. right.pos \in p..Len(toks)+1
    BY <1>0, <2>4 DEF Places
  <2>6. CASE right.nil
    <3>1. Found({}, right.pos) \in Results(toks, "ors", p)
      BY <1>0, <1>e, <2>5, ResultOf DEF Kinds, Loops
    <3>2. OrLoop(toks, g, p) = Found({}, right.pos)
      BY <1>2, <2>6 DEF OrLoop, right
    <3>3. OrLoop(toks, h, p) = Found({}, right.pos)
      BY <1>2, <2>3, <2>6 DEF OrLoop
    <3> QED BY <3>1, <3>2, <3>3
  <2>7. CASE ~right.nil
    <3>1. rest \in Results(toks, "ors", right.pos)
      BY <2>4, TableAt DEF Kinds
    <3>2. h[<<"ors", right.pos>>] = rest
      BY <1>0, <2>4 DEF Agree, Before, Kinds, Places
    <3> HIDE DEF rest
    <3>3. rest.pos \in Places(toks) /\ rest.pos >= right.pos /\ rest.node \in SUBSET LinesOver(toks)
      BY <1>0, <2>4, <3>1, ResultIs DEF Kinds, Loops
    <3>4. rest.pos \in p..Len(toks)+1
      BY <1>0, <2>5, <3>3 DEF Places
    <3>5. right.node \cup rest.node \in SUBSET LinesOver(toks)
      BY <2>4, <2>7, <3>3
    <3>6. Found(right.node \cup rest.node, rest.pos) \in Results(toks, "ors", p)
      BY <1>0, <3>4, <3>5, ResultOf DEF Kinds, Loops
    <3>7. OrLoop(toks, g, p) = Found(right.node \cup rest.node, rest.pos)
      BY <1>2, <2>7 DEF OrLoop, right, rest
    <3>8. OrLoop(toks, h, p) = Found(right.node \cup rest.node, rest.pos)
      BY <1>2, <2>3, <2>7, <3>2 DEF OrLoop
    <3> QED BY <3>6, <3>7, <3>8
  <2> QED BY <2>6, <2>7
<1> QED BY <1>1, <1>2

\* Where a conjunction goes on, a token is read.
LEMMA GoesOn ==
    ASSUME NEW A, NEW toks \in Seq(A), NEW p \in Places(toks), ~EndsAnd(KindAt(toks, p))
    PROVE  /\ AfterAnd(toks, p) \in Places(toks) /\ AfterAnd(toks, p) >= p
           /\ KindAt(toks, p) = toks[p].kind /\ p \in 1..Len(toks)
           /\ AfterAnd(toks, p) = IF KindAt(toks, p) = "and" THEN p + 1 ELSE p
<1>1. KindAt(toks, p) # "end"
  BY DEF EndsAnd
<1>2. p + 1 \in Places(toks) /\ p \in 1..Len(toks) /\ KindAt(toks, p) = toks[p].kind
  BY <1>1, KindIs
<1> QED BY <1>2 DEF AfterAnd, Places

LEMMA AndsStep ==
    ASSUME NEW A, NEW toks \in Seq(A), NEW g \in Tables(toks), NEW h, NEW p \in Places(toks),
           Agree(toks, g, h, "ands", p)
    PROVE  /\ AndLoop(toks, g, p) \in Results(toks, "ands", p)
           /\ AndLoop(toks, h, p) = AndLoop(toks, g, p)
<1> DEFINE L == LinesOver(toks)
           a == AfterAnd(toks, p)
           right == g[<<"not", a>>]
           rest == g[<<"ands", right.pos>>]
<1>0. Len(toks) \in Nat
  OBVIOUS
<1>e. p \in p..Len(toks)+1 /\ L \in SUBSET L
  BY <1>0 DEF Places
<1>1. CASE EndsAnd(KindAt(toks, p))
  <2>1. Found(L, p) \in Results(toks, "ands", p)
    BY <1>0, <1>e, ResultOf DEF Kinds, Loops
  <2> QED BY <1>1, <2>1 DEF AndLoop
<1>2. CASE ~EndsAnd(KindAt(toks, p))
  <2>1. a \in Places(toks) /\ a >= p
    BY <1>2, GoesOn
  <2>2. right \in Results(toks, "not", a)
    BY <2>1, TableAt DEF Kinds
  <2>3. h[<<"not", a>>] = right
    <3>1. Before("ands", p, "not", a)
      BY <2>1 DEF Before, Order, Places
    <3> QED BY <2>1, <3>1 DEF Agree, Kinds
  <2> HIDE DEF right
  <2>h. a = AfterAnd(toks, p)
    OBVIOUS
  <2> HIDE DEF a
  <2>4. /\ right.pos \in Places(toks) /\ right.pos >= a
        /\ ~right.nil => right.node \in SUBSET L /\ right.pos > a
    BY <1>0, <2>1, <2>2, ResultIs DEF Kinds, Loops
  <2>5. right.pos \in p..Len(toks)+1
    BY <1>0, <2>1, <2>4 DEF Places
  <2>6. CASE right.nil
    <3>1. Found(L, right.pos) \in Results(toks, "ands", p)
      BY <1>0, <1>e, <2>5, ResultOf DEF Kinds, Loops
    <3>2. AndLoop(toks, g, p) = Found(L, right.pos)
      BY <1>2, <2>6, <2>h DEF AndLoop, right
    <3>3. AndLoop(toks, h, p) = Found(L, right.pos)
      BY <1>2, <2>3, <2>6, <2>h DEF AndLoop
    <3> QED BY <3>1, <3>2, <3>3
  <2>7. CASE ~right.nil
    <3>1. rest \in Results(toks, "ands", right.pos)
      BY <2>4, TableAt DEF Kinds
    <3>2. h[<<"ands", right.pos>>] = rest
      <4>1. Before("ands", p, "ands", right.pos)
        BY <2>1, <2>4, <2>7 DEF Before, Places
      <4> QED BY <2>4, <4>1 DEF Agree, Kinds
    <3> HIDE DEF rest
    <3>3. rest.pos \in Places(toks) /\ rest.pos >= right.pos /\ rest.node \in SUBSET L
      BY <1>0, <2>4, <3>1, ResultIs DEF Kinds, Loops
    <3>4. rest.pos \in p..Len(toks)+1
      BY <1>0, <2>5, <3>3 DEF Places
    <3>5. right.node \cap rest.node \in SUBSET L
      BY <2>4, <2>7, <3>3
    <3>6. Found(right.node \cap rest.node, rest.pos) \in Results(toks, "ands", p)
      BY <1>0, <3>4, <3>5, ResultOf DEF Kinds, Loops
    <3>7. AndLoop(toks, g, p) = Found(right.node \cap rest.node, rest.pos)
      BY <1>2, <2>7, <2>h DEF AndLoop, right, rest
    <3>8. AndLoop(toks, h, p) = Found(right.node \cap rest.node, rest.pos)
      BY <1>2, <2>3, <2>7, <2>h, <3>2 DEF AndLoop
    <3> QED BY <3>6, <3>7, <3>8
  <2> QED BY <2>6, <2>7
<1> QED BY <1>1, <1>2

\* An operand that is negated, and a group.
LEMMA NegatedIs ==
    ASSUME NEW A, NEW toks \in Seq(A), NEW p \in Places(toks), p + 1 \in Places(toks),
           NEW v \in Results(toks, "not", p + 1)
    PROVE  Negated(toks, v) \in Results(toks, "not", p)
<1>0. Len(toks) \in Nat /\ p \in Nat
  BY DEF Places
<1>1. /\ v.pos \in Places(toks) /\ v.pos >= p + 1
      /\ v.nil => v \in Missed(toks, p + 1)
  BY <1>0, ResultIs DEF Kinds
<1>2. v.pos \in p..Len(toks)+1 /\ v.pos > p
  BY <1>0, <1>1 DEF Places
<1>3. CASE v.nil
  <2>1. v \in Missed(toks, p)
    BY <1>0, <1>1, <1>3 DEF Missed
  <2> QED BY <1>3, <2>1 DEF Negated, Results, Loops
<1>4. CASE ~v.nil
  <2>1. LinesOver(toks) \ v.node \in SUBSET LinesOver(toks)
    OBVIOUS
  <2>2. Found(LinesOver(toks) \ v.node, v.pos) \in Results(toks, "not", p)
    BY <1>0, <1>2, <2>1, ResultOf DEF Kinds
  <2> QED BY <1>4, <2>2 DEF Negated
<1> QED BY <1>3, <1>4

LEMMA GroupedIs ==
    ASSUME NEW A, NEW toks \in Seq(A), NEW p \in Places(toks), p + 1 \in Places(toks),
           NEW v \in Results(toks, "or", p + 1)
    PROVE  Grouped(toks, v) \in Results(toks, "not", p)
<1>0. Len(toks) \in Nat /\ p \in Nat
  BY DEF Places
<1>1. /\ v.pos \in Places(toks) /\ v.pos >= p + 1
      /\ v.nil => v \in Missed(toks, p + 1)
      /\ ~v.nil => v.node \in SUBSET LinesOver(toks) /\ v = Found(v.node, v.pos)
  BY <1>0, ResultIs DEF Kinds
<1> DEFINE e == IF KindAt(toks, v.pos) = ")" THEN v.pos + 1 ELSE v.pos
<1>2. e \in p..Len(toks)+1 /\ e > p
  <2>1. CASE KindAt(toks, v.pos) = ")"
    <3>1. v.pos + 1 \in Places(toks)
      BY <1>1, <2>1, KindIs
    <3> QED BY <1>0, <1>1, <2>1, <3>1 DEF Places
  <2>2. CASE KindAt(toks, v.pos) # ")"
    BY <1>0, <1>1, <2>2 DEF Places
  <2> QED BY <2>1, <2>2
<1>3. CASE v.nil
  <2>4. Grouped(toks, v) = Nil(e)
    BY <1>3 DEF Grouped
  <2> HIDE DEF e
  <2> QED BY <1>0, <1>2, <2>4, ResultOf DEF Kinds, Loops
<1>4. CASE ~v.nil
  <2>2. Grouped(toks, v) = Found(v.node, e)
    BY <1>4 DEF Grouped
  <2> HIDE DEF e
  <2> QED BY <1>0, <1>1, <1>2, <1>4, <2>2, ResultOf DEF Kinds
<1> QED BY <1>3, <1>4

\* An operand.
LEMMA NotStep ==
    ASSUME NEW A, NEW toks \in Seq(A), NEW g \in Tables(toks), NEW h, NEW p \in Places(toks),
           Agree(toks, g, h, "not", p)
    PROVE  /\ ParseNot(toks, g, p) \in Results(toks, "not", p)
           /\ ParseNot(toks, h, p) = ParseNot(toks, g, p)
<1> DEFINE kind == KindAt(toks, p)
<1>0. Len(toks) \in Nat /\ p \in Nat
  BY DEF Places
<1>1. CASE kind = "end"
  <2>1. p \in p..Len(toks)+1
    BY DEF Places
  <2>2. Nil(p) \in Results(toks, "not", p)
    BY <1>0, <2>1, ResultOf DEF Kinds, Loops
  <2> QED BY <1>1, <2>2 DEF ParseNot
<1>2. CASE kind # "end"
  <2>1. p + 1 \in Places(toks)
    BY <1>2, KindIs
  <2>2. /\ g[<<"not", p + 1>>] = h[<<"not", p + 1>>]
        /\ g[<<"or", p + 1>>] = h[<<"or", p + 1>>]
    BY <1>0, <2>1 DEF Agree, Before, Kinds, Places
  <2>3. /\ g[<<"not", p + 1>>] \in Results(toks, "not", p + 1)
        /\ g[<<"or", p + 1>>] \in Results(toks, "or", p + 1)
    BY <2>1, TableAt DEF Kinds
  <2>4. CASE kind = "term"
    <3>1. Holding(toks, p) \in SUBSET LinesOver(toks) /\ p + 1 \in p..Len(toks)+1
      BY <1>0, <2>1 DEF Holding, Places
    <3>2. Found(Holding(toks, p), p + 1) \in Results(toks, "not", p)
      BY <1>0, <3>1, ResultOf DEF Kinds
    <3> QED BY <2>4, <3>2 DEF ParseNot
  <2>5. CASE kind = "not"
    <3>1. Negated(toks, g[<<"not", p + 1>>]) \in Results(toks, "not", p)
      BY <2>1, <2>3, NegatedIs
    <3> QED BY <2>2, <2>5, <3>1 DEF ParseNot
  <2>6. CASE kind = "("
    <3>1. Grouped(toks, g[<<"or", p + 1>>]) \in Results(toks, "not", p)
      BY <2>1, <2>3, GroupedIs
    <3> QED BY <2>2, <2>6, <3>1 DEF ParseNot
  <2>7. CASE kind \notin {"term", "not", "("}
    <3>1. \A v \in Results(toks, "not", p + 1) : v \in Results(toks, "not", p)
      BY <1>0 DEF Results, Loops, Missed, FoundFrom
    <3> QED BY <1>2, <2>2, <2>3, <2>7, <3>1 DEF ParseNot
  <2> QED BY <2>4, <2>5, <2>6, <2>7
<1> QED BY <1>1, <1>2

\* All of the functions.
LEMMA ParseStep ==
    ASSUME NEW A, NEW toks \in Seq(A), NEW g \in Tables(toks), NEW h,
           NEW f \in Kinds, NEW p \in Places(toks), Agree(toks, g, h, f, p)
    PROVE  /\ ParseAt(toks, g, f, p) \in Results(toks, f, p)
           /\ ParseAt(toks, h, f, p) = ParseAt(toks, g, f, p)
<1>1. CASE f = "or"
  BY <1>1, OrStep DEF ParseAt
<1>2. CASE f = "ors"
  BY <1>2, OrsStep DEF ParseAt
<1>3. CASE f = "and"
  BY <1>3, AndStep DEF ParseAt
<1>4. CASE f = "ands"
  BY <1>4, AndsStep DEF ParseAt
<1>5. CASE f = "not"
  BY <1>5, NotStep DEF ParseAt
<1> QED BY <1>1, <1>2, <1>3, <1>4, <1>5 DEF Kinds

----------------------------------------------------------------------------
(* The table of all the calls, which decides what Parse returns.           *)

\* The calls, and their ranks: a call asks only for calls of a lower one.
LEMMA CallsAre ==
    ASSUME NEW toks
    PROVE  /\ ParseCalls(toks) = Kinds \X Places(toks)
           /\ \A f \in Kinds, p \in Places(toks) : <<f, p>> \in ParseCalls(toks)
           /\ \A c \in ParseCalls(toks) : c[1] \in Kinds /\ c[2] \in Places(toks) /\ c = <<c[1], c[2]>>
BY DEF ParseCalls, Kinds, Places

LEMMA CallRankIs ==
    ASSUME NEW toks, Len(toks) \in Nat
    PROVE  /\ \A c \in ParseCalls(toks) : CallRank(toks, c) \in 0..Len(toks) * 3 + 2
           /\ \A f \in Kinds, p \in Places(toks), e \in Kinds, q \in Places(toks) :
                 Before(f, p, e, q) => CallRank(toks, <<e, q>>) < CallRank(toks, <<f, p>>)
<1>1. \A f \in Kinds : Order(f) \in 0..2
  BY DEF Order, Kinds
<1>2. ASSUME NEW c \in ParseCalls(toks) PROVE CallRank(toks, c) \in 0..Len(toks) * 3 + 2
  <2>1. c[2] \in 1..Len(toks)+1 /\ Order(c[1]) \in 0..2
    BY <1>1, CallsAre DEF Places
  <2> QED BY <2>1 DEF CallRank
<1>3. ASSUME NEW f \in Kinds, NEW p \in Places(toks), NEW e \in Kinds, NEW q \in Places(toks),
             Before(f, p, e, q)
      PROVE  CallRank(toks, <<e, q>>) < CallRank(toks, <<f, p>>)
  <2>1. p \in 1..Len(toks)+1 /\ q \in 1..Len(toks)+1 /\ Order(e) \in 0..2 /\ Order(f) \in 0..2
    BY <1>1 DEF Places
  <2>2. CallRank(toks, <<e, q>>) = (Len(toks) + 1 - q) * 3 + Order(e)
    BY DEF CallRank
  <2>3. CallRank(toks, <<f, p>>) = (Len(toks) + 1 - p) * 3 + Order(f)
    BY DEF CallRank
  <2> QED BY <1>3, <2>1, <2>2, <2>3 DEF Before
<1> QED BY <1>2, <1>3

LEMMA SomeTable ==
    ASSUME NEW toks, Len(toks) \in Nat
    PROVE  Tables(toks) # {}
<1> DEFINE v(f, p) == IF f \in Loops THEN Found({}, p) ELSE Nil(p)
           g == [c \in ParseCalls(toks) |-> v(c[1], c[2])]
<1>1. ASSUME NEW f \in Kinds, NEW p \in Places(toks)
      PROVE  v(f, p) \in Results(toks, f, p) /\ v(f, p) \in Missed(toks, 1) \cup FoundFrom(toks, 1)
  <2>1. p \in p..Len(toks)+1 /\ p \in 1..Len(toks)+1 /\ {} \in SUBSET LinesOver(toks)
    BY DEF Places
  <2>2. v(f, p) \in Results(toks, f, p)
    BY <2>1, ResultOf
  <2>3. v(f, p) \in Missed(toks, 1) \cup FoundFrom(toks, 1)
    BY <2>1 DEF Missed, FoundFrom
  <2> QED BY <2>2, <2>3
<1>2. \A f \in Kinds, p \in Places(toks) : g[<<f, p>>] = v(f, p)
  <2>1. \A c \in ParseCalls(toks) : g[c] = v(c[1], c[2])
    OBVIOUS
  <2> HIDE DEF g, v
  <2> QED BY <2>1, CallsAre
<1>3. g \in [ParseCalls(toks) -> Missed(toks, 1) \cup FoundFrom(toks, 1)]
  <2>1. \A c \in ParseCalls(toks) : v(c[1], c[2]) \in Missed(toks, 1) \cup FoundFrom(toks, 1)
    BY <1>1, CallsAre
  <2> HIDE DEF v
  <2> QED BY <2>1
<1> HIDE DEF g, v
<1>4. g \in Tables(toks)
  BY <1>1, <1>2, <1>3 DEF Tables
<1> QED BY <1>4

\* What every parse function does at every position.
Parses(toks, g) == \A f \in Kinds : \A p \in Places(toks) : g[<<f, p>>] = ParseAt(toks, g, f, p)

\* The parse functions have a table, so Parse is what they return.
LEMMA ParseTable ==
    ASSUME NEW A, NEW toks \in Seq(A)
    PROVE  \E g \in Tables(toks) : Parses(toks, g)
<1> DEFINE D == ParseCalls(toks)
           n == Len(toks) * 3 + 2
           T == Tables(toks)
           rk == [c \in D |-> CallRank(toks, c)]
           F == [g \in T |-> [c \in D |-> ParseAt(toks, g, c[1], c[2])]]
<1>0. Len(toks) \in Nat /\ n \in Nat
  OBVIOUS
<1>1. rk \in [D -> 0..n] /\ \A c \in D : rk[c] = CallRank(toks, c)
  BY <1>0, CallRankIs
<1>2. T # {}
  BY <1>0, SomeTable
<1>3. \A g \in T : g = [c \in D |-> g[c]]
  BY DEF Tables
<1>a. ASSUME NEW g \in T, NEW h \in T, NEW f \in Kinds, NEW p \in Places(toks),
             \A e \in D : rk[e] < rk[<<f, p>>] => g[e] = h[e]
      PROVE  Agree(toks, g, h, f, p)
  <2> SUFFICES ASSUME NEW e \in Kinds, NEW q \in Places(toks), Before(f, p, e, q)
               PROVE  g[<<e, q>>] = h[<<e, q>>]
    BY DEF Agree
  <2>1. <<e, q>> \in D /\ <<f, p>> \in D
    BY CallsAre
  <2>2. CallRank(toks, <<e, q>>) < CallRank(toks, <<f, p>>)
    BY <1>0, CallRankIs
  <2>3. rk[<<e, q>>] < rk[<<f, p>>]
    BY <1>1, <2>1, <2>2
  <2> QED BY <1>a, <2>1, <2>3
<1>b. ASSUME NEW g \in T, NEW f \in Kinds, NEW p \in Places(toks)
      PROVE  /\ F[g][<<f, p>>] = ParseAt(toks, g, f, p)
             /\ ParseAt(toks, g, f, p) \in Results(toks, f, p)
  <2>1. \A c \in D : F[g][c] = ParseAt(toks, g, c[1], c[2])
    OBVIOUS
  <2>2. <<f, p>> \in D
    BY CallsAre
  <2>3. F[g][<<f, p>>] = ParseAt(toks, g, <<f, p>>[1], <<f, p>>[2])
    BY <2>1, <2>2
  <2>4. Agree(toks, g, g, f, p)
    BY DEF Agree
  <2> QED BY <2>3, <2>4, ParseStep
<1>4. ASSUME NEW g \in T PROVE F[g] \in T
  <2>1. F[g] = [c \in D |-> ParseAt(toks, g, c[1], c[2])]
    OBVIOUS
  <2> HIDE DEF F
  <2>2. \A f \in Kinds : \A p \in Places(toks) : F[g][<<f, p>>] \in Results(toks, f, p)
    BY <1>b
  <2>3. ASSUME NEW f \in Kinds, NEW p \in Places(toks)
        PROVE  \A v \in Results(toks, f, p) : v \in Missed(toks, 1) \cup FoundFrom(toks, 1)
    <3>1. p \in 1..Len(toks)+1
      BY DEF Places
    <3> QED BY <1>0, <3>1 DEF Results, Missed, FoundFrom
  <2>4. \A c \in D : F[g][c] \in Missed(toks, 1) \cup FoundFrom(toks, 1)
    <3> SUFFICES ASSUME NEW c \in D PROVE F[g][c] \in Missed(toks, 1) \cup FoundFrom(toks, 1)
      OBVIOUS
    <3>1. c[1] \in Kinds /\ c[2] \in Places(toks) /\ c = <<c[1], c[2]>>
      BY CallsAre
    <3>2. F[g][<<c[1], c[2]>>] \in Missed(toks, 1) \cup FoundFrom(toks, 1)
      BY <2>2, <2>3, <3>1
    <3> QED BY <3>1, <3>2
  <2>5. F[g] \in [D -> Missed(toks, 1) \cup FoundFrom(toks, 1)]
    BY <2>1, <2>4
  <2> QED BY <2>2, <2>5 DEF Tables
<1>5. F \in [T -> T]
  <2>1. F = [g \in T |-> F[g]]
    OBVIOUS
  <2> HIDE DEF F
  <2> QED BY <1>4, <2>1
<1>6. ASSUME NEW g \in T, NEW h \in T, NEW d \in D, \A e \in D : rk[e] < rk[d] => g[e] = h[e]
      PROVE  F[g][d] = F[h][d]
  <2>1. PICK f \in Kinds, p \in Places(toks) : d = <<f, p>>
    BY CallsAre
  <2>2. Agree(toks, g, h, f, p)
    BY <1>6, <1>a, <2>1
  <2>3. ParseAt(toks, h, f, p) = ParseAt(toks, g, f, p)
    BY <2>2, ParseStep
  <2> HIDE DEF F
  <2> QED BY <1>b, <2>1, <2>3
<1> HIDE DEF F, T, rk, n, D
<1>7. \E g \in T : F[g] = g
  <2>1. AsksBelow(D, rk, T, F) /\ FunctionsOn(D, T)
    BY <1>3, <1>6 DEF AsksBelow, AgreeBelow, FunctionsOn
  <2>2. n \in Nat /\ rk \in [D -> 0..n]
    BY <1>0, <1>1
  <2> QED BY <2>1, <2>2, <1>2, <1>5, RecursionExists
<1>8. PICK g \in T : F[g] = g
  BY <1>7
<1>9. Parses(toks, g)
  BY <1>b, <1>8 DEF Parses
<1> QED BY <1>9 DEF T

LEMMA ParseIs ==
    ASSUME NEW A, NEW toks \in Seq(A), NEW g \in Tables(toks), Parses(toks, g)
    PROVE  Parse(toks) = g[<<"or", 1>>]
<1> DEFINE D == ParseCalls(toks)
           P(h) == h = [c \in D |-> ParseAt(toks, h, c[1], c[2])]
           parse == CHOOSE h : P(h)
           rk == [c \in D |-> CallRank(toks, c)]
           n == Len(toks) * 3 + 2
<1>0. Len(toks) \in Nat /\ n \in Nat
  OBVIOUS
<1>1. P(g)
  <2>1. g = [c \in D |-> g[c]]
    BY DEF Tables
  <2>2. \A c \in D : g[c] = ParseAt(toks, g, c[1], c[2])
    BY CallsAre DEF Parses
  <2> QED BY <2>1, <2>2
<1>2. Parse(toks) = parse[<<"or", 1>>]
  BY DEF Parse
<1>3. P(parse)
  <2> HIDE DEF P
  <2> QED BY <1>1
<1> HIDE DEF parse
<1>4. \A c \in D : parse[c] = ParseAt(toks, parse, c[1], c[2])
  BY <1>3
<1> HIDE DEF P
<1>5. rk \in [D -> 0..n] /\ \A c \in D : rk[c] = CallRank(toks, c)
  BY <1>0, CallRankIs
<1>6. ASSUME NEW d \in D, \A e \in D : rk[e] < rk[d] => g[e] = parse[e]
      PROVE  g[d] = parse[d]
  <2>1. PICK f \in Kinds, p \in Places(toks) : d = <<f, p>>
    BY CallsAre
  <2>2. Agree(toks, g, parse, f, p)
    <3> SUFFICES ASSUME NEW e \in Kinds, NEW q \in Places(toks), Before(f, p, e, q)
                 PROVE  g[<<e, q>>] = parse[<<e, q>>]
      BY DEF Agree
    <3>1. <<e, q>> \in D /\ <<f, p>> \in D
      BY CallsAre
    <3>2. CallRank(toks, <<e, q>>) < CallRank(toks, <<f, p>>)
      BY <1>0, CallRankIs
    <3>3. rk[<<e, q>>] < rk[<<f, p>>]
      BY <1>5, <3>1, <3>2
    <3> QED BY <1>6, <2>1, <3>1, <3>3
  <2>3. ParseAt(toks, parse, f, p) = ParseAt(toks, g, f, p)
    BY <2>2, ParseStep
  <2>4. g[<<f, p>>] = ParseAt(toks, g, f, p)
    BY DEF Parses
  <2>5. parse[d] = ParseAt(toks, parse, d[1], d[2])
    BY <1>4
  <2>6. parse[d] = ParseAt(toks, parse, f, p)
    BY <2>1, <2>5
  <2> QED BY <2>1, <2>3, <2>4, <2>6
<1> HIDE DEF rk, n
<1>7. \A d \in D : g[d] = parse[d]
  <2> HIDE DEF D
  <2>1. AgreeStepwise(D, rk, g, parse)
    BY <1>6 DEF AgreeStepwise, AgreeBelow
  <2>2. n \in Nat /\ rk \in [D -> 0..n]
    BY <1>0, <1>5
  <2>3. AgreeOn(D, g, parse)
    BY <2>1, <2>2, SameByRank
  <2> QED BY <2>3 DEF AgreeOn
<1>8. <<"or", 1>> \in D
  <2>1. 1 \in Places(toks) /\ "or" \in Kinds
    BY <1>0 DEF Places, Kinds
  <2> QED BY <2>1, CallsAre
<1> QED BY <1>2, <1>7, <1>8

----------------------------------------------------------------------------
(* The table of the readings: what a form means on a span.                 *)

Forms == {"or", "and", "not"}
Starts(toks) == 1..Len(toks) + 1
Ends(toks) == 0..Len(toks)
ReadingSets(toks) == SUBSET SUBSET LinesOver(toks)
ReadTables(toks) == [Spans(toks) -> ReadingSets(toks)]
SpanRank(r) == IF r[2] > r[3] THEN 0 ELSE (r[3] + 1 - r[2]) * 3 + Order(r[1])
Inside(f, i, j, e, a, b) == b - a < j - i \/ (a = i /\ b = j /\ Order(e) < Order(f))
AgreeInside(toks, g, h, f, i, j) ==
    \A e \in Forms : \A a \in Starts(toks) : \A b \in Ends(toks) :
        Inside(f, i, j, e, a, b) => g[<<e, a, b>>] = h[<<e, a, b>>]

\* The spans, and their ranks.
LEMMA SpansAre ==
    ASSUME NEW toks
    PROVE  /\ \A f \in Forms, i \in Starts(toks), j \in Ends(toks) : <<f, i, j>> \in Spans(toks)
           /\ \A r \in Spans(toks) : /\ r[1] \in Forms /\ r[2] \in Starts(toks) /\ r[3] \in Ends(toks)
                                     /\ r = <<r[1], r[2], r[3]>>
BY DEF Spans, Forms, Starts, Ends

LEMMA SpanRankIs ==
    ASSUME NEW toks, Len(toks) \in Nat
    PROVE  /\ \A r \in Spans(toks) : SpanRank(r) \in 0..Len(toks) * 3 + 2
           /\ \A f \in Forms, i \in Starts(toks), j \in Ends(toks), e \in Forms, a \in Starts(toks), b \in Ends(toks) :
                 i <= j /\ Inside(f, i, j, e, a, b) => SpanRank(<<e, a, b>>) < SpanRank(<<f, i, j>>)
<1>1. \A f \in Forms : Order(f) \in 0..2
  BY DEF Order, Forms
<1>2. ASSUME NEW r \in Spans(toks) PROVE SpanRank(r) \in 0..Len(toks) * 3 + 2
  <2>1. r[2] \in 1..Len(toks)+1 /\ r[3] \in 0..Len(toks) /\ Order(r[1]) \in 0..2
    BY <1>1, SpansAre DEF Starts, Ends
  <2> QED BY <2>1 DEF SpanRank
<1>3. ASSUME NEW f \in Forms, NEW i \in Starts(toks), NEW j \in Ends(toks),
             NEW e \in Forms, NEW a \in Starts(toks), NEW b \in Ends(toks),
             i <= j, Inside(f, i, j, e, a, b)
      PROVE  SpanRank(<<e, a, b>>) < SpanRank(<<f, i, j>>)
  <2>1. i \in 1..Len(toks)+1 /\ j \in 0..Len(toks) /\ Order(f) \in 0..2
    BY <1>1 DEF Starts, Ends
  <2>2. a \in 1..Len(toks)+1 /\ b \in 0..Len(toks) /\ Order(e) \in 0..2
    BY <1>1 DEF Starts, Ends
  <2>3. SpanRank(<<e, a, b>>) = IF a > b THEN 0 ELSE (b + 1 - a) * 3 + Order(e)
    BY DEF SpanRank
  <2>4. SpanRank(<<f, i, j>>) = (j + 1 - i) * 3 + Order(f)
    BY <1>3, <2>1 DEF SpanRank
  <2> QED BY <1>3, <2>1, <2>2, <2>3, <2>4 DEF Inside
<1> QED BY <1>2, <1>3

\* Lines that are joined or met are lines.
LEMMA UnionsIn ==
    ASSUME NEW L, NEW X \in SUBSET SUBSET L, NEW Y \in SUBSET SUBSET L
    PROVE  Unions(X, Y) \in SUBSET SUBSET L /\ Meets(X, Y) \in SUBSET SUBSET L
BY DEF Unions, Meets

\* Each form asks only for shorter spans, or for a closer form on the same.
LEMMA ReadOrStep ==
    ASSUME NEW toks, Len(toks) \in Nat, NEW g \in ReadTables(toks), NEW h,
           NEW i \in Starts(toks), NEW j \in Ends(toks), i <= j, AgreeInside(toks, g, h, "or", i, j)
    PROVE  ReadOr(toks, g, i, j) \in ReadingSets(toks) /\ ReadOr(toks, h, i, j) = ReadOr(toks, g, i, j)
<1> DEFINE R(r, k) == Unions(r[<<"or", i, k - 1>>], r[<<"and", k + 1, j>>])
           J == {k \in i..j : toks[k].kind = "or"}
<1>1. i \in 1..Len(toks)+1 /\ j \in 0..Len(toks)
  BY DEF Starts, Ends
<1>2. g[<<"and", i, j>>] \in ReadingSets(toks) /\ h[<<"and", i, j>>] = g[<<"and", i, j>>]
  <2>1. <<"and", i, j>> \in Spans(toks)
    BY SpansAre DEF Forms
  <2>2. Inside("or", i, j, "and", i, j)
    BY DEF Inside, Order
  <2> QED BY <2>1, <2>2 DEF ReadTables, AgreeInside, Forms
<1>3. ASSUME NEW k \in J PROVE R(g, k) \in ReadingSets(toks) /\ R(h, k) = R(g, k)
  <2>1. k - 1 \in Ends(toks) /\ k + 1 \in Starts(toks) /\ k \in i..j
    BY <1>1 DEF Starts, Ends
  <2>2. <<"or", i, k - 1>> \in Spans(toks) /\ <<"and", k + 1, j>> \in Spans(toks)
    BY <2>1, SpansAre DEF Forms
  <2>3. g[<<"or", i, k - 1>>] \in ReadingSets(toks) /\ g[<<"and", k + 1, j>>] \in ReadingSets(toks)
    BY <2>2 DEF ReadTables
  <2>4. Inside("or", i, j, "or", i, k - 1) /\ Inside("or", i, j, "and", k + 1, j)
    BY <1>1, <2>1 DEF Inside
  <2>5. h[<<"or", i, k - 1>>] = g[<<"or", i, k - 1>>] /\ h[<<"and", k + 1, j>>] = g[<<"and", k + 1, j>>]
    BY <2>1, <2>4 DEF AgreeInside, Forms
  <2>6. R(g, k) \in ReadingSets(toks)
    <3> DEFINE X == g[<<"or", i, k - 1>>]  Y == g[<<"and", k + 1, j>>]
    <3>1. X \in SUBSET SUBSET LinesOver(toks) /\ Y \in SUBSET SUBSET LinesOver(toks)
      BY <2>3 DEF ReadingSets
    <3> HIDE DEF X, Y
    <3>2. Unions(X, Y) \in SUBSET SUBSET LinesOver(toks)
      BY <3>1, UnionsIn
    <3> QED BY <3>2 DEF ReadingSets, X, Y
  <2>7. R(h, k) = R(g, k)
    BY <2>5
  <2> QED BY <2>6, <2>7
<1>4. ReadOr(toks, g, i, j) = g[<<"and", i, j>>] \cup UNION {R(g, k) : k \in J}
  BY DEF ReadOr
<1>5. ReadOr(toks, h, i, j) = h[<<"and", i, j>>] \cup UNION {R(h, k) : k \in J}
  BY DEF ReadOr
<1> HIDE DEF R, J
<1>6. UNION {R(g, k) : k \in J} \in ReadingSets(toks)
  BY <1>3 DEF ReadingSets
<1>7. {R(g, k) : k \in J} = {R(h, k) : k \in J}
  BY <1>3
<1>8. ReadOr(toks, g, i, j) \in ReadingSets(toks)
  BY <1>2, <1>4, <1>6 DEF ReadingSets
<1> QED BY <1>2, <1>4, <1>5, <1>7, <1>8

LEMMA ReadAndStep ==
    ASSUME NEW toks, Len(toks) \in Nat, NEW g \in ReadTables(toks), NEW h,
           NEW i \in Starts(toks), NEW j \in Ends(toks), i <= j, AgreeInside(toks, g, h, "and", i, j)
    PROVE  ReadAnd(toks, g, i, j) \in ReadingSets(toks) /\ ReadAnd(toks, h, i, j) = ReadAnd(toks, g, i, j)
<1> DEFINE R(r, k) == Meets(r[<<"and", i, k - 1>>], r[<<"not", AfterAnd(toks, k), j>>])
           J == {k \in i+1..j : toks[k].kind \in {"and", "not", "(", "term"}}
<1>1. i \in 1..Len(toks)+1 /\ j \in 0..Len(toks)
  BY DEF Starts, Ends
<1>2. g[<<"not", i, j>>] \in ReadingSets(toks) /\ h[<<"not", i, j>>] = g[<<"not", i, j>>]
  <2>1. <<"not", i, j>> \in Spans(toks)
    BY SpansAre DEF Forms
  <2>2. Inside("and", i, j, "not", i, j)
    BY DEF Inside, Order
  <2> QED BY <2>1, <2>2 DEF ReadTables, AgreeInside, Forms
<1>3. ASSUME NEW k \in J PROVE R(g, k) \in ReadingSets(toks) /\ R(h, k) = R(g, k)
  <2> DEFINE a == AfterAnd(toks, k)
  <2>0. k \in i+1..j
    OBVIOUS
  <2>6. a = k \/ a = k + 1
    BY DEF AfterAnd
  <2> HIDE DEF a, J
  <2>1. k - 1 \in Ends(toks) /\ a \in Starts(toks)
    BY <1>1, <2>0, <2>6 DEF Starts, Ends
  <2>2. <<"and", i, k - 1>> \in Spans(toks) /\ <<"not", a, j>> \in Spans(toks)
    BY <2>1, SpansAre DEF Forms
  <2>3. g[<<"and", i, k - 1>>] \in ReadingSets(toks) /\ g[<<"not", a, j>>] \in ReadingSets(toks)
    BY <2>2 DEF ReadTables
  <2>4. Inside("and", i, j, "and", i, k - 1) /\ Inside("and", i, j, "not", a, j)
    BY <1>1, <2>0, <2>6 DEF Inside
  <2>5. h[<<"and", i, k - 1>>] = g[<<"and", i, k - 1>>] /\ h[<<"not", a, j>>] = g[<<"not", a, j>>]
    BY <2>1, <2>4 DEF AgreeInside, Forms
  <2>7. R(g, k) \in ReadingSets(toks)
    <3> DEFINE X == g[<<"and", i, k - 1>>]  Y == g[<<"not", a, j>>]
    <3>1. X \in SUBSET SUBSET LinesOver(toks) /\ Y \in SUBSET SUBSET LinesOver(toks)
      BY <2>3 DEF ReadingSets
    <3> HIDE DEF X, Y
    <3>2. Meets(X, Y) \in SUBSET SUBSET LinesOver(toks)
      BY <3>1, UnionsIn
    <3> QED BY <3>2 DEF ReadingSets, X, Y, a
  <2>8. R(h, k) = R(g, k)
    BY <2>5 DEF a
  <2> QED BY <2>7, <2>8
<1>4. ReadAnd(toks, g, i, j) = g[<<"not", i, j>>] \cup UNION {R(g, k) : k \in J}
  BY DEF ReadAnd
<1>5. ReadAnd(toks, h, i, j) = h[<<"not", i, j>>] \cup UNION {R(h, k) : k \in J}
  BY DEF ReadAnd
<1> HIDE DEF R, J
<1>6. UNION {R(g, k) : k \in J} \in ReadingSets(toks)
  BY <1>3 DEF ReadingSets
<1>7. {R(g, k) : k \in J} = {R(h, k) : k \in J}
  BY <1>3
<1>8. ReadAnd(toks, g, i, j) \in ReadingSets(toks)
  BY <1>2, <1>4, <1>6 DEF ReadingSets
<1> QED BY <1>2, <1>4, <1>5, <1>7, <1>8

LEMMA ReadNotStep ==
    ASSUME NEW toks, Len(toks) \in Nat, NEW g \in ReadTables(toks), NEW h,
           NEW i \in Starts(toks), NEW j \in Ends(toks), i <= j, AgreeInside(toks, g, h, "not", i, j)
    PROVE  ReadNot(toks, g, i, j) \in ReadingSets(toks) /\ ReadNot(toks, h, i, j) = ReadNot(toks, g, i, j)
<1>1. i \in 1..Len(toks)+1 /\ j \in 0..Len(toks)
  BY DEF Starts, Ends
<1>2. i + 1 \in Starts(toks) /\ j - 1 \in Ends(toks)
  BY <1>1 DEF Starts, Ends
<1>3. <<"not", i + 1, j>> \in Spans(toks) /\ <<"or", i + 1, j - 1>> \in Spans(toks)
  BY <1>2, SpansAre DEF Forms
<1>4. g[<<"not", i + 1, j>>] \in ReadingSets(toks) /\ g[<<"or", i + 1, j - 1>>] \in ReadingSets(toks)
  BY <1>3 DEF ReadTables
<1>5. Inside("not", i, j, "not", i + 1, j) /\ Inside("not", i, j, "or", i + 1, j - 1)
  BY <1>1 DEF Inside
<1>6. h[<<"not", i + 1, j>>] = g[<<"not", i + 1, j>>] /\ h[<<"or", i + 1, j - 1>>] = g[<<"or", i + 1, j - 1>>]
  BY <1>2, <1>5 DEF AgreeInside, Forms
<1>7. {LinesOver(toks) \ x : x \in g[<<"not", i + 1, j>>]} \in ReadingSets(toks)
  BY DEF ReadingSets
<1>8. {Holding(toks, i)} \in ReadingSets(toks) /\ {} \in ReadingSets(toks)
  BY DEF ReadingSets, Holding
<1>9. ReadNot(toks, h, i, j) = ReadNot(toks, g, i, j)
  BY <1>6 DEF ReadNot
<1>10. CASE toks[i].kind = "not"
  BY <1>7, <1>9, <1>10 DEF ReadNot
<1>11. CASE toks[i].kind = "term" /\ i = j
  BY <1>8, <1>9, <1>11 DEF ReadNot
<1>12. CASE toks[i].kind = "(" /\ toks[j].kind = ")"
  BY <1>4, <1>9, <1>12 DEF ReadNot
<1>13. CASE toks[i].kind # "not" /\ ~(toks[i].kind = "term" /\ i = j) /\ ~(toks[i].kind = "(" /\ toks[j].kind = ")")
  BY <1>8, <1>9, <1>13 DEF ReadNot
<1> QED BY <1>10, <1>11, <1>12, <1>13

LEMMA ReadStep ==
    ASSUME NEW toks, Len(toks) \in Nat, NEW g \in ReadTables(toks), NEW h, NEW f \in Forms,
           NEW i \in Starts(toks), NEW j \in Ends(toks), i <= j => AgreeInside(toks, g, h, f, i, j)
    PROVE  /\ ReadAs(toks, g, f, i, j) \in ReadingSets(toks)
           /\ ReadAs(toks, h, f, i, j) = ReadAs(toks, g, f, i, j)
<1>1. CASE i > j
  BY <1>1 DEF ReadAs, ReadingSets
<1>2. CASE ~(i > j)
  <2>1. i <= j
    BY <1>2 DEF Starts, Ends
  <2>2. CASE f = "or"
    BY <1>2, <2>1, <2>2, ReadOrStep DEF ReadAs
  <2>3. CASE f = "and"
    BY <1>2, <2>1, <2>3, ReadAndStep DEF ReadAs
  <2>4. CASE f = "not"
    BY <1>2, <2>1, <2>4, ReadNotStep DEF ReadAs
  <2> QED BY <2>2, <2>3, <2>4 DEF Forms
<1> QED BY <1>1, <1>2

\* What every form means on every span.
Reads(toks, r) ==
    \A f \in Forms : \A i \in Starts(toks) : \A j \in Ends(toks) :
        r[<<f, i, j>>] = ReadAs(toks, r, f, i, j)

\* The readings have a table, so Readings is what it says.
LEMMA ReadTable ==
    ASSUME NEW toks, Len(toks) \in Nat
    PROVE  \E g \in ReadTables(toks) : g = [r \in Spans(toks) |-> ReadAs(toks, g, r[1], r[2], r[3])]
<1> DEFINE D == Spans(toks)
           n == Len(toks) * 3 + 2
           T == ReadTables(toks)
           rk == [c \in D |-> SpanRank(c)]
           F == [g \in T |-> [c \in D |-> ReadAs(toks, g, c[1], c[2], c[3])]]
<1>0. n \in Nat
  OBVIOUS
<1>1. rk \in [D -> 0..n] /\ \A c \in D : rk[c] = SpanRank(c)
  BY <1>0, SpanRankIs
<1>2. T # {}
  <2>1. [c \in D |-> {}] \in T
    BY DEF ReadTables, ReadingSets
  <2> QED BY <2>1
<1>3. FunctionsOn(D, T)
  BY DEF ReadTables, FunctionsOn
<1>a. ASSUME NEW g \in T, NEW h \in T, NEW f \in Forms, NEW i \in Starts(toks), NEW j \in Ends(toks),
             i <= j, AgreeBelow(D, rk, <<f, i, j>>, g, h)
      PROVE  AgreeInside(toks, g, h, f, i, j)
  <2> SUFFICES ASSUME NEW e \in Forms, NEW a \in Starts(toks), NEW b \in Ends(toks), Inside(f, i, j, e, a, b)
               PROVE  g[<<e, a, b>>] = h[<<e, a, b>>]
    BY DEF AgreeInside
  <2>1. <<e, a, b>> \in D /\ <<f, i, j>> \in D
    BY SpansAre
  <2>2. SpanRank(<<e, a, b>>) < SpanRank(<<f, i, j>>)
    BY <1>a, SpanRankIs
  <2>3. rk[<<e, a, b>>] < rk[<<f, i, j>>]
    BY <1>1, <2>1, <2>2
  <2> QED BY <1>a, <2>1, <2>3 DEF AgreeBelow
<1>b. ASSUME NEW g \in T, NEW c \in D
      PROVE  /\ F[g][c] = ReadAs(toks, g, c[1], c[2], c[3])
             /\ ReadAs(toks, g, c[1], c[2], c[3]) \in ReadingSets(toks)
  <2>1. F[g][c] = ReadAs(toks, g, c[1], c[2], c[3])
    OBVIOUS
  <2>2. c[1] \in Forms /\ c[2] \in Starts(toks) /\ c[3] \in Ends(toks)
    BY SpansAre
  <2>3. AgreeInside(toks, g, g, c[1], c[2], c[3])
    BY DEF AgreeInside
  <2>4. ReadAs(toks, g, c[1], c[2], c[3]) \in ReadingSets(toks)
    <3> HIDE DEF F
    <3> QED BY <2>2, <2>3, ReadStep
  <2> QED BY <2>1, <2>4
<1>5. F \in [T -> T]
  <2>1. F = [g \in T |-> F[g]] /\ \A g \in T : F[g] = [c \in D |-> F[g][c]]
    OBVIOUS
  <2> HIDE DEF F
  <2>2. \A g \in T : F[g] \in T
    BY <1>b, <2>1 DEF ReadTables
  <2> QED BY <2>1, <2>2
<1>6. ASSUME NEW g \in T, NEW h \in T, NEW d \in D, AgreeBelow(D, rk, d, g, h)
      PROVE  F[g][d] = F[h][d]
  <2>1. d[1] \in Forms /\ d[2] \in Starts(toks) /\ d[3] \in Ends(toks) /\ d = <<d[1], d[2], d[3]>>
    BY SpansAre
  <2>2. d[2] <= d[3] => AgreeInside(toks, g, h, d[1], d[2], d[3])
    BY <1>6, <1>a, <2>1
  <2>3. ReadAs(toks, h, d[1], d[2], d[3]) = ReadAs(toks, g, d[1], d[2], d[3])
    BY <2>1, <2>2, ReadStep
  <2> HIDE DEF F
  <2> QED BY <1>b, <2>3
<1>7. ASSUME NEW g \in T, F[g] = g
      PROVE  g = [c \in D |-> ReadAs(toks, g, c[1], c[2], c[3])]
  BY <1>7
<1> HIDE DEF F, T, rk, n, D
<1>8. \E g \in T : F[g] = g
  <2>1. AsksBelow(D, rk, T, F)
    BY <1>6 DEF AsksBelow
  <2>2. n \in Nat /\ rk \in [D -> 0..n]
    BY <1>0, <1>1
  <2> QED BY <2>1, <2>2, <1>2, <1>3, <1>5, RecursionExists
<1>9. PICK g \in T : F[g] = g
  BY <1>8
<1>10. g = [c \in D |-> ReadAs(toks, g, c[1], c[2], c[3])]
  BY <1>7, <1>9
<1> QED BY <1>9, <1>10 DEF T, D

LEMMA ReadingsAre ==
    ASSUME NEW toks, Len(toks) \in Nat
    PROVE  \E r : Reads(toks, r) /\ Readings(toks) = r[<<"or", 1, Len(toks)>>]
<1> DEFINE D == Spans(toks)
           P(h) == h = [c \in D |-> ReadAs(toks, h, c[1], c[2], c[3])]
           reads == CHOOSE h : P(h)
<1>1. \E h : P(h)
  BY ReadTable
<1>2. Readings(toks) = reads[<<"or", 1, Len(toks)>>]
  BY DEF Readings
<1>3. P(reads)
  <2> HIDE DEF P
  <2> QED BY <1>1
<1> HIDE DEF reads
<1>4. \A c \in D : reads[c] = ReadAs(toks, reads, c[1], c[2], c[3])
  BY <1>3
<1> HIDE DEF P
<1>5. Reads(toks, reads)
  <2> SUFFICES ASSUME NEW f \in Forms, NEW i \in Starts(toks), NEW j \in Ends(toks)
               PROVE  reads[<<f, i, j>>] = ReadAs(toks, reads, f, i, j)
    BY DEF Reads
  <2>1. <<f, i, j>> \in D
    BY SpansAre
  <2>2. <<f, i, j>>[1] = f /\ <<f, i, j>>[2] = i /\ <<f, i, j>>[3] = j
    OBVIOUS
  <2> QED BY <1>4, <2>1, <2>2
<1> QED BY <1>2, <1>5

----------------------------------------------------------------------------
(* The parser finds what is read: by induction on the length of the span.  *)

\* How a form that is read on a span comes out of the parse functions, which go on
\* behind it.
NotClaim(toks, g, r, i, j) ==
    \A x \in r[<<"not", i, j>>] : x \in SUBSET LinesOver(toks) /\ g[<<"not", i>>] = Found(x, j + 1)
AndClaim(toks, g, r, i, j) ==
    \A x \in r[<<"and", i, j>>] :
        /\ x \in SUBSET LinesOver(toks)
        /\ g[<<"and", i>>] = Found(x \cap g[<<"ands", j + 1>>].node, g[<<"ands", j + 1>>].pos)
OrClaim(toks, g, r, i, j) ==
    EndsAnd(KindAt(toks, j + 1)) =>
        \A x \in r[<<"or", i, j>>] :
            /\ x \in SUBSET LinesOver(toks)
            /\ g[<<"or", i>>] = Found(x \cup g[<<"ors", j + 1>>].node, g[<<"ors", j + 1>>].pos)
Claim(toks, g, r, i, j) ==
    NotClaim(toks, g, r, i, j) /\ AndClaim(toks, g, r, i, j) /\ OrClaim(toks, g, r, i, j)
ClaimWithin(toks, g, r, i, j) ==
    \A a \in 1..Len(toks) : \A b \in 1..Len(toks) : a <= b /\ b - a < j - i => Claim(toks, g, r, a, b)

LEMMA FoundIs == \A x, q : Found(x, q).node = x /\ Found(x, q).pos = q /\ ~Found(x, q).nil
BY DEF Found

\* Nothing is read on a span that is empty.
LEMMA NothingRead ==
    ASSUME NEW toks, NEW r, Reads(toks, r), NEW f \in Forms, NEW i \in Starts(toks), NEW j \in Ends(toks),
           r[<<f, i, j>>] # {}
    PROVE  i <= j
BY DEF Reads, ReadAs, Starts, Ends

\* A loop ends where it has no joint.
LEMMA LoopEnds ==
    ASSUME NEW toks, NEW g, Parses(toks, g), NEW p \in Places(toks)
    PROVE  /\ KindAt(toks, p) # "or" => g[<<"ors", p>>] = Found({}, p)
           /\ EndsAnd(KindAt(toks, p)) => g[<<"ands", p>>] = Found(LinesOver(toks), p)
<1>1. g[<<"ors", p>>] = OrLoop(toks, g, p) /\ g[<<"ands", p>>] = AndLoop(toks, g, p)
  BY DEF Parses, Kinds, ParseAt
<1> QED BY <1>1 DEF OrLoop, AndLoop

\* An operand that is read is found.
LEMMA NotClaimed ==
    ASSUME NEW A, NEW toks \in Seq(A), NEW g \in Tables(toks), Parses(toks, g), NEW r, Reads(toks, r),
           NEW i \in 1..Len(toks), NEW j \in 1..Len(toks), i <= j, ClaimWithin(toks, g, r, i, j)
    PROVE  NotClaim(toks, g, r, i, j)
<1> SUFFICES ASSUME NEW x \in r[<<"not", i, j>>]
             PROVE  x \in SUBSET LinesOver(toks) /\ g[<<"not", i>>] = Found(x, j + 1)
  BY DEF NotClaim
<1> DEFINE n == Len(toks)
<1>0. n \in Nat /\ DOMAIN toks = 1..n
  BY SeqDom
<1>1. i \in Places(toks) /\ i \in Starts(toks) /\ j \in Ends(toks) /\ i + 1 \in Starts(toks) /\ j - 1 \in Ends(toks)
      /\ j \in Places(toks) /\ j + 1 \in Places(toks)
  BY <1>0 DEF Places, Starts, Ends
<1>2. x \in ReadNot(toks, r, i, j)
  <2>1. r[<<"not", i, j>>] = ReadAs(toks, r, "not", i, j)
    BY <1>1 DEF Reads, Forms
  <2> QED BY <2>1 DEF ReadAs
<1>3. g[<<"not", i>>] = ParseNot(toks, g, i) /\ g[<<"not", i>>] \in Results(toks, "not", i)
  BY <1>1, TableAt DEF Parses, Kinds, ParseAt
<1>4. KindAt(toks, i) = toks[i].kind /\ KindAt(toks, j) = toks[j].kind
  BY <1>0 DEF KindAt
<1>5. ASSUME g[<<"not", i>>] = Found(x, j + 1) PROVE x \in SUBSET LinesOver(toks)
  <2>1. ~Found(x, j + 1).nil /\ Found(x, j + 1).node = x
    BY FoundIs
  <2> QED BY <1>0, <1>1, <1>3, <1>5, <2>1, ResultIs DEF Kinds
<1>6. CASE toks[i].kind = "not"
  <2>1. PICK y \in r[<<"not", i + 1, j>>] : x = LinesOver(toks) \ y
    BY <1>2, <1>6 DEF ReadNot
  <2>2. i + 1 <= j
    BY <1>1, <2>1, NothingRead DEF Forms
  <2>3. g[<<"not", i + 1>>] = Found(y, j + 1)
    <3>1. i + 1 \in 1..n /\ j - (i + 1) < j - i
      BY <1>0, <2>2
    <3>2. NotClaim(toks, g, r, i + 1, j)
      BY <2>2, <3>1 DEF ClaimWithin, Claim
    <3> QED BY <2>1, <3>2 DEF NotClaim
  <2>4. Negated(toks, Found(y, j + 1)) = Found(LinesOver(toks) \ y, j + 1)
    BY FoundIs DEF Negated
  <2>5. ParseNot(toks, g, i) = Negated(toks, g[<<"not", i + 1>>])
    BY <1>4, <1>6 DEF ParseNot
  <2>6. g[<<"not", i>>] = Found(x, j + 1)
    BY <1>3, <2>1, <2>3, <2>4, <2>5
  <2> QED BY <1>5, <2>6
<1>7. CASE toks[i].kind = "term" /\ i = j
  <2>1. x = Holding(toks, i)
    BY <1>2, <1>7 DEF ReadNot
  <2>2. ParseNot(toks, g, i) = Found(Holding(toks, i), i + 1)
    BY <1>4, <1>7 DEF ParseNot
  <2> QED BY <1>3, <1>5, <1>7, <2>1, <2>2
<1>8. CASE toks[i].kind = "(" /\ toks[j].kind = ")"
  <2>1. x \in r[<<"or", i + 1, j - 1>>]
    BY <1>2, <1>8 DEF ReadNot
  <2>2. i + 1 <= j - 1
    BY <1>1, <2>1, NothingRead DEF Forms
  <2>3. g[<<"or", i + 1>>] = Found(x, j)
    <3>1. i + 1 \in 1..n /\ j - 1 \in 1..n /\ (j - 1) - (i + 1) < j - i /\ (j - 1) + 1 = j
      BY <1>0, <2>2
    <3>2. OrClaim(toks, g, r, i + 1, j - 1)
      BY <2>2, <3>1 DEF ClaimWithin, Claim
    <3>3. EndsAnd(KindAt(toks, j)) /\ KindAt(toks, j) # "or"
      BY <1>4, <1>8 DEF EndsAnd
    <3>4. g[<<"or", i + 1>>] = Found(x \cup g[<<"ors", j>>].node, g[<<"ors", j>>].pos)
      BY <2>1, <3>1, <3>2, <3>3 DEF OrClaim
    <3>5. g[<<"ors", j>>] = Found({}, j)
      BY <1>1, <3>3, LoopEnds
    <3>6. g[<<"ors", j>>].node = {} /\ g[<<"ors", j>>].pos = j
      BY <3>5, FoundIs
    <3>7. x \cup {} = x
      OBVIOUS
    <3> QED BY <3>4, <3>6, <3>7
  <2>4. Grouped(toks, Found(x, j)) = Found(x, j + 1)
    BY <1>4, <1>8, FoundIs DEF Grouped
  <2>5. ParseNot(toks, g, i) = Grouped(toks, g[<<"or", i + 1>>])
    BY <1>4, <1>8 DEF ParseNot
  <2>6. g[<<"not", i>>] = Found(x, j + 1)
    BY <1>3, <2>3, <2>4, <2>5
  <2> QED BY <1>5, <2>6
<1>9. CASE toks[i].kind # "not" /\ ~(toks[i].kind = "term" /\ i = j) /\ ~(toks[i].kind = "(" /\ toks[j].kind = ")")
  BY <1>2, <1>9 DEF ReadNot
<1> QED BY <1>6, <1>7, <1>8, <1>9

\* A conjunction that is read is found: its loop goes on at the last joint.
LEMMA AndClaimed ==
    ASSUME NEW A, NEW toks \in Seq(A), NEW g \in Tables(toks), Parses(toks, g), NEW r, Reads(toks, r),
           NEW i \in 1..Len(toks), NEW j \in 1..Len(toks), i <= j, ClaimWithin(toks, g, r, i, j),
           NotClaim(toks, g, r, i, j)
    PROVE  AndClaim(toks, g, r, i, j)
<1> DEFINE n == Len(toks)
           rest == g[<<"ands", j + 1>>]
<1> SUFFICES ASSUME NEW x \in r[<<"and", i, j>>]
             PROVE  x \in SUBSET LinesOver(toks) /\ g[<<"and", i>>] = Found(x \cap rest.node, rest.pos)
  BY DEF AndClaim
<1>0. n \in Nat /\ DOMAIN toks = 1..n
  BY SeqDom
<1>1. i \in Places(toks) /\ i \in Starts(toks) /\ j \in Ends(toks)
  BY <1>0 DEF Places, Starts, Ends
<1>2. x \in ReadAnd(toks, r, i, j)
  <2>1. r[<<"and", i, j>>] = ReadAs(toks, r, "and", i, j)
    BY <1>1 DEF Reads, Forms
  <2> QED BY <2>1 DEF ReadAs
<1>3. g[<<"and", i>>] = ParseAnd(g, i)
  BY <1>1 DEF Parses, Kinds, ParseAt
<1>4. CASE x \in r[<<"not", i, j>>]
  <2>1. g[<<"not", i>>] = Found(x, j + 1) /\ x \in SUBSET LinesOver(toks)
    BY <1>4 DEF NotClaim
  <2>2. ParseAnd(g, i) = Found(x \cap rest.node, rest.pos)
    <3>1. LET left == g[<<"not", i>>] IN left.node = x /\ left.pos = j + 1 /\ ~left.nil
      BY <2>1, FoundIs
    <3> QED BY <3>1 DEF ParseAnd
  <2> QED BY <1>3, <2>1, <2>2
<1>5. ASSUME NEW k \in i+1..j, toks[k].kind \in {"and", "not", "(", "term"},
             x \in Meets(r[<<"and", i, k - 1>>], r[<<"not", AfterAnd(toks, k), j>>])
      PROVE  x \in SUBSET LinesOver(toks) /\ g[<<"and", i>>] = Found(x \cap rest.node, rest.pos)
  <2> DEFINE a == AfterAnd(toks, k)
  <2>1. PICK y \in r[<<"and", i, k - 1>>], z \in r[<<"not", a, j>>] : x = y \cap z
    <3> DEFINE X == r[<<"and", i, k - 1>>]  Y == r[<<"not", a, j>>]
    <3>1. x \in Meets(X, Y)
      BY <1>5
    <3> HIDE DEF X, Y
    <3>2. \E y \in X, z \in Y : x = y \cap z
      BY <3>1 DEF Meets
    <3> QED BY <3>2 DEF X, Y
  <2>2. k \in 1..n /\ k \in Places(toks) /\ KindAt(toks, k) = toks[k].kind
    BY <1>0 DEF Places, KindAt
  <2>3. ~EndsAnd(KindAt(toks, k))
    BY <1>5, <2>2 DEF EndsAnd
  <2>4. a = k \/ a = k + 1
    BY DEF AfterAnd
  <2>h. a = AfterAnd(toks, k)
    OBVIOUS
  <2> HIDE DEF a
  <2>5. a <= j
    <3>1. a \in Starts(toks)
      BY <1>0, <2>2, <2>4 DEF Starts
    <3> QED BY <1>1, <2>1, <3>1, NothingRead DEF Forms
  <2>6. /\ y \in SUBSET LinesOver(toks)
        /\ g[<<"and", i>>] = Found(y \cap g[<<"ands", k>>].node, g[<<"ands", k>>].pos)
    <3>1. k - 1 \in 1..n /\ i <= k - 1 /\ (k - 1) - i < j - i /\ (k - 1) + 1 = k
      BY <1>0
    <3>2. AndClaim(toks, g, r, i, k - 1)
      BY <3>1 DEF ClaimWithin, Claim
    <3> QED BY <2>1, <3>1, <3>2 DEF AndClaim
  <2>7. z \in SUBSET LinesOver(toks) /\ g[<<"not", a>>] = Found(z, j + 1)
    <3>1. a \in 1..n /\ j - a < j - i
      BY <1>0, <2>2, <2>4, <2>5
    <3>2. NotClaim(toks, g, r, a, j)
      BY <2>5, <3>1 DEF ClaimWithin, Claim
    <3> QED BY <2>1, <3>2 DEF NotClaim
  <2>8. g[<<"ands", k>>] = Found(z \cap rest.node, rest.pos)
    <3>1. g[<<"ands", k>>] = AndLoop(toks, g, k)
      BY <2>2 DEF Parses, Kinds, ParseAt
    <3>2. LET right == g[<<"not", a>>] IN right.node = z /\ right.pos = j + 1 /\ ~right.nil
      BY <2>7, FoundIs
    <3> QED BY <2>3, <2>h, <3>1, <3>2 DEF AndLoop
  <2>9. g[<<"and", i>>] = Found(y \cap (z \cap rest.node), rest.pos)
    <3> HIDE DEF rest
    <3>1. LET more == g[<<"ands", k>>] IN more.node = z \cap rest.node /\ more.pos = rest.pos
      BY <2>8, FoundIs
    <3> QED BY <2>6, <3>1
  <2>10. y \cap (z \cap rest.node) = x \cap rest.node
    BY <2>1
  <2> QED BY <2>1, <2>6, <2>9, <2>10
<1>6. \/ x \in r[<<"not", i, j>>]
      \/ \E k \in i+1..j : /\ toks[k].kind \in {"and", "not", "(", "term"}
                           /\ x \in Meets(r[<<"and", i, k - 1>>], r[<<"not", AfterAnd(toks, k), j>>])
  BY <1>2 DEF ReadAnd
<1> QED BY <1>4, <1>5, <1>6

\* A line of a union is put together of two.
LEMMA UnionOf ==
    ASSUME NEW X, NEW Y, NEW x \in Unions(X, Y)
    PROVE  \E y \in X, z \in Y : x = y \cup z
BY DEF Unions

\* A disjunction that is read is found: its loop goes on at the last joint.
LEMMA OrClaimed ==
    ASSUME NEW A, NEW toks \in Seq(A), NEW g \in Tables(toks), Parses(toks, g), NEW r, Reads(toks, r),
           NEW i \in 1..Len(toks), NEW j \in 1..Len(toks), i <= j, ClaimWithin(toks, g, r, i, j),
           AndClaim(toks, g, r, i, j)
    PROVE  OrClaim(toks, g, r, i, j)
<1> DEFINE n == Len(toks)
           rest == g[<<"ors", j + 1>>]
<1> SUFFICES ASSUME EndsAnd(KindAt(toks, j + 1)), NEW x \in r[<<"or", i, j>>]
             PROVE  x \in SUBSET LinesOver(toks) /\ g[<<"or", i>>] = Found(x \cup rest.node, rest.pos)
  BY DEF OrClaim
<1>0. n \in Nat /\ DOMAIN toks = 1..n
  BY SeqDom
<1>1. i \in Places(toks) /\ i \in Starts(toks) /\ j \in Ends(toks) /\ j + 1 \in Places(toks)
  BY <1>0 DEF Places, Starts, Ends
<1>2. x \in ReadOr(toks, r, i, j)
  <2>1. r[<<"or", i, j>>] = ReadAs(toks, r, "or", i, j)
    BY <1>1 DEF Reads, Forms
  <2> QED BY <2>1 DEF ReadAs
<1>3. g[<<"or", i>>] = ParseOr(g, i)
  BY <1>1 DEF Parses, Kinds, ParseAt
<1>a. g[<<"ands", j + 1>>].node = LinesOver(toks) /\ g[<<"ands", j + 1>>].pos = j + 1
  <2>1. g[<<"ands", j + 1>>] = Found(LinesOver(toks), j + 1)
    BY <1>1, LoopEnds
  <2> QED BY <2>1, FoundIs
<1>4. CASE x \in r[<<"and", i, j>>]
  <2>1. g[<<"and", i>>] = Found(x \cap LinesOver(toks), j + 1) /\ x \in SUBSET LinesOver(toks)
    BY <1>4, <1>a DEF AndClaim
  <2>2. x \cap LinesOver(toks) = x
    BY <2>1
  <2>3. ParseOr(g, i) = Found(x \cup rest.node, rest.pos)
    <3>0. g[<<"and", i>>] = Found(x, j + 1)
      BY <2>1, <2>2
    <3>1. LET left == g[<<"and", i>>] IN left.node = x /\ left.pos = j + 1 /\ ~left.nil
      BY <3>0, FoundIs
    <3> QED BY <3>1 DEF ParseOr
  <2> QED BY <1>3, <2>1, <2>3
<1>5. ASSUME NEW k \in i..j, toks[k].kind = "or",
             x \in Unions(r[<<"or", i, k - 1>>], r[<<"and", k + 1, j>>])
      PROVE  x \in SUBSET LinesOver(toks) /\ g[<<"or", i>>] = Found(x \cup rest.node, rest.pos)
  <2>1. PICK y \in r[<<"or", i, k - 1>>], z \in r[<<"and", k + 1, j>>] : x = y \cup z
    BY <1>5, UnionOf
  <2>2. k \in 1..n /\ k \in Places(toks) /\ KindAt(toks, k) = toks[k].kind
    BY <1>0 DEF Places, KindAt
  <2>3. EndsAnd(KindAt(toks, k))
    BY <1>5, <2>2 DEF EndsAnd
  <2>4. i <= k - 1 /\ k + 1 <= j
    <3>1. k + 1 \in Starts(toks) /\ k - 1 \in Ends(toks)
      BY <1>0, <2>2 DEF Starts, Ends
    <3> QED BY <1>1, <2>1, <3>1, NothingRead DEF Forms
  <2>6. /\ y \in SUBSET LinesOver(toks)
        /\ g[<<"or", i>>] = Found(y \cup g[<<"ors", k>>].node, g[<<"ors", k>>].pos)
    <3>1. k - 1 \in 1..n /\ (k - 1) - i < j - i /\ (k - 1) + 1 = k
      BY <1>0, <2>4
    <3>2. OrClaim(toks, g, r, i, k - 1)
      BY <2>4, <3>1 DEF ClaimWithin, Claim
    <3> QED BY <2>1, <2>3, <3>1, <3>2 DEF OrClaim
  <2>7. z \in SUBSET LinesOver(toks) /\ g[<<"and", k + 1>>] = Found(z, j + 1)
    <3>1. k + 1 \in 1..n /\ j - (k + 1) < j - i
      BY <1>0, <2>2, <2>4
    <3>2. AndClaim(toks, g, r, k + 1, j)
      BY <2>4, <3>1 DEF ClaimWithin, Claim
    <3>3. z \in SUBSET LinesOver(toks) /\ g[<<"and", k + 1>>] = Found(z \cap LinesOver(toks), j + 1)
      BY <1>a, <2>1, <3>2 DEF AndClaim
    <3>4. z \cap LinesOver(toks) = z
      BY <3>3
    <3> QED BY <3>3, <3>4
  <2>8. g[<<"ors", k>>] = Found(z \cup rest.node, rest.pos)
    <3>1. g[<<"ors", k>>] = OrLoop(toks, g, k)
      BY <2>2 DEF Parses, Kinds, ParseAt
    <3>2. LET right == g[<<"and", k + 1>>] IN right.node = z /\ right.pos = j + 1 /\ ~right.nil
      BY <2>7, FoundIs
    <3> QED BY <1>5, <2>2, <3>1, <3>2 DEF OrLoop
  <2>9. g[<<"or", i>>] = Found(y \cup (z \cup rest.node), rest.pos)
    <3> HIDE DEF rest
    <3>1. LET more == g[<<"ors", k>>] IN more.node = z \cup rest.node /\ more.pos = rest.pos
      BY <2>8, FoundIs
    <3> QED BY <2>6, <3>1
  <2>10. y \cup (z \cup rest.node) = x \cup rest.node
    BY <2>1
  <2> QED BY <2>1, <2>6, <2>7, <2>9, <2>10
<1>6. \/ x \in r[<<"and", i, j>>]
      \/ \E k \in i..j : /\ toks[k].kind = "or"
                         /\ x \in Unions(r[<<"or", i, k - 1>>], r[<<"and", k + 1, j>>])
  BY <1>2 DEF ReadOr
<1> QED BY <1>4, <1>5, <1>6

\* Whatever is read on any span is found.
LEMMA AllClaimed ==
    ASSUME NEW A, NEW toks \in Seq(A), NEW g \in Tables(toks), Parses(toks, g), NEW r, Reads(toks, r)
    PROVE  \A i \in 1..Len(toks) : \A j \in 1..Len(toks) : i <= j => Claim(toks, g, r, i, j)
<1> DEFINE n == Len(toks)
           S == {m \in 0..n : \A i \in 1..n : \A j \in 1..n : i <= j /\ j - i < m => Claim(toks, g, r, i, j)}
<1>0. n \in Nat
  OBVIOUS
<1>1. 0 \in S
  <2>1. 0 \in 0..n
    BY <1>0
  <2> HIDE DEF n
  <2> QED BY <2>1
<1>2. ASSUME NEW m \in 1..n, m - 1 \in S PROVE m \in S
  <2> SUFFICES ASSUME NEW i \in 1..n, NEW j \in 1..n, i <= j, j - i < m PROVE Claim(toks, g, r, i, j)
    BY <1>0
  <2>1. ClaimWithin(toks, g, r, i, j)
    <3> SUFFICES ASSUME NEW a \in 1..n, NEW b \in 1..n, a <= b, b - a < j - i PROVE Claim(toks, g, r, a, b)
      BY DEF ClaimWithin
    <3>1. b - a < m - 1
      OBVIOUS
    <3> QED BY <1>2, <3>1
  <2> HIDE DEF S
  <2>2. NotClaim(toks, g, r, i, j)
    BY <2>1, NotClaimed
  <2>3. AndClaim(toks, g, r, i, j)
    BY <2>1, <2>2, AndClaimed
  <2>4. OrClaim(toks, g, r, i, j)
    BY <2>1, <2>3, OrClaimed
  <2> QED BY <2>2, <2>3, <2>4 DEF Claim
<1>3. \A m \in 1..n : m - 1 \in S => m \in S
  BY <1>2
<1> HIDE DEF S
<1>4. n \in S
  <2> HIDE DEF n
  <2>1. \A k \in 0..n : k \in S
    BY <1>0, <1>1, <1>3, AllUpto
  <2> QED BY <1>0, <2>1
<1>5. \A i \in 1..n : \A j \in 1..n : i <= j /\ j - i < n => Claim(toks, g, r, i, j)
  BY <1>4 DEF S
<1> SUFFICES ASSUME NEW i \in 1..n, NEW j \in 1..n, i <= j PROVE Claim(toks, g, r, i, j)
  OBVIOUS
<1>6. j - i < n
  BY <1>0
<1> QED BY <1>5, <1>6

\* The parser finds what is read, whatever the tokens are.
LEMMA ReadingFound ==
    ASSUME NEW A, NEW toks \in Seq(A), NEW x \in Readings(toks)
    PROVE  Parse(toks) = Found(x, Len(toks) + 1)
<1> DEFINE n == Len(toks)
<1>0. n \in Nat /\ DOMAIN toks = 1..n
  BY SeqDom
<1>1. PICK g \in Tables(toks) : Parses(toks, g)
  BY ParseTable
<1>2. PICK r : Reads(toks, r) /\ Readings(toks) = r[<<"or", 1, n>>]
  BY <1>0, ReadingsAre
<1>3. 1 <= n
  <2>1. 1 \in Starts(toks) /\ n \in Ends(toks)
    BY <1>0 DEF Starts, Ends
  <2> QED BY <1>2, <2>1, NothingRead DEF Forms
<1>4. OrClaim(toks, g, r, 1, n)
  <2>1. 1 \in 1..n /\ n \in 1..n
    BY <1>0, <1>3
  <2> QED BY <1>1, <1>2, <1>3, <2>1, AllClaimed DEF Claim
<1>5. KindAt(toks, n + 1) = "end" /\ n + 1 \in Places(toks)
  BY <1>0 DEF KindAt, Places
<1>6. g[<<"ors", n + 1>>] = Found({}, n + 1)
  BY <1>1, <1>5, LoopEnds
<1>7. g[<<"or", 1>>] = Found(x \cup {}, n + 1)
  <2>1. EndsAnd(KindAt(toks, n + 1))
    BY <1>5 DEF EndsAnd
  <2>2. g[<<"or", 1>>] = Found(x \cup g[<<"ors", n + 1>>].node, g[<<"ors", n + 1>>].pos)
    BY <1>2, <1>4, <2>1 DEF OrClaim
  <2>3. g[<<"ors", n + 1>>].node = {} /\ g[<<"ors", n + 1>>].pos = n + 1
    BY <1>6, FoundIs
  <2> QED BY <2>2, <2>3
<1>8. x \cup {} = x
  OBVIOUS
<1>9. Parse(toks) = g[<<"or", 1>>]
  BY <1>1, ParseIs
<1> QED BY <1>7, <1>8, <1>9

\* A tree over tokens matches them.
LEMMA TreeMatches ==
    ASSUME NEW A, NEW toks \in Seq(A), NEW body
    PROVE  MatchesReadings(TreeOver(body, toks))
<1> DEFINE root == Parse(toks)
           tree == TreeOf(body, toks, root)
<1>1. TreeOver(body, toks) = tree
  BY DEF TreeOver
<1>2. tree.toks = toks /\ tree.root = IF root.nil THEN {{[val |-> body, as |-> "literal"]}} ELSE root.node
  BY DEF TreeOf
<1> HIDE DEF tree
<1>3. ASSUME NEW x \in Readings(toks) PROVE tree.root = x
  <2>1. root = Found(x, Len(toks) + 1)
    BY ReadingFound
  <2> HIDE DEF root
  <2>2. root.nil = FALSE /\ root.node = x
    BY <2>1, FoundIs
  <2> QED BY <1>2, <2>2
<1> QED BY <1>1, <1>2, <1>3 DEF MatchesReadings

\* So does the tree of nothing.
LEMMA EmptyMatches == MatchesReadings(EmptyQuery)
<1>1. EmptyQuery.toks = <<>>
  BY DEF EmptyQuery
<1>2. ASSUME NEW x \in Readings(<<>>) PROVE FALSE
  <2>0. Len(<<>>) \in Nat /\ Len(<<>>) = 0
    OBVIOUS
  <2>1. PICK r : Reads(<<>>, r) /\ Readings(<<>>) = r[<<"or", 1, Len(<<>>)>>]
    BY <2>0, ReadingsAre
  <2>2. 1 \in Starts(<<>>) /\ 0 \in Ends(<<>>)
    BY <2>0 DEF Starts, Ends
  <2>3. 1 <= 0
    BY <2>0, <2>1, <2>2, NothingRead DEF Forms
  <2> QED BY <2>3
<1> QED BY <1>1, <1>2 DEF MatchesReadings

----------------------------------------------------------------------------
(* The letters of a text.                                                  *)

LetterSet == {"a", "b"}

\* What the parsers take out of the text is no letter.
LEMMA NoLetters ==
    /\ Blank \notin LetterSet /\ "|" \notin LetterSet /\ "&" \notin LetterSet /\ "!" \notin LetterSet
    /\ "(" \notin LetterSet /\ ")" \notin LetterSet /\ "/" \notin LetterSet
    /\ \A c \in Quotes : c \notin LetterSet
    /\ \A c \in Keywords : c \notin LetterSet
    /\ \A c \in {"-A", "-B", "-C"} : c \notin LetterSet
<1>1. Blank \notin LetterSet
  BY Zenon DEF Blank, LetterSet
<1>2. \A c \in Quotes : c \notin LetterSet
  BY Zenon DEF Quotes, LetterSet
<1>3. \A c \in Keywords : c \notin LetterSet
  BY DEF Keywords, LetterSet
<1>4. \A c \in {"-A", "-B", "-C"} : c \notin LetterSet
  BY DEF LetterSet
<1>5. "|" \notin LetterSet /\ "&" \notin LetterSet /\ "!" \notin LetterSet
  BY DEF LetterSet
<1>6. "(" \notin LetterSet /\ ")" \notin LetterSet /\ "/" \notin LetterSet
  BY DEF LetterSet
<1> QED BY <1>1, <1>2, <1>3, <1>4, <1>5, <1>6

LEMMA LettersAre ==
    ASSUME NEW B, NEW s \in Seq(B)
    PROVE  Letters(s) = Of(s, LetterSet)
<1>1. DOMAIN s = 1..Len(s)
  BY SeqDom
<1> QED BY <1>1 DEF Letters, Of, LetterSet

LEMMA LettersIn ==
    ASSUME NEW B, NEW s \in Seq(B)
    PROVE  Letters(s) \in Seq(B)
BY LettersAre, OfIn

\* The letters of parts, in their order.
LEMMA LettersConcat ==
    ASSUME NEW B, NEW s \in Seq(B), NEW t \in Seq(B)
    PROVE  Letters(s \o t) = Letters(s) \o Letters(t)
<1>1. s \o t \in Seq(B)
  OBVIOUS
<1>2. Letters(s \o t) = Of(s \o t, LetterSet) /\ Letters(s) = Of(s, LetterSet) /\ Letters(t) = Of(t, LetterSet)
  BY <1>1, LettersAre
<1>3. Of(s \o t, LetterSet) = Of(s, LetterSet) \o Of(t, LetterSet)
  BY OfConcat
<1> QED BY <1>2, <1>3

LEMMA LettersSkipped ==
    ASSUME NEW B, NEW s \in Seq(B), \A k \in 1..Len(s) : s[k] \notin LetterSet
    PROVE  Letters(s) = <<>>
<1>1. {k \in 1..Len(s) : s[k] \in LetterSet} = {}
  OBVIOUS
<1>2. Letters(s) = Pick(s, {})
  BY <1>1, LettersAre DEF Of
<1>3. Pick(s, {}) = <<>>
  BY AscendingEmpty DEF Pick
<1> QED BY <1>2, <1>3

LEMMA LettersNone == Letters(<<>>) = <<>>
<1>1. <<>> \in Seq({}) /\ \A k \in 1..Len(<<>>) : <<>>[k] \notin LetterSet
  OBVIOUS
<1> QED BY <1>1, LettersSkipped

\* The letters of a stretch, cut anywhere.
LEMMA LettersCut ==
    ASSUME NEW B, NEW s \in Seq(B), NEW i \in 1..Len(s)+1, NEW j \in 0..Len(s), NEW k \in Nat,
           i - 1 <= k, k <= j
    PROVE  Letters(SubSeq(s, i, j)) = Letters(SubSeq(s, i, k)) \o Letters(SubSeq(s, k + 1, j))
<1>1. Len(s) \in Nat
  BY SeqDom
<1>2. SubSeq(s, i, k) \in Seq(B) /\ SubSeq(s, k + 1, j) \in Seq(B)
  <2>1. k \in 0..Len(s) /\ k + 1 \in 1..Len(s)+1
    BY <1>1
  <2> QED BY <2>1, StretchIn
<1>3. SubSeq(s, i, j) = SubSeq(s, i, k) \o SubSeq(s, k + 1, j)
  BY <1>1
<1> QED BY <1>2, <1>3, LettersConcat

\* What is no letter is skipped.
LEMMA StretchSkipped ==
    ASSUME NEW B, NEW s \in Seq(B), NEW i \in 1..Len(s)+1, NEW j \in 0..Len(s),
           \A k \in i..j : s[k] \notin LetterSet
    PROVE  Letters(SubSeq(s, i, j)) = <<>>
<1> DEFINE t == SubSeq(s, i, j)
<1>1. Len(s) \in Nat
  BY SeqDom
<1>2. t \in Seq(B)
  BY StretchIn
<1>3. \A k \in 1..Len(t) : t[k] \notin LetterSet
  <2> SUFFICES ASSUME NEW k \in 1..Len(t) PROVE t[k] \notin LetterSet
    OBVIOUS
  <2>1. t[k] = s[i + k - 1] /\ i + k - 1 \in i..j
    BY <1>1
  <2> QED BY <2>1
<1> HIDE DEF t
<1>4. Letters(t) = <<>>
  BY <1>2, <1>3, LettersSkipped
<1> QED BY <1>4 DEF t

\* Trimming takes no letters.
LEMMA LettersTrim ==
    ASSUME NEW B, NEW s \in Seq(B)
    PROVE  Letters(Trim(s)) = Letters(s)
<1>1. Len(s) \in Nat /\ SubSeq(s, 1, Len(s)) = s
  BY SeqDom
<1>2. CASE Trim(s) = <<>> /\ \A k \in 1..Len(s) : s[k] \in {Blank}
  <2>1. \A k \in 1..Len(s) : s[k] \notin LetterSet
    BY <1>2, NoLetters
  <2> QED BY <1>2, <2>1, LettersSkipped, LettersNone
<1>3. ASSUME NEW i \in 1..Len(s), NEW j \in 1..Len(s), i <= j, Trim(s) = SubSeq(s, i, j),
             \A k \in 1..Len(s) : k < i \/ k > j => s[k] \in {Blank}
      PROVE  Letters(Trim(s)) = Letters(s)
  <2> DEFINE n == Len(s)
             l == SubSeq(s, 1, i - 1)  m == SubSeq(s, i, j)  r == SubSeq(s, j + 1, n)
  <2>1. Letters(l) = <<>>
    <3>1. \A k \in 1..i-1 : s[k] \notin LetterSet
      BY <1>1, <1>3, NoLetters
    <3>2. 1 \in 1..n+1 /\ i - 1 \in 0..n
      BY <1>1
    <3> QED BY <3>1, <3>2, StretchSkipped
  <2>2. Letters(r) = <<>>
    <3>1. \A k \in j+1..n : s[k] \notin LetterSet
      BY <1>1, <1>3, NoLetters
    <3>2. j + 1 \in 1..n+1 /\ n \in 0..n
      BY <1>1
    <3> QED BY <3>1, <3>2, StretchSkipped
  <2>3. Letters(SubSeq(s, 1, n)) = Letters(l) \o Letters(SubSeq(s, i, n))
    <3>1. 1 \in 1..n+1 /\ n \in 0..n /\ i - 1 \in Nat /\ 1 - 1 <= i - 1 /\ i - 1 <= n /\ (i - 1) + 1 = i
      BY <1>1
    <3> QED BY <3>1, LettersCut
  <2>4. Letters(SubSeq(s, i, n)) = Letters(m) \o Letters(r)
    <3>1. i \in 1..n+1 /\ n \in 0..n /\ j \in Nat /\ i - 1 <= j /\ j <= n
      BY <1>1, <1>3
    <3> QED BY <3>1, LettersCut
  <2>5. Letters(m) \in Seq(B)
    <3>1. m \in Seq(B)
      BY <1>3, TrimIn
    <3> QED BY <3>1, LettersIn
  <2> HIDE DEF l, m, r, n
  <2>6. <<>> \o (Letters(m) \o <<>>) = Letters(m)
    BY <2>5
  <2>7. Letters(SubSeq(s, 1, n)) = Letters(m)
    BY <2>1, <2>2, <2>3, <2>4, <2>6
  <2> QED BY <1>1, <1>3, <2>7 DEF m, n
<1> QED BY <1>2, <1>3, TrimOfIs DEF Trim

----------------------------------------------------------------------------
(* Texts that are run together.                                            *)

\* The texts of a sequence run together, text by text.
FlatTable(ss, h) ==
    h[0] = <<>> /\ \A k \in 1..Len(ss) : h[k] = h[k-1] \o ss[k]

\* The fold over the texts, as a table.
LEMMA FlattenTable ==
    ASSUME NEW B, NEW ss \in Seq(Seq(B))
    PROVE  \E h \in [0..Len(ss) -> Seq(B)] : FlatTable(ss, h) /\ FlattenSeq(ss) = h[Len(ss)]
<1> DEFINE T == Seq(B)
           n == Len(ss)
           step == [k \in 1..n |-> [u \in T |-> u \o ss[k]]]
           P(g) == g = [i \in 1..n |-> IF i = 1 THEN ss[i] ELSE g[i-1] \o ss[i]]
           flatten == CHOOSE g : P(g)
<1>0. n \in Nat /\ \A k \in 1..n : ss[k] \in T
  BY SeqDom
<1>1. <<>> \in T /\ \A u \in T : \A v \in T : u \o v \in T /\ <<>> \o v = v
  OBVIOUS
<1>z. ss = <<>> => n = 0
  OBVIOUS
<1>y. n = 0 => ss = <<>>
  OBVIOUS
<1>2. FlattenSeq(ss) = IF n = 0 THEN ss ELSE flatten[n]
  BY DEF FlattenSeq
<1>3. step \in [1..n -> [T -> T]] /\ \A k \in 1..n : \A u \in T : step[k][u] = u \o ss[k]
  <2> HIDE DEF T, n
  <2> QED BY <1>0, <1>1
<1>d. \A g : P(g) <=> g = [i \in 1..n |-> IF i = 1 THEN ss[i] ELSE g[i-1] \o ss[i]]
  OBVIOUS
<1> HIDE DEF step, T, n, P
<1>4. PICK h : Iterates(T, <<>>, n, step, h)
  BY <1>0, <1>1, <1>3, IterationExists
<1>5. h \in [0..n -> T] /\ h[0] = <<>> /\ \A k \in 1..n : h[k] = step[k][h[k-1]]
  BY <1>4 DEF Iterates
<1>6. \A k \in 1..n : k - 1 \in 0..n /\ h[k-1] \in T /\ h[k] = h[k-1] \o ss[k]
  <2>1. \A k \in 1..n : k - 1 \in 0..n
    BY <1>0
  <2> QED BY <1>3, <1>5, <2>1
<1>7. FlattenSeq(ss) = h[n]
  <2>1. CASE n = 0
    BY <1>2, <1>5, <1>y, <2>1
  <2>2. CASE n # 0
    <3> DEFINE g == [i \in 1..n |-> h[i]]
    <3>1. \A i \in 1..n : i # 1 => i - 1 \in 1..n
      BY <1>0
    <3>2. h[1] = ss[1]
      <4>1. 1 \in 1..n /\ 1 - 1 = 0
        BY <1>0, <2>2
      <4>2. h[1] = h[1-1] \o ss[1]
        BY <1>6, <4>1
      <4>3. h[1] = <<>> \o ss[1] /\ ss[1] \in T
        BY <1>0, <1>5, <4>1, <4>2
      <4> QED BY <1>1, <4>3
    <3>3. \A i \in 1..n : g[i] = IF i = 1 THEN ss[i] ELSE g[i-1] \o ss[i]
      BY <1>6, <3>1, <3>2
    <3>4. g = [i \in 1..n |-> IF i = 1 THEN ss[i] ELSE g[i-1] \o ss[i]]
      BY <3>3
    <3> HIDE DEF g
    <3>5. P(g)
      BY <1>d, <3>4
    <3>6. P(flatten)
      BY <3>5
    <3> HIDE DEF flatten
    <3>7. flatten = [i \in 1..n |-> IF i = 1 THEN ss[i] ELSE flatten[i-1] \o ss[i]]
      BY <1>d, <3>6
    <3>8. \A i \in 1..n : flatten[i] = IF i = 1 THEN ss[i] ELSE flatten[i-1] \o ss[i]
      BY <3>7
    <3> DEFINE S == {k \in 0..n : k > 0 => flatten[k] = h[k]}
    <3>9. 0 \in S
      BY <1>0
    <3>10. ASSUME NEW k \in 1..n, k - 1 > 0 => flatten[k-1] = h[k-1] PROVE flatten[k] = h[k]
      <4>1. CASE k = 1
        BY <3>2, <3>8, <4>1
      <4>2. CASE k # 1
        <5>1. k - 1 > 0
          BY <4>2
        <5> QED BY <1>6, <3>8, <3>10, <4>2, <5>1
      <4> QED BY <4>1, <4>2
    <3>11. \A k \in 1..n : k - 1 \in S => k \in S
      BY <3>10
    <3> HIDE DEF S
    <3>12. \A k \in 0..n : k \in S
      BY <1>0, <3>9, <3>11, AllUpto
    <3>13. flatten[n] = h[n]
      <4>1. n \in 0..n /\ n > 0
        BY <1>0, <2>2
      <4> QED BY <3>12, <4>1 DEF S
    <3> QED BY <1>2, <2>2, <3>13
  <2> QED BY <2>1, <2>2
<1>8. FlatTable(ss, h)
  BY <1>5, <1>6 DEF FlatTable, n
<1> QED BY <1>5, <1>7, <1>8 DEF T, n

LEMMA FlattenIn ==
    ASSUME NEW B, NEW ss \in Seq(Seq(B))
    PROVE  FlattenSeq(ss) \in Seq(B)
<1>1. PICK h \in [0..Len(ss) -> Seq(B)] : FlattenSeq(ss) = h[Len(ss)]
  BY FlattenTable
<1>2. Len(ss) \in 0..Len(ss)
  <2>1. Len(ss) \in Nat
    BY SeqDom
  <2> QED BY <2>1
<1> QED BY <1>1, <1>2

LEMMA FlattenNothing == FlattenSeq(<<>>) = <<>>
BY DEF FlattenSeq

LEMMA FlattenAppend ==
    ASSUME NEW B, NEW ss \in Seq(Seq(B)), NEW x \in Seq(B)
    PROVE  FlattenSeq(Append(ss, x)) = FlattenSeq(ss) \o x
<1> DEFINE T == Seq(B)
           u == Append(ss, x)
           n == Len(ss)
<1>0. n \in Nat /\ u \in Seq(T) /\ Len(u) = n + 1 /\ u[n+1] = x /\ \A k \in 1..n : u[k] = ss[k]
  <2> HIDE DEF T
  <2>1. ss \in Seq(T) /\ x \in T
    BY DEF T
  <2> QED BY <2>1
<1>1. PICK h \in [0..n -> T] : FlatTable(ss, h) /\ FlattenSeq(ss) = h[n]
  BY FlattenTable
<1>2. PICK k \in [0..n+1 -> T] : FlatTable(u, k) /\ FlattenSeq(u) = k[n+1]
  <2> HIDE DEF u
  <2>1. \E k \in [0..Len(u) -> T] : FlatTable(u, k) /\ FlattenSeq(u) = k[Len(u)]
    BY <1>0, FlattenTable
  <2> QED BY <1>0, <2>1
<1> DEFINE S == {i \in 0..n : k[i] = h[i]}
<1> HIDE DEF u, n, T
<1>3. k[0] = <<>> /\ \A i \in 1..n+1 : k[i] = k[i-1] \o u[i]
  BY <1>0, <1>2 DEF FlatTable
<1>4. h[0] = <<>> /\ \A i \in 1..n : h[i] = h[i-1] \o ss[i]
  BY <1>1 DEF FlatTable, n
<1>5. 0 \in S
  <2>1. 0 \in 0..n
    BY <1>0
  <2> QED BY <1>3, <1>4, <2>1
<1>6. ASSUME NEW i \in 1..n, i - 1 \in S PROVE i \in S
  <2>1. i \in 1..n+1 /\ i \in 0..n
    BY <1>0
  <2>2. k[i] = k[i-1] \o u[i] /\ h[i] = h[i-1] \o ss[i] /\ u[i] = ss[i] /\ k[i-1] = h[i-1]
    BY <1>0, <1>3, <1>4, <1>6, <2>1
  <2> QED BY <2>1, <2>2
<1>7. \A i \in 1..n : i - 1 \in S => i \in S
  BY <1>6
<1> HIDE DEF S
<1>8. \A i \in 0..n : i \in S
  BY <1>0, <1>5, <1>7, AllUpto
<1>9. k[n] = h[n]
  <2>1. n \in 0..n
    BY <1>0
  <2> QED BY <1>8, <2>1 DEF S
<1>10. k[n+1] = k[n] \o x
  <2>1. n + 1 \in 1..n+1 /\ (n + 1) - 1 = n
    BY <1>0
  <2>2. k[n+1] = k[(n+1)-1] \o u[n+1]
    BY <1>3, <2>1
  <2> QED BY <1>0, <2>1, <2>2
<1> QED BY <1>1, <1>2, <1>9, <1>10 DEF u

LEMMA FlattenConcat ==
    ASSUME NEW B, NEW ss \in Seq(Seq(B)), NEW tt \in Seq(Seq(B))
    PROVE  FlattenSeq(ss \o tt) = FlattenSeq(ss) \o FlattenSeq(tt)
<1> DEFINE T == Seq(B)
           S == {r \in Seq(T) : FlattenSeq(ss \o r) = FlattenSeq(ss) \o FlattenSeq(r)}
<1>0. FlattenSeq(ss) \in T /\ ss \in Seq(T) /\ tt \in Seq(T)
  BY FlattenIn
<1>i. \A r \in Seq(T) : FlattenSeq(r) \in T
  BY FlattenIn
<1>a. \A r \in Seq(T) : \A x \in T : FlattenSeq(Append(r, x)) = FlattenSeq(r) \o x
  BY FlattenAppend
<1>s. \A u, v, w \in T : (u \o v) \o w = u \o (v \o w) /\ u \o <<>> = u
  OBVIOUS
<1> HIDE DEF T
<1>1. <<>> \in S
  <2>1. <<>> \in Seq(T) /\ ss \o <<>> = ss
    BY <1>0
  <2> QED BY <1>0, <1>s, <2>1, FlattenNothing
<1>2. ASSUME NEW r \in Seq(T), r \in S, NEW x \in T PROVE Append(r, x) \in S
  <2>1. ss \o Append(r, x) = Append(ss \o r, x) /\ ss \o r \in Seq(T) /\ Append(r, x) \in Seq(T)
    BY <1>0
  <2>2. FlattenSeq(ss \o r) = FlattenSeq(ss) \o FlattenSeq(r)
    BY <1>2
  <2>3. FlattenSeq(Append(ss \o r, x)) = FlattenSeq(ss \o r) \o x
    BY <1>a, <2>1
  <2>4. FlattenSeq(Append(r, x)) = FlattenSeq(r) \o x
    BY <1>a
  <2>a. FlattenSeq(r) \in T /\ x \in T
    BY <1>i
  <2>b. (FlattenSeq(ss) \o FlattenSeq(r)) \o x = FlattenSeq(ss) \o (FlattenSeq(r) \o x)
    BY <1>0, <1>s, <2>a
  <2>5. FlattenSeq(ss \o Append(r, x)) = FlattenSeq(ss) \o FlattenSeq(Append(r, x))
    BY <2>1, <2>2, <2>3, <2>4, <2>b
  <2> QED BY <2>1, <2>5
<1> HIDE DEF S
<1>3. \A r \in Seq(T) : r \in S => \A x \in T : Append(r, x) \in S
  BY <1>2
<1>4. \A r \in Seq(T) : r \in S
  BY <1>1, <1>3, SeqsByAppend
<1> QED BY <1>0, <1>4 DEF S

----------------------------------------------------------------------------
(* The letters of tokens.                                                  *)

OperatorKinds == {"and", "or", "not", "(", ")"}
Hows == {"bare", "quoted", "regexp"}
TokensOver(B) == {Operator(k) : k \in OperatorKinds} \cup {TermToken(v, h) : v \in Seq(B), h \in Hows}

\* The text of a token, and the letters of several.
Value(t) == IF t.kind = "term" THEN t.val ELSE <<>>
Told(toks) == Letters(FlattenSeq(Values(toks)))

LEMMA ValueIs ==
    /\ \A k \in OperatorKinds : Value(Operator(k)) = <<>>
    /\ \A v, h : Value(TermToken(v, h)) = v
<1>1. \A k \in OperatorKinds : Value(Operator(k)) = <<>>
  BY DEF OperatorKinds, Operator, Value
<1>2. ASSUME NEW v, NEW h PROVE Value(TermToken(v, h)) = v
  BY DEF TermToken, Value
<1> QED BY <1>1, <1>2

LEMMA ValueIn ==
    ASSUME NEW B, NEW t \in TokensOver(B)
    PROVE  Value(t) \in Seq(B)
<1>1. CASE t \in {Operator(k) : k \in OperatorKinds}
  <2>1. Value(t) = <<>>
    BY <1>1, ValueIs
  <2> QED BY <2>1
<1>2. CASE t \in {TermToken(v, h) : v \in Seq(B), h \in Hows}
  <2>1. PICK v \in Seq(B), h \in Hows : t = TermToken(v, h)
    BY <1>2
  <2> QED BY <2>1, ValueIs
<1> QED BY <1>1, <1>2 DEF TokensOver

LEMMA ValuesAre ==
    ASSUME NEW A, NEW toks \in Seq(A)
    PROVE  Values(toks) = [k \in 1..Len(toks) |-> Value(toks[k])]
<1>1. DOMAIN toks = 1..Len(toks)
  BY SeqDom
<1> QED BY <1>1 DEF Values, Value

LEMMA ValuesIn ==
    ASSUME NEW B, NEW toks \in Seq(TokensOver(B))
    PROVE  /\ Values(toks) \in Seq(Seq(B)) /\ Len(Values(toks)) = Len(toks)
           /\ \A k \in 1..Len(toks) : Values(toks)[k] = Value(toks[k])
<1> DEFINE T == Seq(B)
           n == Len(toks)
           f == Values(toks)
<1>1. n \in Nat /\ \A k \in 1..n : Value(toks[k]) \in T
  <2>1. n \in Nat /\ \A k \in 1..n : toks[k] \in TokensOver(B)
    BY SeqDom
  <2> QED BY <2>1, ValueIn
<1>2. f = [k \in 1..n |-> Value(toks[k])]
  BY ValuesAre
<1> HIDE DEF T, n, f
<1>3. \A k \in 1..n : f[k] = Value(toks[k])
  BY <1>2
<1>4. f = [k \in 1..n |-> f[k]] /\ \A k \in 1..n : f[k] \in T
  BY <1>1, <1>2, <1>3
<1>5. f \in Seq(T)
  BY <1>1, <1>4, SeqIs
<1>6. Len(f) = n
  BY <1>1, <1>2
<1> QED BY <1>3, <1>5, <1>6 DEF T, n, f

\* r is p, and q behind it.
Abuts(r, p, q) ==
    /\ Len(r) = Len(p) + Len(q)
    /\ \A k \in 1..Len(p) : r[k] = p[k]
    /\ \A k \in 1..Len(q) : r[Len(p) + k] = q[k]

LEMMA ConcatIs ==
    ASSUME NEW T, NEW r \in Seq(T), NEW p \in Seq(T), NEW q \in Seq(T), Abuts(r, p, q)
    PROVE  r = p \o q
<1> DEFINE m == Len(p)  n == Len(q)
<1>0. Len(r) = m + n /\ (\A k \in 1..m : r[k] = p[k]) /\ (\A k \in 1..n : r[m + k] = q[k])
  BY DEF Abuts
<1>1. m \in Nat /\ n \in Nat
  BY SeqDom
<1>2. p \o q \in Seq(T) /\ Len(p \o q) = m + n
  OBVIOUS
<1>3. ASSUME NEW k \in 1..m+n PROVE r[k] = (p \o q)[k]
  <2>1. CASE k \in 1..m
    <3>1. (p \o q)[k] = p[k]
      BY <2>1
    <3> QED BY <1>0, <2>1, <3>1
  <2>2. CASE k \notin 1..m
    <3>1. k - m \in 1..n /\ m + (k - m) = k
      BY <1>1, <2>2
    <3>2. (p \o q)[k] = q[k - m]
      BY <1>1, <3>1
    <3>3. r[m + (k - m)] = q[k - m]
      BY <1>0, <3>1
    <3> QED BY <3>1, <3>2, <3>3
  <2> QED BY <2>1, <2>2
<1> QED BY <1>0, <1>2, <1>3

\* The texts of two lists of tokens.
LEMMA ValuesConcat ==
    ASSUME NEW B, NEW a \in Seq(TokensOver(B)), NEW b \in Seq(TokensOver(B))
    PROVE  Values(a \o b) = Values(a) \o Values(b)
<1> DEFINE T == Seq(B)
           K == TokensOver(B)
           p == Values(a)  q == Values(b)  r == Values(a \o b)
           m == Len(a)  n == Len(b)
<1>1. /\ p \in Seq(T) /\ Len(p) = m /\ \A k \in 1..m : p[k] = Value(a[k])
      /\ q \in Seq(T) /\ Len(q) = n /\ \A k \in 1..n : q[k] = Value(b[k])
  BY ValuesIn
<1>2. /\ m \in Nat /\ n \in Nat /\ a \o b \in Seq(K) /\ Len(a \o b) = m + n
      /\ \A k \in 1..m : (a \o b)[k] = a[k]
      /\ \A k \in m+1..m+n : (a \o b)[k] = b[k - m]
  <2> HIDE DEF K
  <2>1. a \in Seq(K) /\ b \in Seq(K)
    BY DEF K
  <2> QED BY <2>1
<1>3. /\ r \in Seq(T) /\ Len(r) = m + n
      /\ \A k \in 1..m+n : r[k] = Value((a \o b)[k])
  <2> DEFINE c == a \o b
  <2>1. c \in Seq(TokensOver(B)) /\ Len(c) = m + n
    BY <1>2
  <2> HIDE DEF c, m, n
  <2>2. Values(c) \in Seq(Seq(B)) /\ Len(Values(c)) = Len(c) /\ \A k \in 1..Len(c) : Values(c)[k] = Value(c[k])
    BY <2>1, ValuesIn
  <2> QED BY <2>1, <2>2 DEF c
<1> HIDE DEF T, K, p, q, r, m, n
<1>4. ASSUME NEW k \in 1..m PROVE r[k] = p[k]
  <2>1. k \in 1..m+n
    BY <1>2
  <2> QED BY <1>1, <1>2, <1>3, <2>1
<1>6. ASSUME NEW k \in 1..n PROVE r[m + k] = q[k]
  <2>1. m + k \in 1..m+n /\ m + k \in m+1..m+n /\ (m + k) - m = k
    BY <1>2
  <2>2. r[m + k] = Value((a \o b)[m + k]) /\ (a \o b)[m + k] = b[(m + k) - m]
    BY <1>2, <1>3, <2>1
  <2> QED BY <1>1, <2>1, <2>2
<1>5. r = p \o q
  <2>1. \A k \in 1..m : r[k] = p[k]
    BY <1>4
  <2>2. \A k \in 1..n : r[m + k] = q[k]
    BY <1>6
  <2>3. p \in Seq(T) /\ q \in Seq(T) /\ r \in Seq(T) /\ Len(p) = m /\ Len(q) = n /\ Len(r) = m + n
    BY <1>1, <1>3
  <2>4. Abuts(r, p, q)
    BY <2>1, <2>2, <2>3 DEF Abuts
  <2> QED BY <2>3, <2>4, ConcatIs
<1> QED BY <1>5 DEF p, q, r

LEMMA ToldIn ==
    ASSUME NEW B, NEW a \in Seq(TokensOver(B))
    PROVE  FlattenSeq(Values(a)) \in Seq(B) /\ Told(a) \in Seq(B)
<1>1. Values(a) \in Seq(Seq(B))
  BY ValuesIn
<1>2. FlattenSeq(Values(a)) \in Seq(B)
  BY <1>1, FlattenIn
<1> QED BY <1>2, LettersIn DEF Told

\* The letters of two lists of tokens, in their order.
LEMMA ToldConcat ==
    ASSUME NEW B, NEW a \in Seq(TokensOver(B)), NEW b \in Seq(TokensOver(B))
    PROVE  Told(a \o b) = Told(a) \o Told(b)
<1> DEFINE p == Values(a)  q == Values(b)
<1>1. Values(a \o b) = p \o q
  BY ValuesConcat
<1>2. p \in Seq(Seq(B)) /\ q \in Seq(Seq(B))
  BY ValuesIn
<1> HIDE DEF p, q
<1>3. FlattenSeq(p \o q) = FlattenSeq(p) \o FlattenSeq(q)
  BY <1>2, FlattenConcat
<1>4. FlattenSeq(p) \in Seq(B) /\ FlattenSeq(q) \in Seq(B)
  BY <1>2, FlattenIn
<1>5. Letters(FlattenSeq(p) \o FlattenSeq(q)) = Letters(FlattenSeq(p)) \o Letters(FlattenSeq(q))
  BY <1>4, LettersConcat
<1> QED BY <1>1, <1>3, <1>5 DEF Told, p, q

LEMMA ToldNothing == Told(<<>>) = <<>>
<1>1. <<>> \in Seq({}) /\ Len(<<>>) = 0
  OBVIOUS
<1>2. Values(<<>>) = [k \in 1..0 |-> Value(<<>>[k])]
  BY <1>1, ValuesAre
<1>3. [k \in 1..0 |-> Value(<<>>[k])] = <<>>
  OBVIOUS
<1> QED BY <1>2, <1>3, FlattenNothing, LettersNone DEF Told

LEMMA ToldOne ==
    ASSUME NEW B, NEW t \in TokensOver(B)
    PROVE  Told(<<t>>) = Letters(Value(t))
<1> DEFINE T == Seq(B)
           v == Value(t)
           f == Values(<<t>>)
<1>1. <<t>> \in Seq(TokensOver(B)) /\ Len(<<t>>) = 1 /\ <<t>>[1] = t
  OBVIOUS
<1>2. f \in Seq(T) /\ Len(f) = 1 /\ f[1] = v
  <2>1. f \in Seq(T) /\ Len(f) = Len(<<t>>) /\ \A k \in 1..Len(<<t>>) : f[k] = Value(<<t>>[k])
    BY <1>1, ValuesIn
  <2>2. 1 \in 1..1
    OBVIOUS
  <2> QED BY <1>1, <2>1, <2>2
<1>3. v \in T
  BY ValueIn
<1>4. \A u \in T : <<>> \o u = u
  OBVIOUS
<1> HIDE DEF T, v, f
<1>5. f = Append(<<>>, v) /\ <<>> \in Seq(T)
  BY <1>2, <1>3
<1>6. FlattenSeq(f) = FlattenSeq(<<>>) \o v
  BY <1>3, <1>5, FlattenAppend DEF T
<1>7. FlattenSeq(f) = v
  BY <1>3, <1>4, <1>6, FlattenNothing
<1> QED BY <1>7 DEF Told, f, v

----------------------------------------------------------------------------
(* Tables that are filled from the end.                                    *)

\* A table that is filled from its end.
LaterIn(m, i, S) == \A j \in 1..m : j > i => j \in S
AgreeLater(m, i, g, h) == \A j \in 1..m : j > i => g[j] = h[j]
LooksAhead(m, T, F) ==
    \A g \in T : \A h \in T : \A i \in 1..m :
        AgreeLater(m, i, g, h) => F[g][i] = F[h][i]

\* What holds at a place when it holds at every later one holds everywhere.
LEMMA FromTheEnd ==
    ASSUME NEW m \in Nat, NEW S, \A i \in 1..m : LaterIn(m, i, S) => i \in S
    PROVE  \A i \in 1..m : i \in S
<1> DEFINE K == {k \in 0..m : LaterIn(m, m - k, S)}
<1>1. 0 \in K
  BY DEF LaterIn
<1>2. ASSUME NEW k \in 1..m, k - 1 \in K PROVE k \in K
  <2>1. LaterIn(m, m - (k - 1), S)
    BY <1>2
  <2>2. LaterIn(m, (m - k) + 1, S) /\ (m - k) + 1 \in 1..m
    <3>1. m - (k - 1) = (m - k) + 1 /\ (m - k) + 1 \in 1..m
      OBVIOUS
    <3> QED BY <2>1, <3>1
  <2>3. (m - k) + 1 \in S
    BY <2>2
  <2>4. LaterIn(m, m - k, S)
    <3> SUFFICES ASSUME NEW j \in 1..m, j > m - k PROVE j \in S
      BY DEF LaterIn
    <3>1. j = (m - k) + 1 \/ j > (m - k) + 1
      OBVIOUS
    <3> QED BY <2>2, <2>3, <3>1 DEF LaterIn
  <2> QED BY <2>4
<1>3. \A k \in 1..m : k - 1 \in K => k \in K
  BY <1>2
<1> HIDE DEF K
<1>4. \A k \in 0..m : k \in K
  BY <1>1, <1>3, AllUpto
<1>5. LaterIn(m, 0, S)
  <2>1. m \in K
    BY <1>4
  <2>2. LaterIn(m, m - m, S)
    BY <2>1 DEF K
  <2>3. m - m = 0
    OBVIOUS
  <2> QED BY <2>2, <2>3
<1> QED BY <1>5 DEF LaterIn

\* A table whose entries look only at later ones can be filled.
LEMMA FilledFromTheEnd ==
    ASSUME NEW m \in Nat, NEW T, T # {}, FunctionsOn(1..m, T), NEW F \in [T -> T], LooksAhead(m, T, F)
    PROVE  \E g \in T : F[g] = g
<1> DEFINE D == 1..m
           rk == [i \in D |-> m - i]
<1>1. rk \in [D -> 0..m]
  OBVIOUS
<1>2. T # {} /\ FunctionsOn(D, T)
  OBVIOUS
<1>5. AsksBelow(D, rk, T, F)
  <2> SUFFICES ASSUME NEW g \in T, NEW h \in T, NEW i \in D, AgreeBelow(D, rk, i, g, h)
               PROVE  F[g][i] = F[h][i]
    BY DEF AsksBelow
  <2>1. AgreeLater(m, i, g, h)
    <3> SUFFICES ASSUME NEW j \in 1..m, j > i PROVE g[j] = h[j]
      BY DEF AgreeLater
    <3>1. rk[j] < rk[i] /\ j \in D
      OBVIOUS
    <3> HIDE DEF rk, D
    <3> QED BY <3>1 DEF AgreeBelow
  <2> QED BY <2>1 DEF LooksAhead
<1> HIDE DEF D, rk
<1>6. F \in [T -> T]
  OBVIOUS
<1> QED BY ONLY <1>1, <1>2, <1>5, <1>6, m \in Nat, RecursionExists

\* The first place from i on, and what is before it.
LEMMA FirstOf ==
    ASSUME NEW n \in Nat, NEW i \in Nat, NEW T \in SUBSET (i..n), i <= n + 1
    PROVE  /\ Min(T \cup {n + 1}) \in i..n+1
           /\ Min(T \cup {n + 1}) <= n => Min(T \cup {n + 1}) \in T
           /\ \A k \in i..n : k < Min(T \cup {n + 1}) => k \notin T
<1> DEFINE U == T \cup {n + 1}
<1>1. U \in SUBSET Nat /\ U # {}
  OBVIOUS
<1>2. T \in SUBSET Nat
  OBVIOUS
<1>3. \A k \in T : k \in U
  OBVIOUS
<1>4. \A k \in U : k \in T \/ k = n + 1
  OBVIOUS
<1> HIDE DEF U
<1>5. Min(U) \in U /\ \A k \in U : Min(U) <= k
  BY <1>1, MinIs
<1>6. Min(U) \in i..n+1
  BY FirstIs DEF U
<1>7. Min(U) <= n => Min(U) \in T
  BY <1>4, <1>5, <1>6
<1>8. \A k \in i..n : k < Min(U) => k \notin T
  <2> SUFFICES ASSUME NEW k \in i..n, k < Min(U), k \in T PROVE FALSE
    OBVIOUS
  <2>1. Min(U) <= k
    BY <1>3, <1>5
  <2> QED BY <1>6, <2>1
<1> QED BY <1>6, <1>7, <1>8 DEF U

----------------------------------------------------------------------------
\* The slash that ends a regexp.
SlashTable(q, at) ==
    at = [j \in 1..Len(q) + 2 |->
            IF j > Len(q) THEN 0
            ELSE IF q[j] = "\\" THEN at[j + 2]
            ELSE IF q[j] = "/" THEN j
            ELSE at[j + 1]]

LEMMA SlashTableExists ==
    ASSUME NEW q, Len(q) \in Nat
    PROVE  \E at : SlashTable(q, at)
<1> DEFINE n == Len(q)
           m == n + 2
           T == [1..m -> Nat]
           val(g, j) == IF j > n THEN 0
                        ELSE IF q[j] = "\\" THEN g[j + 2]
                        ELSE IF q[j] = "/" THEN j
                        ELSE g[j + 1]
           F == [g \in T |-> [j \in 1..m |-> val(g, j)]]
<1>0. n \in Nat /\ m \in Nat
  OBVIOUS
<1>1. ASSUME NEW g \in T, NEW j \in 1..m PROVE val(g, j) \in Nat
  <2>1. j <= n => j + 1 \in 1..m /\ j + 2 \in 1..m
    BY <1>0
  <2> QED BY <1>0, <2>1
<1>2. ASSUME NEW g \in T, NEW h \in T, NEW j \in 1..m, AgreeLater(m, j, g, h)
      PROVE  val(g, j) = val(h, j)
  <2>1. j <= n => j + 1 \in 1..m /\ j + 2 \in 1..m /\ j + 1 > j /\ j + 2 > j
    BY <1>0
  <2>2. j <= n => g[j + 1] = h[j + 1] /\ g[j + 2] = h[j + 2]
    BY <1>2, <2>1 DEF AgreeLater
  <2> QED BY <1>0, <2>2
<1>d. \A g : SlashTable(q, g) <=> g = [j \in 1..m |-> val(g, j)]
  BY DEF SlashTable
<1> HIDE DEF val, m, n
<1>3. F \in [T -> T] /\ \A g \in T : F[g] = [j \in 1..m |-> val(g, j)]
  BY <1>1
<1>4. \A g \in T : \A j \in 1..m : F[g][j] = val(g, j)
  BY <1>3
<1> HIDE DEF F
<1>5. LooksAhead(m, T, F)
  BY <1>2, <1>4 DEF LooksAhead
<1>6. \E g \in T : F[g] = g
  <2>1. FunctionsOn(1..m, T) /\ T # {}
    <3>1. [k \in 1..m |-> 0] \in T
      OBVIOUS
    <3> QED BY <3>1 DEF FunctionsOn
  <2>2. F \in [T -> T] /\ m \in Nat
    BY <1>0, <1>3
  <2> HIDE DEF T
  <2> QED BY ONLY <1>5, <2>1, <2>2, FilledFromTheEnd
<1>7. PICK g \in T : F[g] = g
  BY <1>6
<1> QED BY <1>3, <1>7, <1>d

\* The slash is behind the one that opens the regexp.
LEMMA ClosingSlashIs ==
    ASSUME NEW B, NEW q \in Seq(B), NEW i \in 1..Len(q)
    PROVE  \/ ClosingSlash(q, i) = 0
           \/ ClosingSlash(q, i) \in i+1..Len(q) /\ q[ClosingSlash(q, i)] = "/"
<1> DEFINE n == Len(q)
           m == n + 2
           P(at) == SlashTable(q, at)
           at == CHOOSE g : P(g)
           S == {j \in 1..m : at[j] = 0 \/ (at[j] \in j..n /\ q[at[j]] = "/")}
<1>0. n \in Nat /\ m \in Nat
  OBVIOUS
<1>1. ClosingSlash(q, i) = at[i + 1]
  BY DEF ClosingSlash, SlashTable
<1>2. P(at)
  <2>1. \E g : P(g)
    BY <1>0, SlashTableExists
  <2> HIDE DEF P
  <2> QED BY <2>1
<1> HIDE DEF at
<1>3. \A j \in 1..m : at[j] = IF j > n THEN 0
                              ELSE IF q[j] = "\\" THEN at[j + 2]
                              ELSE IF q[j] = "/" THEN j
                              ELSE at[j + 1]
  BY <1>2 DEF SlashTable
<1> HIDE DEF P
<1>s. \A j \in 1..m : j \in S <=> at[j] = 0 \/ (at[j] \in j..n /\ q[at[j]] = "/")
  OBVIOUS
<1> HIDE DEF S
<1>4. ASSUME NEW j \in 1..m, LaterIn(m, j, S) PROVE j \in S
  <2>1. CASE j > n
    BY <1>3, <1>s, <2>1
  <2>2. CASE j <= n
    <3>1. j + 1 \in 1..m /\ j + 2 \in 1..m /\ j + 1 > j /\ j + 2 > j
      BY <1>0, <2>2
    <3>2. j + 1 \in S /\ j + 2 \in S
      BY <1>4, <3>1 DEF LaterIn
    <3>3. \A k \in {j + 1, j + 2} : at[k] = 0 \/ (at[k] \in k..n /\ q[at[k]] = "/")
      BY <1>s, <3>1, <3>2
    <3>4. \A k \in {j + 1, j + 2} : at[k] \in k..n => at[k] \in j..n
      BY <1>0, <3>1
    <3>5. CASE q[j] = "\\"
      <4>1. at[j] = at[j + 2]
        BY <1>3, <2>2, <3>5
      <4> QED BY <1>s, <3>3, <3>4, <4>1
    <3>6. CASE q[j] = "/" /\ q[j] # "\\"
      <4>1. at[j] = j
        BY <1>3, <2>2, <3>6
      <4>2. j \in j..n
        BY <2>2
      <4> QED BY <1>s, <3>6, <4>1, <4>2
    <3>7. CASE q[j] # "/" /\ q[j] # "\\"
      <4>1. at[j] = at[j + 1]
        BY <1>3, <2>2, <3>7
      <4> QED BY <1>s, <3>3, <3>4, <4>1
    <3> QED BY <3>5, <3>6, <3>7
  <2> QED BY <1>0, <2>1, <2>2
<1>5. \A j \in 1..m : j \in S
  <2> HIDE DEF m
  <2> QED BY <1>0, <1>4, FromTheEnd
<1>6. i + 1 \in 1..m /\ i + 1 \in S
  BY <1>0, <1>5
<1> QED BY <1>1, <1>6, <1>s

----------------------------------------------------------------------------
(* Every token takes the letters it passes over.                           *)

\* Behind the end there is nothing.
LEMMA BehindTheEnd ==
    ASSUME NEW B, NEW q \in Seq(B)
    PROVE  From(q, Len(q) + 1) = <<>> /\ From(q, Len(q) + 2) = <<>>
<1> DEFINE n == Len(q)
<1>1. n \in Nat
  OBVIOUS
<1>2. SubSeq(q, n + 1, n) = <<>> /\ SubSeq(q, n + 2, n) = <<>>
  BY <1>1
<1> QED BY <1>2 DEF From

LEMMA FromLetters ==
    ASSUME NEW B, NEW q \in Seq(B), NEW k \in 1..Len(q)+2
    PROVE  From(q, k) \in Seq(B) /\ Letters(From(q, k)) \in Seq(B)
<1>1. Len(q) \in Nat
  BY SeqDom
<1>2. CASE k \in 1..Len(q)+1
  BY <1>2, FromIn, LettersIn
<1>3. CASE k = Len(q) + 2
  <2>1. From(q, k) = <<>>
    BY <1>3, BehindTheEnd
  <2>2. <<>> \in Seq(B)
    OBVIOUS
  <2> QED BY <2>1, <2>2, LettersNone
<1> QED BY <1>1, <1>2, <1>3

\* The letters from i on are those before k and those from k on.
LEMMA Passed ==
    ASSUME NEW B, NEW q \in Seq(B), NEW i \in 1..Len(q)+1, NEW k \in i..Len(q)+1
    PROVE  Letters(From(q, i)) = Letters(SubSeq(q, i, k - 1)) \o Letters(From(q, k))
<1> DEFINE n == Len(q)
<1>1. n \in Nat
  BY SeqDom
<1>2. n \in 0..n /\ k - 1 \in Nat /\ i - 1 <= k - 1 /\ k - 1 <= n /\ (k - 1) + 1 = k
  BY <1>1
<1>3. Letters(SubSeq(q, i, n)) = Letters(SubSeq(q, i, k - 1)) \o Letters(SubSeq(q, (k - 1) + 1, n))
  BY <1>2, LettersCut
<1> QED BY <1>2, <1>3 DEF From

\* A stretch without letters.
LEMMA PassedOver ==
    ASSUME NEW B, NEW q \in Seq(B), NEW i \in 1..Len(q)+1, NEW k \in i..Len(q)+1,
           \A j \in i..k-1 : q[j] \notin LetterSet
    PROVE  Letters(From(q, i)) = Letters(From(q, k))
<1>1. Len(q) \in Nat
  BY SeqDom
<1>2. Letters(SubSeq(q, i, k - 1)) = <<>>
  <2>1. k - 1 \in 0..Len(q)
    BY <1>1
  <2> QED BY <2>1, StretchSkipped
<1>3. Letters(From(q, k)) \in Seq(B)
  <2>1. k \in 1..Len(q)+2
    BY <1>1
  <2> QED BY <2>1, FromLetters
<1> DEFINE r == Letters(From(q, k))
<1>4. <<>> \o r = r
  <2> HIDE DEF r
  <2>1. r \in Seq(B)
    BY <1>3 DEF r
  <2> QED BY <2>1
<1> QED BY <1>2, <1>4, Passed

LEMMA OnePassed ==
    ASSUME NEW B, NEW q \in Seq(B), NEW k \in 1..Len(q)+1, k <= Len(q) => q[k] \notin LetterSet
    PROVE  Letters(From(q, k)) = Letters(From(q, k + 1))
<1>1. Len(q) \in Nat
  BY SeqDom
<1>2. CASE k <= Len(q)
  <2>1. k + 1 \in k..Len(q)+1 /\ \A j \in k..(k+1)-1 : q[j] \notin LetterSet
    BY <1>1, <1>2
  <2> QED BY <2>1, PassedOver
<1>3. CASE k = Len(q) + 1
  <2>1. k + 1 = Len(q) + 2
    BY <1>1, <1>3
  <2> QED BY <1>3, <2>1, BehindTheEnd
<1> QED BY <1>1, <1>2, <1>3

----------------------------------------------------------------------------
\* A token, where the next begins, and the letters it takes.
TokenOk(B, q, i, t) ==
    /\ t.next \in i+1..Len(q)+2
    /\ t.tokens \in Seq(TokensOver(B))
    /\ Letters(From(q, i)) = Told(t.tokens) \o Letters(From(q, t.next))

LEMMA TakenIs == \A a, b : Taken(a, b).tokens = a /\ Taken(a, b).next = b
BY DEF Taken

\* What takes no letters.
LEMMA NoneTaken ==
    ASSUME NEW B, NEW q \in Seq(B), NEW i \in 1..Len(q), NEW k \in i+1..Len(q)+1,
           \A j \in i..k-1 : q[j] \notin LetterSet,
           NEW toks \in Seq(TokensOver(B)), Told(toks) = <<>>
    PROVE  TokenOk(B, q, i, Taken(toks, k))
<1>1. Len(q) \in Nat
  BY SeqDom
<1>2. i \in 1..Len(q)+1 /\ k \in i..Len(q)+1 /\ k \in i+1..Len(q)+2 /\ k \in 1..Len(q)+2
  BY <1>1
<1>3. Letters(From(q, i)) = Letters(From(q, k))
  BY <1>2, PassedOver
<1> DEFINE r == Letters(From(q, k))
<1>4. <<>> \o r = r
  <2>1. r \in Seq(B)
    BY <1>2, FromLetters
  <2> HIDE DEF r
  <2> QED BY <2>1
<1>5. Letters(From(q, i)) = Told(toks) \o r
  BY <1>3, <1>4
<1> QED BY <1>2, <1>5, TakenIs DEF TokenOk

\* An operator.
LEMMA OperatorOk ==
    ASSUME NEW B, NEW q \in Seq(B), NEW i \in 1..Len(q), NEW k \in i+1..Len(q)+1,
           \A j \in i..k-1 : q[j] \notin LetterSet, NEW kind \in OperatorKinds
    PROVE  TokenOk(B, q, i, Taken(<<Operator(kind)>>, k))
<1>1. Operator(kind) \in TokensOver(B)
  BY DEF TokensOver
<1>2. Told(<<Operator(kind)>>) = <<>>
  <2>1. Told(<<Operator(kind)>>) = Letters(Value(Operator(kind)))
    BY <1>1, ToldOne
  <2> QED BY <2>1, ValueIs, LettersNone
<1>3. <<Operator(kind)>> \in Seq(TokensOver(B))
  BY <1>1
<1> QED BY <1>2, <1>3, NoneTaken

\* One term.
LEMMA TermTold ==
    ASSUME NEW B, NEW v \in Seq(B), NEW how \in Hows
    PROVE  /\ <<TermToken(v, how)>> \in Seq(TokensOver(B))
           /\ Told(<<TermToken(v, how)>>) = Letters(v)
<1>1. TermToken(v, how) \in TokensOver(B)
  BY DEF TokensOver
<1>2. Told(<<TermToken(v, how)>>) = Letters(Value(TermToken(v, how)))
  BY <1>1, ToldOne
<1> QED BY <1>1, <1>2, ValueIs

\* A term that takes all it passes over.
LEMMA TermOk ==
    ASSUME NEW B, NEW q \in Seq(B), NEW i \in 1..Len(q), NEW k \in i+1..Len(q)+1, NEW how \in Hows
    PROVE  TokenOk(B, q, i, Taken(<<TermToken(SubSeq(q, i, k - 1), how)>>, k))
<1> DEFINE v == SubSeq(q, i, k - 1)
<1>1. Len(q) \in Nat
  BY SeqDom
<1>2. i \in 1..Len(q)+1 /\ k \in i..Len(q)+1 /\ k \in i+1..Len(q)+2 /\ k - 1 \in 0..Len(q)
  BY <1>1
<1>3. v \in Seq(B)
  BY <1>2, StretchIn
<1>4. Letters(From(q, i)) = Letters(v) \o Letters(From(q, k))
  BY <1>2, Passed
<1> HIDE DEF v
<1>5. <<TermToken(v, how)>> \in Seq(TokensOver(B)) /\ Told(<<TermToken(v, how)>>) = Letters(v)
  BY <1>3, TermTold
<1>6. TokenOk(B, q, i, Taken(<<TermToken(v, how)>>, k))
  BY <1>2, <1>4, <1>5, TakenIs DEF TokenOk
<1> QED BY <1>6 DEF v

\* A term between quotes or slashes, which are no letters.
LEMMA DelimitedOk ==
    ASSUME NEW B, NEW q \in Seq(B), NEW i \in 1..Len(q), q[i] \notin LetterSet,
           NEW end \in i+1..Len(q)+1, end <= Len(q) => q[end] \notin LetterSet, NEW how \in Hows
    PROVE  TokenOk(B, q, i, Delimited(q, i, end, how))
<1> DEFINE v == SubSeq(q, i + 1, end - 1)
           toks == IF end = i + 1 THEN <<>> ELSE <<TermToken(v, how)>>
<1>1. Len(q) \in Nat
  BY SeqDom
<1>2. i \in 1..Len(q)+1 /\ i + 1 \in 1..Len(q)+1 /\ end \in 1..Len(q)+1 /\ end - 1 \in 0..Len(q) /\ end \in (i+1)..Len(q)+1
      /\ end + 1 \in i+1..Len(q)+2 /\ end + 1 \in 1..Len(q)+2
  BY <1>1
<1>3. v \in Seq(B)
  BY <1>2, StretchIn
<1>4. end = i + 1 => v = <<>>
  BY <1>1
<1>5. Letters(From(q, i)) = Letters(From(q, i + 1))
  BY <1>2, OnePassed
<1>6. Letters(From(q, i + 1)) = Letters(v) \o Letters(From(q, end))
  BY <1>2, Passed
<1>7. Letters(From(q, end)) = Letters(From(q, end + 1))
  BY <1>2, OnePassed
<1>8. Delimited(q, i, end, how) = Taken(toks, end + 1)
  BY DEF Delimited
<1> HIDE DEF v
<1>9. toks \in Seq(TokensOver(B)) /\ Told(toks) = Letters(v)
  <2>1. CASE end = i + 1
    BY <1>4, <2>1, ToldNothing, LettersNone
  <2>2. CASE end # i + 1
    BY <1>3, <2>2, TermTold
  <2> QED BY <2>1, <2>2
<1> HIDE DEF toks
<1>10. Letters(From(q, i)) = Told(toks) \o Letters(From(q, end + 1))
  BY <1>5, <1>6, <1>7, <1>9
<1>11. TokenOk(B, q, i, Taken(toks, end + 1))
  BY <1>2, <1>9, <1>10, TakenIs DEF TokenOk
<1> QED BY <1>8, <1>11

----------------------------------------------------------------------------
LEMMA WordEndIs ==
    ASSUME NEW B, NEW q \in Seq(B), NEW i \in 1..Len(q), q[i] \notin Delimiters
    PROVE  WordEnd(q, i) \in i+1..Len(q)+1
<1> DEFINE n == Len(q)
           T == {k \in i..n : q[k] \in Delimiters}
           e == Min(T \cup {n + 1})
<1>1. n \in Nat /\ i \in Nat /\ i <= n + 1 /\ T \in SUBSET (i..n)
  BY SeqDom
<1>2. WordEnd(q, i) = e
  BY DEF WordEnd, FirstFrom
<1>3. i \notin T
  OBVIOUS
<1> HIDE DEF T
<1>4. e \in i..n+1 /\ (e <= n => e \in T)
  BY <1>1, FirstOf
<1> HIDE DEF e, n
<1>5. e # i
  <2> SUFFICES ASSUME e = i PROVE FALSE
    OBVIOUS
  <2>1. i <= n
    BY DEF n
  <2> QED BY <1>3, <1>4, <2>1
<1>6. e \in i+1..n+1
  BY <1>1, <1>4, <1>5
<1> QED BY <1>2, <1>6 DEF n

\* A bare word.
LEMMA BareWordOk ==
    ASSUME NEW B, NEW q \in Seq(B), NEW i \in 1..Len(q), q[i] \notin Delimiters
    PROVE  TokenOk(B, q, i, BareWord(q, i))
<1> DEFINE k == WordEnd(q, i)
           v == SubSeq(q, i, k - 1)
<1>1. k \in i+1..Len(q)+1 /\ Len(q) \in Nat
  BY WordEndIs, SeqDom
<1>2. BareWord(q, i) = Taken(<<WordToken(v)>>, k)
  BY DEF BareWord
<1> HIDE DEF k
<1>3. CASE Len(v) = 1 /\ v[1] \in Keywords
  <2>1. Len(v) = k - i /\ v[1] = q[i]
    BY <1>1
  <2>2. \A j \in i..k-1 : q[j] \notin LetterSet
    BY <1>1, <1>3, <2>1, NoLetters
  <2>3. v[1] \in OperatorKinds
    BY <1>3 DEF Keywords, OperatorKinds
  <2>4. WordToken(v) = Operator(v[1])
    BY <1>3 DEF WordToken
  <2> HIDE DEF v
  <2> QED BY <1>1, <1>2, <2>2, <2>3, <2>4, OperatorOk
<1>4. CASE ~(Len(v) = 1 /\ v[1] \in Keywords)
  <2>1. WordToken(v) = TermToken(v, "bare")
    BY <1>4 DEF WordToken
  <2>2. TokenOk(B, q, i, Taken(<<TermToken(v, "bare")>>, k))
    BY <1>1, TermOk DEF Hows
  <2> QED BY <1>2, <2>1, <2>2
<1> QED BY <1>3, <1>4

\* A quoted term, closed or not.
LEMMA QuotedOk ==
    ASSUME NEW B, NEW q \in Seq(B), NEW i \in 1..Len(q), q[i] \in Quotes
    PROVE  TokenOk(B, q, i, Quoted(q, i))
<1> DEFINE n == Len(q)
           T == {k \in i+1..n : q[k] = q[i]}
           e == Min(T \cup {n + 1})
<1>1. n \in Nat /\ i + 1 \in Nat /\ i + 1 <= n + 1 /\ T \in SUBSET (i+1..n)
  BY SeqDom
<1>2. Quoted(q, i) = Delimited(q, i, e, "quoted")
  BY DEF Quoted, FirstFrom
<1>3. \A k \in T : q[k] = q[i]
  OBVIOUS
<1> HIDE DEF T
<1>4. e \in i+1..n+1 /\ (e <= n => e \in T)
  BY <1>1, FirstOf
<1> HIDE DEF e
<1>5. q[i] \notin LetterSet /\ (e <= n => q[e] \notin LetterSet)
  BY <1>3, <1>4, NoLetters
<1>6. TokenOk(B, q, i, Delimited(q, i, e, "quoted"))
  BY <1>4, <1>5, DelimitedOk DEF Hows
<1> QED BY <1>2, <1>6

\* A regexp, or a bare word when its slash is not closed.
LEMMA SlashedOk ==
    ASSUME NEW B, NEW q \in Seq(B), NEW i \in 1..Len(q), q[i] = "/"
    PROVE  TokenOk(B, q, i, Slashed(q, i))
<1> DEFINE end == ClosingSlash(q, i)  word == WordEnd(q, i)
<1>1. Len(q) \in Nat
  BY SeqDom
<1>2. \/ ClosingSlash(q, i) = 0
      \/ ClosingSlash(q, i) \in i+1..Len(q) /\ q[ClosingSlash(q, i)] = "/"
  BY ClosingSlashIs
<1>3. CASE end = 0
  <2>1. q[i] \notin Delimiters
    <3>1. "/" # Blank
      BY Zenon DEF Blank
    <3> QED BY <3>1 DEF Delimiters
  <2>2. word \in i+1..Len(q)+1
    BY <2>1, WordEndIs
  <2>3. Slashed(q, i) = Taken(<<TermToken(SubSeq(q, i, word - 1), "bare")>>, word)
    BY <1>3 DEF Slashed
  <2>4. TokenOk(B, q, i, Taken(<<TermToken(SubSeq(q, i, word - 1), "bare")>>, word))
    BY <2>2, TermOk DEF Hows
  <2> QED BY <2>3, <2>4
<1>4. CASE end \in i+1..Len(q) /\ q[end] = "/"
  <2>1. Slashed(q, i) = Delimited(q, i, end, "regexp")
    BY <1>1, <1>4 DEF Slashed
  <2>2. q[i] \notin LetterSet /\ q[end] \notin LetterSet /\ end \in i+1..Len(q)+1
    BY <1>1, <1>4, NoLetters
  <2>3. TokenOk(B, q, i, Delimited(q, i, end, "regexp"))
    BY <2>2, DelimitedOk DEF Hows
  <2> QED BY <2>1, <2>3
<1> QED BY <1>2, <1>3, <1>4

\* A doubled operator.
LEMMA DoubledOk ==
    ASSUME NEW B, NEW q \in Seq(B), NEW i \in 1..Len(q), q[i] \notin LetterSet, NEW kind \in OperatorKinds
    PROVE  TokenOk(B, q, i, Doubled(q, i, kind))
<1> DEFINE k == IF i < Len(q) /\ q[i + 1] = q[i] THEN i + 2 ELSE i + 1
<1>1. Len(q) \in Nat
  BY SeqDom
<1>2. k \in i+1..Len(q)+1 /\ \A j \in i..k-1 : q[j] \notin LetterSet
  BY <1>1
<1>3. Doubled(q, i, kind) = Taken(<<Operator(kind)>>, k)
  BY DEF Doubled
<1> HIDE DEF k
<1> QED BY <1>2, <1>3, OperatorOk

\* Any token.
LEMMA TakeTokenOk ==
    ASSUME NEW B, NEW q \in Seq(B), NEW i \in 1..Len(q)
    PROVE  TokenOk(B, q, i, TakeToken(q, i))
<1>1. Len(q) \in Nat /\ i + 1 \in i+1..Len(q)+1
  BY SeqDom
<1>2. q[i] \notin LetterSet => \A j \in i..(i+1)-1 : q[j] \notin LetterSet
  BY <1>1
<1>q. /\ Blank \notin Quotes /\ "(" \notin Quotes /\ ")" \notin Quotes /\ "!" \notin Quotes
      /\ "&" \notin Quotes /\ "|" \notin Quotes /\ "/" \notin Quotes
  BY Zenon DEF Quotes, Blank
<1>n. "(" # Blank /\ ")" # Blank /\ "!" # Blank /\ "&" # Blank /\ "|" # Blank /\ "/" # Blank
  BY Zenon DEF Blank
<1>3. CASE q[i] = Blank
  <2>1. TakeToken(q, i) = Taken(<<>>, i + 1)
    BY <1>3, <1>n, <1>q DEF TakeToken
  <2>2. <<>> \in Seq(TokensOver(B))
    OBVIOUS
  <2>3. TokenOk(B, q, i, Taken(<<>>, i + 1))
    BY <1>1, <1>2, <1>3, <2>2, NoLetters, ToldNothing, NoneTaken
  <2> QED BY <2>1, <2>3
<1>4. CASE q[i] \in {"(", ")"}
  <2>1. TakeToken(q, i) = Taken(<<Operator(q[i])>>, i + 1)
    BY <1>4, <1>n, <1>q DEF TakeToken
  <2>2. q[i] \in OperatorKinds /\ q[i] \notin LetterSet
    BY <1>4, NoLetters DEF OperatorKinds
  <2>3. TokenOk(B, q, i, Taken(<<Operator(q[i])>>, i + 1))
    BY <1>1, <1>2, <2>2, OperatorOk
  <2> QED BY <2>1, <2>3
<1>5. CASE q[i] = "!"
  <2>1. TakeToken(q, i) = Taken(<<Operator("not")>>, i + 1)
    BY <1>5, <1>n, <1>q DEF TakeToken
  <2>2. "not" \in OperatorKinds /\ q[i] \notin LetterSet
    BY <1>5, NoLetters DEF OperatorKinds
  <2>3. TokenOk(B, q, i, Taken(<<Operator("not")>>, i + 1))
    BY <1>1, <1>2, <2>2, OperatorOk
  <2> QED BY <2>1, <2>3
<1>6. CASE q[i] = "&"
  <2>1. TakeToken(q, i) = Doubled(q, i, "and")
    BY <1>6, <1>n, <1>q DEF TakeToken
  <2>2. TokenOk(B, q, i, Doubled(q, i, "and"))
    BY <1>6, NoLetters, DoubledOk DEF OperatorKinds
  <2> QED BY <2>1, <2>2
<1>7. CASE q[i] = "|"
  <2>1. TakeToken(q, i) = Doubled(q, i, "or")
    BY <1>7, <1>n, <1>q DEF TakeToken
  <2>2. TokenOk(B, q, i, Doubled(q, i, "or"))
    BY <1>7, NoLetters, DoubledOk DEF OperatorKinds
  <2> QED BY <2>1, <2>2
<1>8. CASE q[i] = "/"
  <2>1. TakeToken(q, i) = Slashed(q, i)
    BY <1>8, <1>n, <1>q DEF TakeToken
  <2> QED BY <1>8, <2>1, SlashedOk
<1> DEFINE plain == q[i] \notin {Blank, "(", ")", "!", "&", "|", "/"}
<1>9. CASE plain /\ q[i] \in Quotes
  <2>1. TakeToken(q, i) = Quoted(q, i)
    BY <1>9 DEF TakeToken
  <2> QED BY <1>9, <2>1, QuotedOk
<1>10. CASE plain /\ q[i] \notin Quotes
  <2>1. TakeToken(q, i) = BareWord(q, i)
    BY <1>10 DEF TakeToken
  <2>2. q[i] \notin Delimiters
    BY <1>10 DEF Delimiters
  <2> QED BY <2>1, <2>2, BareWordOk
<1> QED BY <1>3, <1>4, <1>5, <1>6, <1>7, <1>8, <1>9, <1>10

TokenTable(q, from) ==
    from = [i \in 1..Len(q) + 2 |->
              IF i > Len(q) THEN <<>>
              ELSE LET t == TakeToken(q, i) IN t.tokens \o from[t.next]]

\* The tokens from every position have a table.
LEMMA TokenTableExists ==
    ASSUME NEW B, NEW q \in Seq(B)
    PROVE  \E from : TokenTable(q, from)
<1> DEFINE n == Len(q)
           m == n + 2
           K == Seq(TokensOver(B))
           T == [1..m -> K]
           val(g, i) == IF i > n THEN <<>>
                        ELSE LET t == TakeToken(q, i) IN t.tokens \o g[t.next]
           F == [g \in T |-> [i \in 1..m |-> val(g, i)]]
<1>0. n \in Nat /\ m \in Nat
  BY SeqDom
<1>k. <<>> \in K /\ \A u, v \in K : u \o v \in K
  OBVIOUS
<1>t. \A i \in 1..m : i <= n => /\ TakeToken(q, i).next \in 1..m /\ TakeToken(q, i).next > i
                                /\ TakeToken(q, i).tokens \in K
  <2> SUFFICES ASSUME NEW i \in 1..n
               PROVE  /\ TakeToken(q, i).next \in 1..m /\ TakeToken(q, i).next > i
                      /\ TakeToken(q, i).tokens \in K
    BY <1>0
  <2>1. TokenOk(B, q, i, TakeToken(q, i))
    BY TakeTokenOk
  <2> QED BY <1>0, <2>1 DEF TokenOk
<1>d. \A g : TokenTable(q, g) <=> g = [i \in 1..m |-> val(g, i)]
  BY DEF TokenTable
<1>v. \A g : \A i \in 1..m : val(g, i) = IF i > n THEN <<>> ELSE TakeToken(q, i).tokens \o g[TakeToken(q, i).next]
  OBVIOUS
<1> HIDE DEF K, val, m, n
<1>1. ASSUME NEW g \in T, NEW i \in 1..m PROVE val(g, i) \in K
  <2>1. CASE i > n
    BY <1>k, <1>v, <2>1
  <2>2. CASE ~(i > n)
    <3>1. i <= n
      BY <1>0, <2>2
    <3>2. g[TakeToken(q, i).next] \in K /\ TakeToken(q, i).tokens \in K
      BY <1>t, <3>1
    <3> QED BY <1>k, <1>v, <2>2, <3>2
  <2> QED BY <2>1, <2>2
<1>2. ASSUME NEW g \in T, NEW h \in T, NEW i \in 1..m, AgreeLater(m, i, g, h)
      PROVE  val(g, i) = val(h, i)
  <2>1. CASE i > n
    BY <1>v, <2>1
  <2>2. CASE ~(i > n)
    <3>1. i <= n
      BY <1>0, <2>2
    <3>2. g[TakeToken(q, i).next] = h[TakeToken(q, i).next]
      BY <1>2, <1>t, <3>1 DEF AgreeLater
    <3> QED BY <1>v, <2>2, <3>2
  <2> QED BY <2>1, <2>2
<1>3. F \in [T -> T] /\ \A g \in T : F[g] = [i \in 1..m |-> val(g, i)]
  BY <1>1
<1>4. \A g \in T : \A i \in 1..m : F[g][i] = val(g, i)
  BY <1>3
<1> HIDE DEF F
<1>5. LooksAhead(m, T, F)
  BY <1>2, <1>4 DEF LooksAhead
<1>6. \E g \in T : F[g] = g
  <2>1. FunctionsOn(1..m, T) /\ T # {}
    <3>1. [k \in 1..m |-> <<>>] \in T
      BY <1>k
    <3> QED BY <3>1 DEF FunctionsOn
  <2>2. F \in [T -> T] /\ m \in Nat
    BY <1>0, <1>3
  <2> HIDE DEF T
  <2> QED BY ONLY <1>5, <2>1, <2>2, FilledFromTheEnd
<1>7. PICK g \in T : F[g] = g
  BY <1>6
<1> QED BY <1>3, <1>7, <1>d

\* The tokens hold the letters.
LEMMA TokenizeIs ==
    ASSUME NEW B, NEW q \in Seq(B)
    PROVE  TokenizeQuery(q) \in Seq(TokensOver(B)) /\ Told(TokenizeQuery(q)) = Letters(q)
<1> DEFINE n == Len(q)
           m == n + 2
           K == Seq(TokensOver(B))
           P(g) == TokenTable(q, g)
           from == CHOOSE g : P(g)
           S == {i \in 1..m : from[i] \in K /\ Told(from[i]) = Letters(From(q, i))}
<1>0. n \in Nat /\ m \in Nat
  BY SeqDom
<1>1. TokenizeQuery(q) = from[1]
  BY DEF TokenizeQuery, TokenTable
<1>2. P(from)
  <2>1. \E g : P(g)
    BY TokenTableExists
  <2> HIDE DEF P
  <2> QED BY <2>1
<1> HIDE DEF from
<1>3. \A i \in 1..m : from[i] = IF i > n THEN <<>> ELSE TakeToken(q, i).tokens \o from[TakeToken(q, i).next]
  BY <1>2 DEF TokenTable
<1> HIDE DEF P
<1>k. <<>> \in K /\ \A u, v \in K : u \o v \in K
  OBVIOUS
<1>c. \A u, v \in K : Told(u \o v) = Told(u) \o Told(v)
  BY ToldConcat
<1>s. \A i \in 1..m : i \in S <=> from[i] \in K /\ Told(from[i]) = Letters(From(q, i))
  OBVIOUS
<1> HIDE DEF S
<1>4. ASSUME NEW i \in 1..m, LaterIn(m, i, S) PROVE i \in S
  <2>1. CASE i > n
    <3>1. i = n + 1 \/ i = n + 2
      BY <1>0, <2>1
    <3>2. From(q, i) = <<>>
      BY <3>1, BehindTheEnd
    <3>3. from[i] = <<>>
      BY <1>3, <2>1
    <3> QED BY <1>k, <1>s, <3>2, <3>3, ToldNothing, LettersNone
  <2>2. CASE ~(i > n)
    <3> DEFINE t == TakeToken(q, i)
               next == t.next
               toks == t.tokens
    <3>0. i \in 1..n
      BY <1>0, <2>2
    <3>1. TokenOk(B, q, i, t)
      BY <3>0, TakeTokenOk
    <3>2. next \in 1..m /\ next > i /\ toks \in K /\ Letters(From(q, i)) = Told(toks) \o Letters(From(q, next))
      BY <1>0, <3>0, <3>1 DEF TokenOk
    <3>3. from[i] = toks \o from[next]
      BY <1>3, <2>2
    <3> HIDE DEF t, next, toks, K, m
    <3>4. next \in S
      BY <1>4, <3>2 DEF LaterIn
    <3>5. from[next] \in K /\ Told(from[next]) = Letters(From(q, next))
      BY <1>s, <3>2, <3>4
    <3>6. from[i] \in K /\ Told(from[i]) = Told(toks) \o Told(from[next])
      BY <1>c, <1>k, <3>2, <3>3, <3>5
    <3> QED BY <1>s, <3>2, <3>5, <3>6
  <2> QED BY <2>1, <2>2
<1>5. \A i \in 1..m : i \in S
  <2> HIDE DEF m
  <2> QED BY <1>0, <1>4, FromTheEnd
<1>6. 1 \in 1..m /\ 1 \in S
  BY <1>0, <1>5
<1>7. From(q, 1) = q
  BY DEF From
<1> QED BY <1>1, <1>6, <1>7, <1>s

----------------------------------------------------------------------------
(* A context flag takes no letters.                                        *)

\* A number is no letter.
LEMMA DigitsNoLetters == DOMAIN Digits = {"2", "3", "99"} /\ \A c \in DOMAIN Digits : c \notin LetterSet
<1>1. DOMAIN Digits = {"2", "3", "99"}
  BY DEF Digits
<1> QED BY <1>1 DEF LetterSet

\* A flag with its number holds no letters.
LEMMA FlagEndIs ==
    ASSUME NEW B, NEW raw \in Seq(B), NEW k \in 1..Len(raw)
    PROVE  /\ FlagEnd(raw, k) \in k..Len(raw)
           /\ FlagEnd(raw, k) # k => \A j \in k..FlagEnd(raw, k) : raw[j] \notin LetterSet
<1> DEFINE l == Len(raw)
           flag == IF raw[k] = Blank THEN k + 1 ELSE k
           T == {j \in flag+1..l : raw[j] # Blank}
           n == Min(T \cup {l + 1})
           found == /\ flag \in DOMAIN raw /\ raw[flag] \in {"-A", "-B", "-C"}
                    /\ flag > k \/ k = 1
                    /\ n <= l /\ raw[n] \in DOMAIN Digits
<1>1. l \in Nat /\ DOMAIN raw = 1..l
  BY SeqDom
<1>2. FlagEnd(raw, k) = IF found THEN n ELSE k
  BY DEF FlagEnd, FirstFrom
<1>t. T \in SUBSET (flag+1..l) /\ \A j \in flag+1..l : j \notin T => raw[j] = Blank
  OBVIOUS
<1>f. (flag = k + 1 /\ raw[k] = Blank) \/ flag = k
  OBVIOUS
<1> HIDE DEF T, flag
<1>3. CASE ~found
  <2>1. FlagEnd(raw, k) = k
    BY <1>2, <1>3
  <2> QED BY <1>1, <2>1
<1>4. CASE found
  <2>1. FlagEnd(raw, k) = n /\ flag \in 1..l /\ n <= l
    BY <1>1, <1>2, <1>4
  <2>2. flag + 1 \in Nat /\ flag + 1 <= l + 1
    BY <1>1, <2>1
  <2>3. n \in flag+1..l+1 /\ \A j \in flag+1..l : j < n => j \notin T
    BY <1>1, <1>t, <2>2, FirstOf
  <2>4. raw[flag] \notin LetterSet /\ raw[n] \notin LetterSet
    BY <1>4, NoLetters, DigitsNoLetters
  <2> HIDE DEF n
  <2>5. ASSUME NEW j \in k..n PROVE raw[j] \notin LetterSet
    <3>1. j = k \/ j = flag \/ j = n \/ (j \in flag+1..l /\ j < n)
      BY <1>1, <1>f, <2>1, <2>3
    <3>2. CASE j \in flag+1..l /\ j < n
      <4>1. raw[j] = Blank
        BY <1>t, <2>3, <3>2
      <4> QED BY <4>1, NoLetters
    <3>3. CASE j = k
      BY <1>f, <2>4, <3>3, NoLetters
    <3> QED BY <2>4, <3>1, <3>2, <3>3
  <2>6. n \in k..l
    BY <1>1, <1>f, <2>1, <2>3
  <2> QED BY <2>1, <2>5, <2>6
<1> QED BY <1>3, <1>4

\* What a text with a flag is put together of.
FlagOf(raw, k, end) == [flag |-> IF raw[k] = Blank THEN raw[k + 1] ELSE raw[k], n |-> Digits[raw[end]]]
FlagsOf(raw) == {FlagOf(raw, k, end) : k \in 1..Len(raw), end \in 1..Len(raw)}
Flagged(B, raw) == [body : Seq(B), flags : Seq(FlagsOf(raw))]
FlagTable(raw, from) ==
    from = [k \in 1..Len(raw) + 1 |->
              IF k > Len(raw) THEN [body |-> <<>>, flags |-> <<>>]
              ELSE LET end == FlagEnd(raw, k) IN WithFlag(raw, k, end, from[end + 1])]

\* The symbols that stay of those up to the end.
Staying(raw, k, end) == IF end = k THEN raw[k] ELSE Blank

\* One step of taking the flags out.
LEMMA WithFlagIs ==
    ASSUME NEW B, Blank \in B, NEW raw \in Seq(B), NEW k \in 1..Len(raw), NEW end \in 1..Len(raw),
           NEW rest \in Flagged(B, raw)
    PROVE  /\ WithFlag(raw, k, end, rest) \in Flagged(B, raw)
           /\ WithFlag(raw, k, end, rest).body = <<Staying(raw, k, end)>> \o rest.body
           /\ Staying(raw, k, end) \in B
<1> DEFINE U == FlagsOf(raw)
           b == rest.body
           f == rest.flags
           x == Staying(raw, k, end)
           y == FlagOf(raw, k, end)
<1>1. b \in Seq(B) /\ f \in Seq(U) /\ y \in U
  BY DEF Flagged, FlagsOf
<1>2. x \in B
  BY DEF Staying
<1>3. WithFlag(raw, k, end, rest) =
        IF end = k THEN [body |-> <<x>> \o b, flags |-> f] ELSE [body |-> <<x>> \o b, flags |-> <<y>> \o f]
  BY DEF WithFlag, Staying, FlagOf
<1>d. Flagged(B, raw) = [body : Seq(B), flags : Seq(U)]
  BY DEF Flagged
<1> HIDE DEF U, b, f, x, y
<1>4. <<x>> \o b \in Seq(B) /\ <<y>> \o f \in Seq(U)
  BY <1>1, <1>2
<1> DEFINE p == <<x>> \o b  r == <<y>> \o f
<1>5. p \in Seq(B) /\ r \in Seq(U)
  BY <1>4
<1>6. WithFlag(raw, k, end, rest) = IF end = k THEN [body |-> p, flags |-> f] ELSE [body |-> p, flags |-> r]
  BY <1>3
<1> HIDE DEF p, r
<1>7. WithFlag(raw, k, end, rest) \in Flagged(B, raw) /\ WithFlag(raw, k, end, rest).body = p
  BY <1>1, <1>5, <1>6, <1>d
<1> QED BY <1>2, <1>7 DEF p, x, b

\* What stays of the text, from every position on, has a table.
LEMMA FlagTableExists ==
    ASSUME NEW B, Blank \in B, NEW raw \in Seq(B)
    PROVE  \E from : FlagTable(raw, from)
<1> DEFINE n == Len(raw)
           m == n + 1
           K == Flagged(B, raw)
           T == [1..m -> K]
           none == [body |-> <<>>, flags |-> <<>>]
           val(g, k) == IF k > n THEN none ELSE LET end == FlagEnd(raw, k) IN WithFlag(raw, k, end, g[end + 1])
           F == [g \in T |-> [k \in 1..m |-> val(g, k)]]
<1>0. n \in Nat /\ m \in Nat
  BY SeqDom
<1>k. none \in K
  BY DEF Flagged
<1>t. \A k \in 1..m : k <= n => /\ k \in 1..n /\ FlagEnd(raw, k) \in 1..n
                                /\ FlagEnd(raw, k) + 1 \in 1..m /\ FlagEnd(raw, k) + 1 > k
  <2> SUFFICES ASSUME NEW k \in 1..n
               PROVE  /\ FlagEnd(raw, k) \in 1..n
                      /\ FlagEnd(raw, k) + 1 \in 1..m /\ FlagEnd(raw, k) + 1 > k
    BY <1>0
  <2>1. FlagEnd(raw, k) \in k..n
    BY FlagEndIs
  <2> QED BY <1>0, <2>1
<1>d. \A g : FlagTable(raw, g) <=> g = [k \in 1..m |-> val(g, k)]
  BY DEF FlagTable
<1>v. \A g : \A k \in 1..m : val(g, k) = IF k > n THEN none ELSE WithFlag(raw, k, FlagEnd(raw, k), g[FlagEnd(raw, k) + 1])
  OBVIOUS
<1>w. \A k, end \in 1..n : \A rest \in K : WithFlag(raw, k, end, rest) \in K
  BY WithFlagIs
<1> HIDE DEF K, val, m, n, none
<1>1. ASSUME NEW g \in T, NEW k \in 1..m PROVE val(g, k) \in K
  <2>1. CASE k > n
    BY <1>k, <1>v, <2>1
  <2>2. CASE ~(k > n)
    <3>1. k <= n
      BY <1>0, <2>2
    <3>2. g[FlagEnd(raw, k) + 1] \in K
      BY <1>t, <3>1
    <3>3. WithFlag(raw, k, FlagEnd(raw, k), g[FlagEnd(raw, k) + 1]) \in K
      BY <1>t, <1>w, <3>1, <3>2
    <3> QED BY <1>v, <2>2, <3>3
  <2> QED BY <2>1, <2>2
<1>2. ASSUME NEW g \in T, NEW h \in T, NEW k \in 1..m, AgreeLater(m, k, g, h)
      PROVE  val(g, k) = val(h, k)
  <2>1. CASE k > n
    BY <1>v, <2>1
  <2>2. CASE ~(k > n)
    <3>1. k <= n
      BY <1>0, <2>2
    <3>2. g[FlagEnd(raw, k) + 1] = h[FlagEnd(raw, k) + 1]
      BY <1>2, <1>t, <3>1 DEF AgreeLater
    <3> QED BY <1>v, <2>2, <3>2
  <2> QED BY <2>1, <2>2
<1>3. F \in [T -> T] /\ \A g \in T : F[g] = [k \in 1..m |-> val(g, k)]
  BY <1>1
<1>4. \A g \in T : \A k \in 1..m : F[g][k] = val(g, k)
  BY <1>3
<1> HIDE DEF F
<1>5. LooksAhead(m, T, F)
  BY <1>2, <1>4 DEF LooksAhead
<1>6. \E g \in T : F[g] = g
  <2>1. FunctionsOn(1..m, T) /\ T # {}
    <3>1. [k \in 1..m |-> none] \in T
      BY <1>k
    <3> QED BY <3>1 DEF FunctionsOn
  <2>2. F \in [T -> T] /\ m \in Nat
    BY <1>0, <1>3
  <2> HIDE DEF T
  <2> QED BY ONLY <1>5, <2>1, <2>2, FilledFromTheEnd
<1>7. PICK g \in T : F[g] = g
  BY <1>6
<1> QED BY <1>3, <1>7, <1>d

\* The flags take no letters from the text.
LEMMA ContextFlagsAre ==
    ASSUME NEW B, Blank \in B, NEW raw \in Seq(B)
    PROVE  ContextFlags(raw).body \in Seq(B) /\ Letters(ContextFlags(raw).body) = Letters(raw)
<1> DEFINE n == Len(raw)
           m == n + 1
           K == Flagged(B, raw)
           P(g) == FlagTable(raw, g)
           from == CHOOSE g : P(g)
           S == {k \in 1..m : from[k] \in K /\ Letters(from[k].body) = Letters(From(raw, k))}
<1>0. n \in Nat /\ m \in Nat
  BY SeqDom
<1>1. ContextFlags(raw) = from[1]
  BY DEF ContextFlags, FlagTable
<1>2. P(from)
  <2>1. \E g : P(g)
    BY FlagTableExists
  <2> HIDE DEF P
  <2> QED BY <2>1
<1> HIDE DEF from
<1>3. \A k \in 1..m : from[k] = IF k > n THEN [body |-> <<>>, flags |-> <<>>]
                                ELSE WithFlag(raw, k, FlagEnd(raw, k), from[FlagEnd(raw, k) + 1])
  BY <1>2 DEF FlagTable
<1> HIDE DEF P
<1>s. \A k \in 1..m : k \in S <=> from[k] \in K /\ Letters(from[k].body) = Letters(From(raw, k))
  OBVIOUS
<1> HIDE DEF S
<1>4. ASSUME NEW k \in 1..m, LaterIn(m, k, S) PROVE k \in S
  <2>1. CASE k > n
    <3>1. k = n + 1
      BY <1>0, <2>1
    <3>2. From(raw, k) = <<>>
      BY <3>1, BehindTheEnd
    <3>3. from[k] = [body |-> <<>>, flags |-> <<>>]
      BY <1>3, <2>1
    <3>4. from[k] \in K /\ from[k].body = <<>>
      BY <3>3 DEF Flagged
    <3> QED BY <1>s, <3>2, <3>4, LettersNone
  <2>2. CASE ~(k > n)
    <3> DEFINE end == FlagEnd(raw, k)
               rest == from[end + 1]
               x == Staying(raw, k, end)
               b == rest.body
    <3>0. k \in 1..n
      BY <1>0, <2>2
    <3>1. end \in k..n /\ (end # k => \A j \in k..end : raw[j] \notin LetterSet)
      BY <3>0, FlagEndIs
    <3>2. end \in 1..n /\ end + 1 \in 1..m /\ end + 1 > k
      BY <1>0, <3>0, <3>1
    <3>3. from[k] = WithFlag(raw, k, end, rest)
      BY <1>3, <2>2
    <3>4. rest \in K /\ Letters(b) = Letters(From(raw, end + 1))
      <4>1. end + 1 \in S
        BY <1>4, <3>2 DEF LaterIn
      <4> QED BY <1>s, <3>2, <4>1
    <3>5. from[k] \in K /\ from[k].body = <<x>> \o b /\ x \in B
      BY <3>0, <3>2, <3>3, <3>4, WithFlagIs
    <3>6. b \in Seq(B)
      BY <3>4 DEF Flagged
    <3>7. Letters(<<x>> \o b) = Letters(<<x>>) \o Letters(b)
      <4> HIDE DEF x, b
      <4>1. <<x>> \in Seq(B)
        BY <3>5
      <4> QED BY <3>6, <4>1, LettersConcat
    <3>8. Letters(From(raw, k)) = Letters(<<x>>) \o Letters(From(raw, end + 1))
      <4>1. CASE end = k
        <5>1. k \in 1..Len(raw)+1 /\ k + 1 \in k..Len(raw)+1 /\ (k + 1) - 1 = k
          BY <1>0, <3>0
        <5>2. Letters(From(raw, k)) = Letters(SubSeq(raw, k, (k + 1) - 1)) \o Letters(From(raw, k + 1))
          BY <5>1, Passed
        <5>3. SubSeq(raw, k, k) = <<raw[k]>>
          <6> DEFINE u == SubSeq(raw, k, k)  y == raw[k]
          <6>1. u \in Seq(B) /\ Len(u) = 1 /\ u[1] = y /\ y \in B
            BY <1>0, <3>0
          <6> HIDE DEF u, y
          <6>2. u = Append(<<>>, y)
            BY <6>1
          <6>3. Append(<<>>, y) = <<y>>
            BY <6>1
          <6> QED BY <6>2, <6>3 DEF u, y
        <5>4. x = raw[k]
          BY <4>1 DEF Staying
        <5> HIDE DEF x, end
        <5> QED BY <4>1, <5>1, <5>2, <5>3, <5>4
      <4>2. CASE end # k
        <5>1. x = Blank
          BY <4>2 DEF Staying
        <5>2. Letters(<<x>>) = <<>>
          <6>1. <<Blank>> \in Seq(B) /\ Len(<<Blank>>) = 1 /\ <<Blank>>[1] = Blank
            OBVIOUS
          <6>2. \A j \in 1..Len(<<Blank>>) : <<Blank>>[j] \notin LetterSet
            BY <6>1, NoLetters
          <6>3. Letters(<<Blank>>) = <<>>
            BY <6>1, <6>2, LettersSkipped
          <6> QED BY <5>1, <6>3
        <5>3. Letters(From(raw, k)) = Letters(From(raw, end + 1))
          <6>1. k \in 1..Len(raw)+1 /\ end + 1 \in k..Len(raw)+1
            BY <1>0, <3>0, <3>1
          <6>2. \A j \in k..(end+1)-1 : raw[j] \notin LetterSet
            BY <1>0, <3>0, <3>1, <4>2
          <6> HIDE DEF end
          <6> QED BY <6>1, <6>2, PassedOver
        <5> DEFINE r == Letters(From(raw, end + 1))
        <5>4. <<>> \o r = r
          <6>1. r \in Seq(B)
            <7>1. end + 1 \in 1..Len(raw)+2
              BY <1>0, <3>2
            <7> HIDE DEF end
            <7> QED BY <7>1, FromLetters
          <6> HIDE DEF r
          <6> QED BY <6>1
        <5> QED BY <5>2, <5>3, <5>4
      <4> QED BY <4>1, <4>2
    <3> HIDE DEF x, b, rest, end
    <3> QED BY <1>s, <3>4, <3>5, <3>7, <3>8
  <2> QED BY <2>1, <2>2
<1>5. \A k \in 1..m : k \in S
  <2> HIDE DEF m
  <2> QED BY <1>0, <1>4, FromTheEnd
<1>6. 1 \in 1..m /\ 1 \in S
  BY <1>0, <1>5
<1>7. From(raw, 1) = raw
  BY DEF From
<1>8. from[1] \in K /\ Letters(from[1].body) = Letters(raw)
  BY <1>6, <1>7, <1>s
<1>9. from[1].body \in Seq(B)
  BY <1>8 DEF Flagged
<1> QED BY <1>1, <1>8, <1>9

----------------------------------------------------------------------------
(* The query that is typed.                                                *)

\* The tree of a text without flags matches its readings and tells its letters.
LEMMA ParsedBody ==
    ASSUME NEW B, NEW body \in Seq(B)
    PROVE  /\ MatchesReadings(ParseBody(body))
           /\ Told(ParseBody(body).toks) = Letters(body)
           /\ Told(ParseBody(body).toks) \in Seq(B)
<1>1. CASE body = <<>>
  <2>1. ParseBody(body) = EmptyQuery
    BY <1>1 DEF ParseBody
  <2>2. EmptyQuery.toks = <<>>
    BY DEF EmptyQuery
  <2>3. <<>> \in Seq(B)
    OBVIOUS
  <2> QED BY <1>1, <2>1, <2>2, <2>3, EmptyMatches, ToldNothing, LettersNone
<1>2. CASE body # <<>>
  <2> DEFINE toks == TokenizeQuery(body)
             tree == TreeOver(body, toks)
  <2>1. ParseBody(body) = tree
    BY <1>2 DEF ParseBody
  <2>2. toks \in Seq(TokensOver(B)) /\ Told(toks) = Letters(body)
    BY TokenizeIs
  <2> HIDE DEF toks
  <2>3. MatchesReadings(tree)
    BY <2>2, TreeMatches
  <2>4. tree.toks = toks
    BY DEF TreeOver, TreeOf
  <2>5. Told(toks) \in Seq(B)
    BY <2>2, ToldIn
  <2> HIDE DEF tree
  <2> QED BY <2>1, <2>2, <2>3, <2>4, <2>5
<1> QED BY <1>1, <1>2

\* So does the tree of the search half of the text.
LEMMA QueryTree ==
    ASSUME NEW B, Blank \in B, NEW raw \in Seq(B)
    PROVE  LET tree == ParseSearchQuery(raw).search.tree
               query == SplitFieldClause(raw).query
           IN  MatchesReadings(tree) /\ Told(tree.toks) = Letters(query)
<1> DEFINE query == SplitFieldClause(raw).query
           flagged == ContextFlags(query)
           body == Trim(flagged.body)
<1>1. query \in Seq(B)
  BY ClauseIn
<1>2. ParseSearchQuery(raw).search.tree = ParseBody(body)
  <2>1. ParseSearchQuery(raw).search = ParseFlagged(flagged)
    BY DEF ParseSearchQuery, ParseSplit
  <2>2. ParseFlagged(flagged).tree = ParseBody(body)
    BY DEF ParseFlagged
  <2> QED BY <2>1, <2>2
<1> HIDE DEF query
<1>3. flagged.body \in Seq(B) /\ Letters(flagged.body) = Letters(query)
  BY <1>1, ContextFlagsAre
<1> HIDE DEF flagged
<1>4. body \in Seq(B) /\ Letters(body) = Letters(query)
  BY <1>3, TrimIn, LettersTrim
<1> HIDE DEF body
<1>5. MatchesReadings(ParseBody(body)) /\ Told(ParseBody(body).toks) = Letters(body)
  BY <1>4, ParsedBody
<1> QED BY <1>2, <1>4, <1>5 DEF query

\* The pipe takes no letters.
LEMMA HalvesLetters ==
    ASSUME NEW B, NEW raw \in Seq(B)
    PROVE  Letters(raw) = Letters(SplitFieldClause(raw).query) \o Letters(SplitFieldClause(raw).clause)
<1> DEFINE x == SplitFieldClause(raw)
           n == Len(raw)
<1>0. n \in Nat
  BY SeqDom
<1>1. \/ x.query = raw /\ x.clause = <<>>
      \/ \E i \in 1..Len(raw) :
            raw[i] = "|" /\ x.query = Trim(Upto(raw, i - 1)) /\ x.clause = Trim(From(raw, i + 1))
  BY SplitFieldClauseIs
<1> HIDE DEF x
<1>2. CASE x.query = raw /\ x.clause = <<>>
  <2>1. Letters(raw) \in Seq(B)
    BY LettersIn
  <2> DEFINE r == Letters(raw)
  <2>2. r \o <<>> = r
    <3> HIDE DEF r
    <3>1. r \in Seq(B)
      BY <2>1 DEF r
    <3> QED BY <3>1
  <2> QED BY <1>2, <2>2, LettersNone DEF x
<1>3. ASSUME NEW i \in 1..Len(raw), raw[i] = "|",
             x.query = Trim(Upto(raw, i - 1)), x.clause = Trim(From(raw, i + 1))
      PROVE  Letters(raw) = Letters(x.query) \o Letters(x.clause)
  <2>1. /\ i - 1 \in 0..n /\ i + 1 \in 1..n+1 /\ i \in 1..n+1 /\ 1 \in 1..n+1 /\ i \in 1..n+1
        /\ n \in 0..n /\ i - 1 \in Nat /\ i \in 1..Len(raw)+1
    BY <1>0
  <2>2. Upto(raw, i - 1) \in Seq(B) /\ Upto(raw, i - 1) = SubSeq(raw, 1, i - 1) /\ From(raw, i + 1) \in Seq(B)
    BY <2>1, UptoIn, FromIn
  <2>3. Letters(x.query) = Letters(SubSeq(raw, 1, i - 1)) /\ Letters(x.clause) = Letters(From(raw, i + 1))
    BY <1>3, <2>2, LettersTrim
  <2>4. Letters(From(raw, i)) = Letters(From(raw, i + 1))
    BY <1>3, <2>1, NoLetters, OnePassed
  <2>5. Letters(From(raw, 1)) = Letters(SubSeq(raw, 1, i - 1)) \o Letters(From(raw, i))
    <3>1. 1 \in 1..Len(raw)+1 /\ i \in 1..Len(raw)+1
      BY <1>0
    <3> QED BY <3>1, Passed
  <2>6. From(raw, 1) = raw
    BY DEF From
  <2> QED BY <2>3, <2>4, <2>5, <2>6
<1> QED BY <1>1, <1>2, <1>3 DEF x

\* The text that is typed.
LEMMA ParsedWritten ==
    ASSUME typed \in Seq(Symbols)
    PROVE  ParsedAsWritten
<1>1. Blank \in Symbols
  BY DEF Symbols
<1> QED BY <1>1, QueryTree DEF ParsedAsWritten

LEMMA NothingLost ==
    ASSUME typed \in Seq(Symbols)
    PROVE  NothingTypedIsLost
<1>1. Blank \in Symbols
  BY DEF Symbols
<1> DEFINE tree == ParseSearchQuery(typed).search.tree
<1>2. Told(tree.toks) = Letters(SplitFieldClause(typed).query)
  BY <1>1, QueryTree
<1>3. Letters(typed) = Letters(SplitFieldClause(typed).query) \o Letters(SplitFieldClause(typed).clause)
  BY HalvesLetters
<1> QED BY <1>2, <1>3 DEF NothingTypedIsLost, Told

----------------------------------------------------------------------------
(* Every text that is typed.                                               *)

\* Whatever the drafts and bounds are, what is typed is a text.
TypedInv == draft \in Drafts /\ typed \in Seq(Symbols)

\* The start of a draft is a text, and so is a text with one more of its symbols.
LEMMA TextStarts == QueryInit => TypedInv
<1> SUFFICES ASSUME QueryInit
             PROVE  TypedInv
  OBVIOUS
<1>1. draft \in Drafts /\ typed = draft.start
  BY DEF QueryInit
<1>2. draft.start \in Seq(STRING)
  BY <1>1, QueryAssumption
<1>3. typed \in Seq(Symbols)
  BY <1>1, <1>2 DEF Symbols
<1> QED BY <1>1, <1>3 DEF TypedInv

LEMMA TextGrows == TypedInv /\ [QueryNext]_queryVars => TypedInv'
<1> SUFFICES ASSUME TypedInv, [QueryNext]_queryVars
             PROVE  TypedInv'
  OBVIOUS
<1>1. CASE UNCHANGED queryVars
  BY <1>1 DEF TypedInv, queryVars
<1>2. ASSUME NEW s \in draft.symbols, Type(s)
      PROVE  TypedInv'
  <2>1. draft \in Drafts /\ typed \in Seq(Symbols)
    BY DEF TypedInv
  <2>2. s \in Symbols
    BY <2>1, QueryAssumption DEF Symbols
  <2>3. typed' = Append(typed, s) /\ draft' = draft
    BY <1>2 DEF Type
  <2>4. typed' \in Seq(Symbols)
    BY <2>1, <2>2, <2>3
  <2> QED BY <2>1, <2>3, <2>4 DEF TypedInv
<1> QED BY <1>1, <1>2 DEF QueryNext

\* It is one throughout.
LEMMA TypedInvariant == QuerySpec => []TypedInv
BY TextStarts, TextGrows, PTL DEF QuerySpec

\* Every query that is well formed matches what the grammar says, whatever is typed:
\* NOT binds closest, AND and words side by side come next, OR last, and groups
\* override that (parseOr, parseAnd, parseNot).
THEOREM QueriesParsedAsWritten == QuerySpec => []ParsedAsWritten
<1>1. TypedInv => ParsedAsWritten
  BY ParsedWritten DEF TypedInv
<1> QED BY <1>1, TypedInvariant, PTL

\* No word is lost, however much of the query is half-typed: the letters of the terms
\* and of the clause are those typed, in their order (tokenizeQuery, contextFlagRe,
\* SplitFieldClause).
THEOREM NothingIsLost == QuerySpec => []NothingTypedIsLost
<1>1. TypedInv => NothingTypedIsLost
  BY NothingLost DEF TypedInv
<1> QED BY <1>1, TypedInvariant, PTL

\* The filter of a clause keeps what its parts keep, joined at "or" and "and", and one
\* part that does not parse shows every line (ParseFieldFilter, FieldFilter.Keep).
THEOREM HalfTypedShows == QuerySpec => []HalfTypedShowsAll
<1>1. TypedInv => HalfTypedShowsAll
  BY HalfTyped DEF TypedInv
<1> QED BY <1>1, TypedInvariant, PTL

============================================================================
