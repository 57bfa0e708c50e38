----------------------------- MODULE QueryPlan -----------------------------
(***************************************************************************)
(* The query planner (backend/internal/parser/search.go, the node types,   *)
(* and searchindex.go, triQuery): from a query it derives the trigrams a   *)
(* matching file must contain and the literal a matching line must         *)
(* contain.                                                                *)
(*                                                                         *)
(* The planner works bottom-up over two kinds of tree, so the model builds *)
(* trees: a state is the set of nodes built so far, each with the plan the *)
(* code gives it and with what it matches (regexp and strings.Contains, by *)
(* what they do).  A step builds one more node.  The loop over the parts   *)
(* of a regexp concatenation is taken step by step.  Texts are case-folded *)
(* already.                                                                *)
(***************************************************************************)
EXTENDS Naturals, Sequences, FiniteSets

CONSTANTS
    Chars,
    Texts,           \* the lines and strings considered
    Literals,        \* the literals of the queries
    MaxTriGroups,    \* maxTriGroups
    MaxNodes,        \* bound: nodes built
    MaxParts,        \* bound: parts of a concatenation
    NoConcat

ASSUME QueryPlanAssumption ==
    /\ Texts \subseteq Seq(Chars) /\ Literals \subseteq Seq(Chars)
    /\ MaxTriGroups \in Nat \ {0} /\ MaxNodes \in Nat /\ MaxParts \in Nat

VARIABLES
    nodes,      \* the nodes built so far
    concat      \* the concatenation triFromSyntax is walking, or NoConcat

vars == <<nodes, concat>>

----------------------------------------------------------------------------
(* Texts.                                                                  *)

Tris(t) == {<<t[k], t[k + 1], t[k + 2]>> : k \in {x \in DOMAIN t : x + 2 \in DOMAIN t}}

FoundAt(s, t, k) == \A x \in DOMAIN s : x + k \in DOMAIN t /\ t[x + k] = s[x]
Holds(t, s) == \E k \in 0..Len(t) : FoundAt(s, t, k)

Joined(A, B) == {u \o v : u \in A, v \in B} \cap Texts

\* The texts that can be cut into pieces of A.
Star(A) ==
    {t \in Texts :
        \E cuts \in SUBSET (0..Len(t)) :
            /\ {0, Len(t)} \subseteq cuts
            /\ \A x, y \in cuts : (x < y /\ ~\E c \in cuts : x < c /\ c < y)
                    => SubSeq(t, x + 1, y) \in A}

----------------------------------------------------------------------------
(* triQuery: alternatives ("ors"), each a set of trigrams that must all be *)
(* present and a literal.  n counts the alternatives, repeated ones too.   *)

TriAny == [any |-> TRUE, ors |-> {}, n |-> 0]

TriFromLiteral(s) ==
    IF Len(s) < 3 THEN TriAny
    ELSE [any |-> FALSE, ors |-> {[tris |-> Tris(s), lit |-> s]}, n |-> 1]

Both(g, h) == [tris |-> g.tris \cup h.tris,
               lit |-> IF Len(h.lit) > Len(g.lit) THEN h.lit ELSE g.lit]

Cross(A, B) == {Both(g, h) : g \in A, h \in B}

\* Either side alone is a sound filter when the product would grow too large.
TriAnd(a, b) ==
    IF a.any THEN b
    ELSE IF b.any THEN a
    ELSE IF a.n * b.n > MaxTriGroups THEN (IF a.n <= b.n THEN a ELSE b)
    ELSE [any |-> FALSE, ors |-> Cross(a.ors, b.ors), n |-> a.n * b.n]

\* Mistake: an alternative without a plan is left out.
TriOrNarrow(a, b) ==
    IF a.any THEN b
    ELSE IF b.any THEN a
    ELSE IF a.n + b.n > MaxTriGroups THEN TriAny
    ELSE [any |-> FALSE, ors |-> a.ors \cup b.ors, n |-> a.n + b.n]

TriOr(a, b) ==
    IF a.any \/ b.any \/ a.n + b.n > MaxTriGroups THEN TriAny
    ELSE [any |-> FALSE, ors |-> a.ors \cup b.ors, n |-> a.n + b.n]

\* Mistake: the literal of any alternative.
GateOfAny(q) ==
    IF q.any \/ q.n = 0 THEN <<>>
    ELSE (CHOOSE g \in q.ors : TRUE).lit

\* The literal every matching line must contain, <<>> if there is none.
Gate(q) ==
    IF q.any \/ q.n # 1 THEN <<>>
    ELSE LET g == CHOOSE g \in q.ors : TRUE
         IN  IF Len(g.lit) < 3 THEN <<>> ELSE g.lit

----------------------------------------------------------------------------
(* The nodes of regexps (syntax.Regexp) match whole strings, the nodes of  *)
(* queries (termNode, notNode, andNode, orNode) match lines.               *)

Node(kind, plan, matches) == [kind |-> kind, plan |-> plan, matches |-> matches]

Regexps == {r \in nodes : r.kind = "regexp"}
Queries == {q \in nodes : q.kind = "query"}

\* OpLiteral.
Literal(s) == Node("regexp", TriFromLiteral(s), {s})

\* OpAnyChar, as any character class; OpEmptyMatch, as the zero-width assertions:
\* nothing is required.
AnyChar == Node("regexp", TriAny, {<<c>> : c \in Chars})
Empty == Node("regexp", TriAny, {<<>>})

\* makeTerm of a quoted word, or of one that is no regexp: a literal.
QuotedTerm(s) == Node("query", TriFromLiteral(s), {t \in Texts : Holds(t, s)})

Leaves == {AnyChar, Empty} \cup UNION {{Literal(s), QuotedTerm(s)} : s \in Literals}

Init == nodes = Leaves /\ concat = NoConcat

Build(node) ==
    /\ Cardinality(nodes \ Leaves) < MaxNodes
    /\ nodes' = nodes \cup {node}

\* OpAlternate; Simplify leaves two parts or more.
Alternate(r, s) ==
    /\ Build(Node("regexp", TriOr(r.plan, s.plan), r.matches \cup s.matches))
    /\ UNCHANGED concat

\* OpPlus: what the body requires is required at least once.  (Simplify rewrites
\* OpRepeat into the other operators.)
Plus(r) ==
    /\ Build(Node("regexp", r.plan, Joined(r.matches, Star(r.matches))))
    /\ UNCHANGED concat

\* OpStar and OpQuest: nothing is required.
Repeat(r) ==
    /\ \/ Build(Node("regexp", TriAny, Star(r.matches)))
       \/ Build(Node("regexp", TriAny, r.matches \cup {<<>>}))
    /\ UNCHANGED concat

\* The recursion is given up below 24 levels.
TooDeep(r) == Build(Node("regexp", TriAny, r.matches)) /\ UNCHANGED concat

\* OpConcat: adjacent literals are merged into a run before they are planned.
\* "matched" is what the parts up to here match.
StartConcat ==
    /\ concat = NoConcat /\ Cardinality(nodes \ Leaves) < MaxNodes
    /\ concat' = [q |-> TriAny, run |-> <<>>, matched |-> {<<>>}, parts |-> 0]
    /\ UNCHANGED nodes

InConcat == concat # NoConcat /\ concat.parts < MaxParts

ConcatLiteral(s) ==
    /\ InConcat
    /\ concat' = [q |-> concat.q, run |-> concat.run \o s,
                  matched |-> Joined(concat.matched, {s}), parts |-> concat.parts + 1]
    /\ UNCHANGED nodes

\* flush.
Flushed == IF concat.run = <<>> THEN concat.q ELSE TriAnd(concat.q, TriFromLiteral(concat.run))

ConcatPart(r) ==
    /\ InConcat
    /\ concat' = [q |-> TriAnd(Flushed, r.plan), run |-> <<>>,
                  matched |-> Joined(concat.matched, r.matches), parts |-> concat.parts + 1]
    /\ UNCHANGED nodes

EndConcat ==
    /\ concat # NoConcat /\ concat.parts > 0
    /\ Build(Node("regexp", Flushed, concat.matched))
    /\ concat' = NoConcat

\* makeTerm: a bare word is a regexp that may match anywhere in the line (also,
\* when anchored, in the line without its log prefix).
Term(r) ==
    /\ Build(Node("query", r.plan, {t \in Texts : \E u \in r.matches : Holds(t, u)}))
    /\ UNCHANGED concat

Not(q) == Build(Node("query", TriAny, Texts \ q.matches)) /\ UNCHANGED concat

And(q, r) ==
    /\ Build(Node("query", TriAnd(q.plan, r.plan), q.matches \cap r.matches))
    /\ UNCHANGED concat

Or(q, r) ==
    /\ Build(Node("query", TriOr(q.plan, r.plan), q.matches \cup r.matches))
    /\ UNCHANGED concat

Next ==
    \/ StartConcat \/ EndConcat \/ \E s \in Literals : ConcatLiteral(s)
    \/ \E r \in Regexps : Plus(r) \/ Repeat(r) \/ TooDeep(r) \/ ConcatPart(r) \/ Term(r)
    \/ \E r, s \in Regexps : Alternate(r, s)
    \/ \E q \in Queries : Not(q)
    \/ \E q, r \in Queries : And(q, r) \/ Or(q, r)

Spec == Init /\ [][Next]_vars

----------------------------------------------------------------------------
(* Properties.                                                             *)

Group == [tris : SUBSET (Chars \X Chars \X Chars), lit : Seq(Chars)]
TriQuery == [any : BOOLEAN, ors : SUBSET Group, n : Nat]

\* Type invariant: a plan that constrains has an alternative, and never more
\* than maxTriGroups of them.
PlanTypeOK(q) ==
    /\ q \in TriQuery
    /\ ~q.any => q.ors # {} /\ q.n \in 1..MaxTriGroups
    /\ q.n = 1 => \E g \in q.ors : q.ors = {g}

TypeOK ==
    /\ \A node \in nodes :
          /\ node.kind \in {"regexp", "query"}
          /\ node.matches \subseteq Seq(Chars)
          /\ PlanTypeOK(node.plan)
    /\ concat # NoConcat =>
          /\ PlanTypeOK(concat.q)
          /\ concat.run \in Seq(Chars) /\ concat.matched \subseteq Seq(Chars)

\* Does a text satisfy a plan: does it have what one alternative asks for?
Satisfies(t, q) == q.any \/ \E g \in q.ors : g.tris \subseteq Tris(t) /\ Holds(t, g.lit)

\* "The index is only ever allowed to *narrow* the search" (searchindex.go):
\* whatever the query, a line that matches it has all the trigrams of some
\* alternative of its plan, so its file is not dropped.
PlanSound ==
    \A node \in nodes : \A t \in node.matches :
        node.plan.any \/ \E g \in node.plan.ors : g.tris \subseteq Tris(t)

\* A line that matches contains the gate, so the line gate does not drop it.
GateSound ==
    \A q \in Queries : \A t \in q.matches : Holds(t, Gate(q.plan))

=============================================================================
