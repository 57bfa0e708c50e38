------------------------------- MODULE Query -------------------------------
(***************************************************************************)
(* The query language (backend/internal/parser/search.go, from the text of *)
(* a query to its tree, and fieldfilter.go, the clause behind the pipe).   *)
(* The query is parsed anew whenever it has changed, so the model types it *)
(* symbol by symbol and every text on the way is a query.                  *)
(*                                                                         *)
(* A symbol is a character the parsers look at, or a chunk they take as    *)
(* one: a word, a number, "$2", ">=".  Texts are case-folded already.      *)
(***************************************************************************)
EXTENDS Selection, SequencesExt, FiniteSetsExt, TLC

CONSTANTS
    Drafts,           \* what may be typed: symbols, after a start
    MaxTyped,         \* bound: symbols typed after the start
    MaxContextLines,  \* maxContextLines
    LogLines          \* the lines the filter is asked about

ASSUME QueryAssumption ==
    \A d \in Drafts : d.start \in Seq(STRING) /\ d.symbols \subseteq STRING

VARIABLES draft, typed

queryVars == <<draft, typed>>

Blank == " "
Digits == [d \in {"2", "3", "99"} |-> CASE d = "2" -> 2 [] d = "3" -> 3 [] OTHER -> 99]
FieldNumbers == "$0" :> 0 @@ "$1" :> 1 @@ "$2" :> 2
Comparisons == {">", ">=", "<", "<=", "==", "!=", "~", "!~"}
Quotes == {"'", "\""}
Delimiters == {Blank, "(", ")", "!", "&", "|"}

\* Symbols that would be read as one if they followed each other.
Merge(s, t) ==
    \/ s \in DOMAIN Digits \cup DOMAIN FieldNumbers /\ t \in DOMAIN Digits
    \/ s = "!" /\ t = "~"

QueryInit == draft \in Drafts /\ typed = draft.start

Type(s) ==
    /\ Len(typed) < Len(draft.start) + MaxTyped
    /\ typed # <<>> => ~Merge(typed[Len(typed)], s)
    /\ typed' = Append(typed, s)
    /\ UNCHANGED draft

QueryNext == \E s \in draft.symbols : Type(s)

QuerySpec == QueryInit /\ [][QueryNext]_queryVars

----------------------------------------------------------------------------
(* Texts.                                                                  *)

\* s without what is in Cut at its ends (strings.Trim, TrimSpace).
TrimOf(s, Cut) ==
    LET kept == {k \in DOMAIN s : s[k] \notin Cut}
    IN  IF kept = {} THEN <<>> ELSE SubSeq(s, Min(kept), Max(kept))
Trim(s) == TrimOf(s, {Blank})

From(s, k) == SubSeq(s, k, Len(s))

\* The first position from i on where P holds, Len(s) + 1 if there is none.
FirstFrom(s, i, P(_)) == Min({k \in i..Len(s) : P(s[k])} \cup {Len(s) + 1})

\* s cut at each x, as a loop over s does it: the pieces that are complete, and the
\* one it is in.
Split(s, x) ==
    LET upto[n \in 0..Len(s)] ==
            IF n = 0 THEN [out |-> <<>>, cur |-> <<>>]
            ELSE LET before == upto[n - 1]
                 IN  IF s[n] = x THEN [out |-> Append(before.out, before.cur), cur |-> <<>>]
                     ELSE [out |-> before.out, cur |-> Append(before.cur, s[n])]
    IN  Append(upto[Len(s)].out, upto[Len(s)].cur)

\* strings.Fields.
Filled(pieces) == Pick(pieces, {k \in DOMAIN pieces : pieces[k] # <<>>})
Words(s) == Filled(Split(s, Blank))

\* s cut at the symbols sep (Regexp.Split of one that has no operator).
Cut(s, sep) ==
    LET at[i \in 1..Len(s) + 1] ==   \* the pieces from i on
            LET ends == {k \in i..Len(s) - Len(sep) + 1 : SubSeq(s, k, k + Len(sep) - 1) = sep}
            IN  IF ends = {} THEN <<From(s, i)>>
                ELSE <<SubSeq(s, i, Min(ends) - 1)>> \o at[Min(ends) + Len(sep)]
    IN  at[1]

\* strings.Join of words, with a blank.
JoinWords(ws) ==
    LET upto[n \in 0..Len(ws)] ==
            IF n = 0 THEN <<>> ELSE IF n = 1 THEN ws[1] ELSE upto[n - 1] \o <<Blank>> \o ws[n]
    IN  upto[Len(ws)]

\* regexp.Compile accepts it: no class is left open and no escape dangles.  (Groups
\* are not typed where this matters.)
Compiles(s) ==
    LET from[k \in 1..Len(s) + 2] ==
            IF k > Len(s) THEN TRUE
            ELSE IF s[k] = "\\" THEN k < Len(s) /\ from[k + 2]
            ELSE s[k] # "[" /\ from[k + 1]
    IN  from[1]

----------------------------------------------------------------------------
(* The tokens.                                                             *)

Operator(kind) == [kind |-> kind]
TermToken(val, how) == [kind |-> "term", val |-> val, how |-> how]

\* The end of a bare word.
WordEnd(q, i) == FirstFrom(q, i, LAMBDA c : c \in Delimiters)

\* The slash that ends the regexp opened at i, 0 if there is none; "\/" does not.
ClosingSlash(q, i) ==
    LET at[j \in 1..Len(q) + 2] ==
            IF j > Len(q) THEN 0
            ELSE IF q[j] = "\\" THEN at[j + 2]
            ELSE IF q[j] = "/" THEN j
            ELSE at[j + 1]
    IN  at[i + 1]

Keywords == {"and", "or", "not"}
WordToken(w) == IF Len(w) = 1 /\ w[1] \in Keywords THEN Operator(w[1]) ELSE TermToken(w, "bare")

\* A token and where the next begins; an empty pair of quotes or slashes is none.
Taken(tokens, next) == [tokens |-> tokens, next |-> next]
Delimited(q, i, end, how) ==
    Taken(IF end = i + 1 THEN <<>> ELSE <<TermToken(SubSeq(q, i + 1, end - 1), how)>>, end + 1)

\* Mistake: the symbol after the closing quote goes with it.
QuotedTooFar(q, i) ==
    LET end == FirstFrom(q, i + 1, LAMBDA c : c = q[i])
    IN  [Delimited(q, i, end, "quoted") EXCEPT !.next = Min({@ + 1, Len(q) + 1})]

\* A quote that is not closed extends to the end.
Quoted(q, i) == Delimited(q, i, FirstFrom(q, i + 1, LAMBDA c : c = q[i]), "quoted")

\* "&&" and "||" are their single forms.
Doubled(q, i, kind) ==
    Taken(<<Operator(kind)>>, IF i < Len(q) /\ q[i + 1] = q[i] THEN i + 2 ELSE i + 1)

\* Without a closing slash, the slash begins a bare word.
Slashed(q, i) ==
    LET end == ClosingSlash(q, i)  word == WordEnd(q, i)
    IN  IF end > 0 THEN Delimited(q, i, end, "regexp")
        ELSE Taken(<<TermToken(SubSeq(q, i, word - 1), "bare")>>, word)

BareWord(q, i) == Taken(<<WordToken(SubSeq(q, i, WordEnd(q, i) - 1))>>, WordEnd(q, i))

TakeToken(q, i) ==
    CASE q[i] = Blank -> Taken(<<>>, i + 1)
      [] q[i] \in {"(", ")"} -> Taken(<<Operator(q[i])>>, i + 1)
      [] q[i] = "!" -> Taken(<<Operator("not")>>, i + 1)
      [] q[i] = "&" -> Doubled(q, i, "and")
      [] q[i] = "|" -> Doubled(q, i, "or")
      [] q[i] = "/" -> Slashed(q, i)
      [] q[i] \in Quotes -> Quoted(q, i)
      [] OTHER -> BareWord(q, i)

TokenizeQuery(q) ==
    LET from[i \in 1..Len(q) + 2] ==
            IF i > Len(q) THEN <<>>
            ELSE LET t == TakeToken(q, i) IN t.tokens \o from[t.next]
    IN  from[1]

----------------------------------------------------------------------------
(* The tree.  A node is what it matches; a line is the set of the terms of *)
(* the query that are found in it.                                         *)

\* makeTerm: a term that is no regexp is a literal.
MakeTerm(t) ==
    [val |-> t.val, as |-> IF t.how = "quoted" \/ ~Compiles(t.val) THEN "literal" ELSE "regexp"]

TermsOf(toks) == {MakeTerm(toks[k]) : k \in {x \in DOMAIN toks : toks[x].kind = "term"}}
LinesOver(toks) == SUBSET TermsOf(toks)

Nil(pos) == [nil |-> TRUE, pos |-> pos]
Found(node, pos) == [nil |-> FALSE, node |-> node, pos |-> pos]

KindAt(toks, p) == IF p \in DOMAIN toks THEN toks[p].kind ELSE "end"

\* Mistake: an "or" does not end the conjunction.
EndsAndAtGroup(kind) == kind \in {"end", ")"}

EndsAnd(kind) == kind \in {"end", "or", ")"}

\* parseOr, parseAnd and parseNot from a position, and the loops of the first two
\* after a left operand, which give what the rest adds to it.  Each has the others
\* in parse.
ParseOr(parse, p) ==
    LET left == parse[<<"and", p>>]
    IN  IF left.nil THEN left
        ELSE LET rest == parse[<<"ors", left.pos>>]
             IN  Found(left.node \cup rest.node, rest.pos)

OrLoop(toks, parse, p) ==
    IF KindAt(toks, p) # "or" THEN Found({}, p)
    ELSE LET right == parse[<<"and", p + 1>>]
         IN  IF right.nil THEN Found({}, right.pos)
             ELSE LET rest == parse[<<"ors", right.pos>>]
                  IN  Found(right.node \cup rest.node, rest.pos)

ParseAnd(parse, p) ==
    LET left == parse[<<"not", p>>]
    IN  IF left.nil THEN left
        ELSE LET rest == parse[<<"ands", left.pos>>]
             IN  Found(left.node \cap rest.node, rest.pos)

\* Words side by side are joined as well.
AfterAnd(toks, p) == IF toks[p].kind = "and" THEN p + 1 ELSE p

AndLoop(toks, parse, p) ==
    IF EndsAnd(KindAt(toks, p)) THEN Found(LinesOver(toks), p)
    ELSE LET right == parse[<<"not", AfterAnd(toks, p)>>]
         IN  IF right.nil THEN Found(LinesOver(toks), right.pos)
             ELSE LET rest == parse[<<"ands", right.pos>>]
                  IN  Found(right.node \cap rest.node, rest.pos)

\* The operand of a "not", and a group, closed or not.
Negated(toks, operand) ==
    IF operand.nil THEN operand ELSE Found(LinesOver(toks) \ operand.node, operand.pos)
Grouped(toks, inner) ==
    LET end == IF KindAt(toks, inner.pos) = ")" THEN inner.pos + 1 ELSE inner.pos
    IN  IF inner.nil THEN Nil(end) ELSE Found(inner.node, end)
Holding(toks, p) == {l \in LinesOver(toks) : MakeTerm(toks[p]) \in l}

ParseNot(toks, parse, p) ==
    LET kind == KindAt(toks, p)
    IN  CASE kind = "end" -> Nil(p)
          [] kind = "term" -> Found(Holding(toks, p), p + 1)
          [] kind = "not" -> Negated(toks, parse[<<"not", p + 1>>])
          [] kind = "(" -> Grouped(toks, parse[<<"or", p + 1>>])
          [] OTHER -> parse[<<"not", p + 1>>]   \* a stray operator

ParseAt(toks, parse, f, p) ==
    CASE f = "or" -> ParseOr(parse, p)
      [] f = "ors" -> OrLoop(toks, parse, p)
      [] f = "and" -> ParseAnd(parse, p)
      [] f = "ands" -> AndLoop(toks, parse, p)
      [] OTHER -> ParseNot(toks, parse, p)

ParseCalls(toks) == {"or", "ors", "and", "ands", "not"} \X (1..Len(toks) + 1)
Parse(toks) ==
    LET parse[c \in ParseCalls(toks)] == ParseAt(toks, parse, c[1], c[2])
    IN  parse[<<"or", 1>>]

----------------------------------------------------------------------------
(* The clause behind the pipe.                                             *)

\* SplitFieldClause: the last single "|" that a "$" or a "-F" follows.
IsPipe(raw, i) ==
    LET rest == Trim(From(raw, i + 1))
    IN  /\ raw[i] = "|" /\ ~(i > 1 /\ raw[i - 1] = "|")
        /\ rest # <<>> /\ rest[1] \in DOMAIN FieldNumbers \cup {"$", "-F"}

SplitFieldClause(raw) ==
    LET pipes == {i \in DOMAIN raw : IsPipe(raw, i)}
    IN  IF pipes = {} THEN [query |-> raw, clause |-> <<>>]
        ELSE [query |-> Trim(Upto(raw, Max(pipes) - 1)), clause |-> Trim(From(raw, Max(pipes) + 1))]

\* splitKeyword.
JoinEach(parts) == [k \in DOMAIN parts |-> JoinWords(parts[k])]
SplitKeyword(s, kw) == JoinEach(Split(Words(s), <<kw>>))

\* parseFieldNumber: the number it starts with.
StartsWithNumber(s) == s # <<>> /\ s[1] \in DOMAIN Digits
IsNumber(val) == StartsWithNumber(Trim(val))
NumberOf(val) == Digits[Trim(val)[1]]

\* parseFieldCond: "$N", a comparison and a value.
BadCond == [bad |-> TRUE]
Condition(field, op, rhs) ==
    IF rhs # <<>> /\ (op \in {"~", "!~"} => Compiles(rhs))
    THEN [bad |-> FALSE, field |-> field, op |-> op, rhs |-> rhs] ELSE BadCond
ConditionOn(field, rest) ==
    IF rest # <<>> /\ rest[1] \in Comparisons
    THEN Condition(field, rest[1], TrimOf(Trim(Tail(rest)), Quotes)) ELSE BadCond
ParseFieldCond(s) ==
    IF s # <<>> /\ s[1] \in DOMAIN FieldNumbers
    THEN ConditionOn(FieldNumbers[s[1]], Trim(Tail(s))) ELSE BadCond

\* sepFlagRe and parseSeparator: the argument of -F, quoted or up to the next blank,
\* and what follows it.  (A separator is taken literally; the replaced escapes are
\* not typed.)
ClosingQuote(s) == IF s[1] \in Quotes THEN FirstFrom(s, 2, LAMBDA c : c = s[1]) ELSE Len(s) + 1
ArgumentEnd(s, close) == IF close <= Len(s) THEN close ELSE FirstFrom(s, 1, LAMBDA c : c = Blank) - 1
Unquoted(arg) ==
    IF Len(arg) >= 2 /\ arg[1] \in Quotes /\ arg[Len(arg)] = arg[1]
    THEN SubSeq(arg, 2, Len(arg) - 1) ELSE arg
SeparatorUpto(s, end) == [sep |-> Unquoted(Upto(s, end)), rest |-> Trim(From(s, end + 1))]
SeparatorOf(s) == SeparatorUpto(s, ArgumentEnd(s, ClosingQuote(s)))

NoFilter == [bad |-> FALSE, ors |-> <<>>, sep |-> <<>>]
BadFilter == [NoFilter EXCEPT !.bad = TRUE]

\* The groups of a clause: each OR part is the conditions of its AND parts.
Conditions(parts) == [j \in DOMAIN parts |-> ParseFieldCond(parts[j])]
GroupsOf(parts) == [k \in DOMAIN parts |-> Conditions(SplitKeyword(parts[k], "and"))]
Groups(clause) == GroupsOf(SplitKeyword(clause, "or"))

Broken(group) == \E j \in DOMAIN group : group[j].bad

\* Mistake: the groups before the one that does not parse are kept.
FilterKeepsParsed(groups, sep) ==
    LET broken == {k \in DOMAIN groups : Broken(groups[k])}
    IN  IF broken = {} THEN [bad |-> FALSE, ors |-> groups, sep |-> sep]
        ELSE [bad |-> TRUE, ors |-> Upto(groups, Min(broken) - 1), sep |-> sep]

\* A condition that does not parse drops them all.
FilterOf(groups, sep) ==
    IF \E k \in DOMAIN groups : Broken(groups[k]) THEN [BadFilter EXCEPT !.sep = sep]
    ELSE [bad |-> FALSE, ors |-> groups, sep |-> sep]

SeparatedFilter(s) ==
    IF s.sep = <<>> \/ s.rest = <<>> THEN BadFilter ELSE FilterOf(Groups(s.rest), s.sep)

ParseFieldFilter(clause) ==
    IF clause = <<>> THEN NoFilter
    ELSE IF clause[1] = "-F" /\ Len(clause) > 1 THEN SeparatedFilter(SeparatorOf(Trim(Tail(clause))))
    ELSE FilterOf(Groups(clause), <<>>)

Active(f) == f.ors # <<>>

----------------------------------------------------------------------------
(* The lines that survive.  A word of a line is what messageStart sees in  *)
(* it, and its text.                                                       *)

\* isBareWord holds for these.
BareWords == {"bare", "mon", "label"}

\* messageStart, as the number of words it skips: a date, a time, and behind them a
\* severity and a subsystem.
WordIs(line, k, classes) == k \in DOMAIN line /\ line[k].is \in classes
DateEnd(line) ==
    IF WordIs(line, 1, {"date"}) THEN 1
    ELSE IF WordIs(line, 1, {"mon"}) /\ WordIs(line, 2, {"day"}) THEN 2 ELSE 0
TimeEnd(line, d) == IF WordIs(line, d + 1, {"time"}) THEN d + 1 ELSE d
LabelsEnd(line, t) ==
    IF t = 0 \/ ~WordIs(line, t + 1, {"label"}) THEN t
    ELSE IF WordIs(line, t + 2, BareWords) THEN t + 2 ELSE t + 1
MessageStart(line) == LabelsEnd(line, TimeEnd(line, DateEnd(line)))

\* FieldFilter.Fields: messageFields, or messageFieldsSep with a separator.
TextsOf(line) == [k \in DOMAIN line |-> line[k].text]
TrimEach(parts) == [k \in DOMAIN parts |-> Trim(parts[k])]
FieldsBy(sep, ws) ==
    IF sep \in {<<>>, <<Blank>>} \/ ws = <<>> THEN ws ELSE TrimEach(Cut(JoinWords(ws), sep))
FieldsOf(f, line) == FieldsBy(f.sep, TextsOf(From(line, MessageStart(line) + 1)))

\* The order of texts, of which only letters are compared.
TextOrder == "2" :> 2 @@ "3" :> 3 @@ "99" :> 4 @@ Blank :> 0 @@ "," :> 1 @@ "a" :> 6 @@ "b" :> 7
Ranks(s) == [k \in DOMAIN s |-> IF s[k] \in DOMAIN TextOrder THEN TextOrder[s[k]] ELSE 5]
Less(u, v) ==
    \E k \in DOMAIN v :
        /\ k <= Len(u) + 1 /\ Upto(u, k - 1) = Upto(v, k - 1)
        /\ k > Len(u) \/ Ranks(u)[k] < Ranks(v)[k]

Occurs(s, t) == \E k \in 0..Len(t) - Len(s) : SubSeq(t, k + 1, k + Len(s)) = s

Compare(op, eq, less) ==
    CASE op = "==" -> eq [] op = "!=" -> ~eq
      [] op = "<" -> less [] op = "<=" -> less \/ eq
      [] op = ">" -> ~less /\ ~eq [] op = ">=" -> ~less

\* fieldCond.eval: a field that is not there, or is no number when one is asked
\* for, passes no comparison.
CompareNumbers(op, m, n) == Compare(op, m = n, m < n)
Passes(c, val) ==
    CASE c.op = "~" -> Occurs(c.rhs, val)
      [] c.op = "!~" -> ~Occurs(c.rhs, val)
      [] OTHER ->
           IF IsNumber(c.rhs) THEN IsNumber(val) /\ CompareNumbers(c.op, NumberOf(val), NumberOf(c.rhs))
           ELSE Compare(c.op, val = c.rhs, Less(val, c.rhs))

Eval(c, line, fields) ==
    IF c.field = 0 THEN Passes(c, JoinWords(TextsOf(line)))
    ELSE c.field <= Len(fields) /\ Passes(c, fields[c.field])

Keep(f, line) ==
    Active(f) =>
        \E k \in DOMAIN f.ors : \A j \in DOMAIN f.ors[k] : Eval(f.ors[k][j], line, FieldsOf(f, line))

----------------------------------------------------------------------------
(* The query.                                                              *)

\* contextFlagRe from position k: where a flag ends, k if there is none.
FlagEnd(raw, k) ==
    LET flag == IF raw[k] = Blank THEN k + 1 ELSE k
        n == FirstFrom(raw, flag + 1, LAMBDA s : s # Blank)
    IN  IF /\ flag \in DOMAIN raw /\ raw[flag] \in {"-A", "-B", "-C"}
           /\ flag > k \/ k = 1
           /\ n <= Len(raw) /\ raw[n] \in DOMAIN Digits
        THEN n ELSE k

\* The text with each flag replaced by a blank, and the flags.
WithFlag(raw, k, end, rest) ==
    IF end = k THEN [body |-> <<raw[k]>> \o rest.body, flags |-> rest.flags]
    ELSE [body |-> <<Blank>> \o rest.body,
          flags |-> <<[flag |-> IF raw[k] = Blank THEN raw[k + 1] ELSE raw[k],
                       n |-> Digits[raw[end]]]>> \o rest.flags]
ContextFlags(raw) ==
    LET from[k \in 1..Len(raw) + 1] ==
            IF k > Len(raw) THEN [body |-> <<>>, flags |-> <<>>]
            ELSE LET end == FlagEnd(raw, k) IN WithFlag(raw, k, end, from[end + 1])
    IN  from[1]

\* The last flag that sets it decides, up to maxContextLines.
ContextOf(flags, names) ==
    LET set == {k \in DOMAIN flags : flags[k].flag \in names}
    IN  IF set = {} THEN 0
        ELSE Min({flags[Max(set)].n, MaxContextLines})

\* A query without a tree is searched for literally, as one term.
TreeOf(body, toks, root) ==
    LET whole == [val |-> body, as |-> "literal"]
    IN  [empty |-> FALSE,
         toks |-> toks,
         terms |-> IF root.nil THEN {whole} ELSE TermsOf(toks),
         root |-> IF root.nil THEN {{whole}} ELSE root.node]
TreeOver(body, toks) == TreeOf(body, toks, Parse(toks))
EmptyQuery == [empty |-> TRUE, toks |-> <<>>, terms |-> {}, root |-> {}]
ParseBody(body) == IF body = <<>> THEN EmptyQuery ELSE TreeOver(body, TokenizeQuery(body))

ParseFlagged(flagged) ==
    [tree |-> ParseBody(Trim(flagged.body)),
     before |-> ContextOf(flagged.flags, {"-B", "-C"}),
     after |-> ContextOf(flagged.flags, {"-A", "-C"})]

ParseSplit(split) ==
    [search |-> ParseFlagged(ContextFlags(split.query)), filter |-> ParseFieldFilter(split.clause)]

ParseSearchQuery(raw) == ParseSplit(SplitFieldClause(raw))

----------------------------------------------------------------------------
(* Properties.                                                             *)

\* The lines a token list stands for by the grammar of the language alone: the
\* meanings of toks[i..j] as a disjunction, a conjunction and an operand, none
\* where it is not one.
Unions(X, Y) == {x \cup y : x \in X, y \in Y}
Meets(X, Y) == {x \cap y : x \in X, y \in Y}

ReadOr(toks, reads, i, j) ==
    LET joints == {k \in i..j : toks[k].kind = "or"}
    IN  reads[<<"and", i, j>>] \cup
        UNION {Unions(reads[<<"or", i, k - 1>>], reads[<<"and", k + 1, j>>]) : k \in joints}

ReadAnd(toks, reads, i, j) ==
    LET joints == {k \in i+1..j : toks[k].kind \in {"and", "not", "(", "term"}}
    IN  reads[<<"not", i, j>>] \cup
        UNION {Meets(reads[<<"and", i, k - 1>>], reads[<<"not", AfterAnd(toks, k), j>>]) : k \in joints}

ReadNot(toks, reads, i, j) ==
    CASE toks[i].kind = "not" -> {LinesOver(toks) \ x : x \in reads[<<"not", i + 1, j>>]}
      [] toks[i].kind = "term" /\ i = j -> {Holding(toks, i)}
      [] toks[i].kind = "(" /\ toks[j].kind = ")" -> reads[<<"or", i + 1, j - 1>>]
      [] OTHER -> {}

ReadAs(toks, reads, f, i, j) ==
    IF i > j THEN {}
    ELSE CASE f = "or" -> ReadOr(toks, reads, i, j)
           [] f = "and" -> ReadAnd(toks, reads, i, j)
           [] OTHER -> ReadNot(toks, reads, i, j)

Spans(toks) == {"or", "and", "not"} \X (1..Len(toks) + 1) \X (0..Len(toks))
Readings(toks) ==
    LET reads[r \in Spans(toks)] == ReadAs(toks, reads, r[1], r[2], r[3])
    IN  reads[<<"or", 1, Len(toks)>>]

MatchesReadings(tree) == \A reading \in Readings(tree.toks) : tree.root = reading

\* A query that is well formed matches what the grammar says: NOT binds closest,
\* words side by side and AND come next, OR last, and groups override that
\* (parseOr, parseAnd, parseNot).
ParsedAsWritten == MatchesReadings(ParseSearchQuery(typed).search.tree)

Letters(s) == Pick(s, {k \in DOMAIN s : s[k] \in {"a", "b"}})
Values(toks) == [k \in DOMAIN toks |-> IF toks[k].kind = "term" THEN toks[k].val ELSE <<>>]

\* Half-typed quotes, slashes, groups and flags lose no word: what was typed is in
\* the terms or in the clause, in its order (tokenizeQuery, SplitFieldClause).
NothingTypedIsLost ==
    Letters(typed) =
        Letters(FlattenSeq(Values(ParseSearchQuery(typed).search.tree.toks)))
            \o Letters(SplitFieldClause(typed).clause)

KeptBy(f) == {line \in LogLines : Keep(f, line)}

\* The words of a clause behind its separator, and the last words it is joined at.
ConditionWords(clause) ==
    Words(IF clause # <<>> /\ clause[1] = "-F" /\ Len(clause) > 1
          THEN SeparatorOf(Trim(Tail(clause))).rest ELSE clause)
At(ws, kw) == {k \in DOMAIN ws : ws[k] = <<kw>>}
Joints(ws) == IF At(ws, "or") # {} THEN At(ws, "or") ELSE At(ws, "and")

KeptJoined(l, r, kw) ==
    IF l.bad \/ r.bad THEN LogLines
    ELSE IF kw = "or" THEN KeptBy(l) \cup KeptBy(r) ELSE KeptBy(l) \cap KeptBy(r)
Part(ws, sep) == FilterOf(Groups(JoinWords(ws)), sep)

ShowsWhatPartsShow(f, ws) ==
    IF f.bad THEN KeptBy(f) = LogLines
    ELSE \A k \in Joints(ws) :
            KeptBy(f) = KeptJoined(Part(Upto(ws, k - 1), f.sep), Part(From(ws, k + 1), f.sep), ws[k][1])

\* A clause keeps what its OR parts keep, and a part what all its AND parts keep;
\* "a half-typed filter shows everything rather than an arbitrary subset"
\* (ParseFieldFilter), so a part that does not parse takes the others with it.
HalfTypedShowsAll ==
    ShowsWhatPartsShow(ParseSearchQuery(typed).filter, ConditionWords(SplitFieldClause(typed).clause))

=============================================================================
