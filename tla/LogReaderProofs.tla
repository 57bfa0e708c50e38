-------------------------- MODULE LogReaderProofs --------------------------
(***************************************************************************)
(* Theorems about three readers of logs, for every log.  LogView: the      *)
(* years the readers give and the two filters agree, for every bounds and  *)
(* every length of the head.  Portals: every portal is reported once, with *)
(* what its own logins said and the gateways of its own rounds.  Gateways: *)
(* of every portal the newest round is reported, whole and unmixed.        *)
(***************************************************************************)
EXTENDS LogView, Portals, Gateways, SelectionProofs

Times == Time \cup {NoTime}
Labels == STRING \cup {""}
Scan == [ts : Times, ms : Nat, label : Labels, sub : Labels, inResource : BOOLEAN,
         yearHint : Nat]
Made == [ts : Times, ms : Nat, sep : {"/", "-"}, label : Labels \X Labels, line : Nat]

ViewTypes ==
    /\ log \in Seq(LogLine) /\ read \in 0..Len(log)
    /\ from \in Times /\ to \in Times
    /\ scan \in Scan /\ entries \in Seq(Made)
    /\ last \in Times /\ sent \in SUBSET (1..read)

\* The entries written on a line, and the years that a log states.
On(l) == {l.first} \cup Range(l.more)
StatedBy(e) == {e.year, e.says} \ {0}
Stated == {y \in Nat \ {0} : \E j \in DOMAIN log : \E e \in On(log[j]) : y \in StatedBy(e)}

\* The year in force is stated, and so is the one that dates without a year borrow.
YearInv ==
    /\ scan.yearHint \in Stated \cup {0}
    /\ scan.ts # NoTime => scan.ts.year \in Stated
    /\ \A k \in 1..Len(entries) : entries[k].ts # NoTime => entries[k].ts.year \in Stated

\* Every date of the first n lines leads its line.
DatesLead(n) ==
    \A k \in 1..n :
        /\ log[k].first.shape # "loose" /\ ~log[k].first.month
        /\ log[k].first.iso => log[k].first.shape \in {"block", "lead"}

InBounds(ts) == ts # NoTime /\ Within(ts)

\* The reader of monitor logs makes one entry of each line, and while dates lead their
\* lines the two filters have the same time in force and have kept the same lines.
SameLines ==
    ~LooksLikeGPLog =>
        /\ Len(entries) = read
        /\ \A k \in 1..read : entries[k].line = k
        /\ DatesLead(read) => last = scan.ts
        /\ DatesLead(read) /\ from # NoTime =>
              \A k \in 1..read : k \in sent <=> InBounds(entries[k].ts)

----------------------------------------------------------------------------
(* Lines and entries.                                                      *)

LEMMA EntryIs ==
    ASSUME NEW e \in Entry
    PROVE  /\ e.shape \in Shapes /\ e.year \in Nat /\ e.t \in Nat /\ e.ms \in Nat
           /\ e.valid \in BOOLEAN /\ e.says \in Nat /\ e.iso \in BOOLEAN
           /\ e.month \in BOOLEAN /\ e.name \in STRING
           /\ e.shape \in {"block", "lead"} => e.iso
           /\ e.shape \in {"block", "lead", "gp"} /\ e.valid => e.year > 0
<1>1. e \in Recognised
  BY DEF Entry
<1> QED BY <1>1 DEF Entry, Recognised

LEMMA LineIs ==
    ASSUME NEW l \in LogLine
    PROVE  /\ l.first \in Entry /\ l.more \in Seq(Entry)
           /\ On(l) \in SUBSET Entry /\ l.first \in On(l)
           /\ <<l.first>> \o l.more \in Seq(Entry)
           /\ \A k \in 1..Len(<<l.first>> \o l.more) : (<<l.first>> \o l.more)[k] \in On(l)
<1>1. l.first \in Entry /\ l.more \in Seq(Entry)
  BY DEF LogLine
<1>2. \A k \in 1..Len(l.more) : l.more[k] \in Range(l.more) /\ l.more[k] \in Entry
  <2>1. DOMAIN l.more = 1..Len(l.more)
    BY <1>1
  <2> QED BY <1>1, <2>1 DEF Range
<1>3. On(l) \in SUBSET Entry /\ l.first \in On(l)
  BY <1>1, <1>2 DEF On, Range
<1> DEFINE x == l.first
           s == l.more
           es == <<x>> \o s
<1>4. es \in Seq(Entry) /\ Len(es) = Len(s) + 1 /\ es[1] = x
      /\ \A k \in 2..Len(es) : es[k] = s[k-1]
  <2> HIDE DEF x, s
  <2>1. x \in Entry /\ s \in Seq(Entry)
    BY <1>1 DEF x, s
  <2> QED BY <2>1
<1>5. ASSUME NEW k \in 1..Len(es)
      PROVE  es[k] \in On(l)
  <2>1. CASE k = 1
    BY <1>3, <1>4, <2>1
  <2>2. CASE k # 1
    <3>0. Len(s) \in Nat
      BY <1>1
    <3>1. k \in 2..Len(es) /\ k - 1 \in 1..Len(s)
      <4> HIDE DEF es, s
      <4> QED BY <1>4, <2>2, <3>0
    <3>2. es[k] = s[k-1] /\ s[k-1] \in Range(l.more)
      BY <1>2, <1>4, <3>1
    <3> QED BY <3>2 DEF On
  <2> QED BY <2>1, <2>2
<1> QED BY <1>1, <1>3, <1>4, <1>5

\* What holds of a scan and keeps holding with each entry of a line holds after it.
LEMMA GPLineKeeps ==
    ASSUME NEW A, NEW l \in LogLine, [scan |-> scan, entries |-> entries] \in A,
           \A st \in A : \A e \in On(l) : Add(st, e) \in A,
           GPLine(l)
    PROVE  \E st \in A : scan' = st.scan /\ entries' = st.entries
<1> DEFINE es == <<l.first>> \o l.more
           n == Len(es)
           a == [scan |-> scan, entries |-> entries]
           R(g) == g = [k \in 0..n |-> IF k = 0 THEN a ELSE Add(g[k-1], es[k])]
           st == CHOOSE g : R(g)
           step == [k \in 1..n |-> [x \in A |-> Add(x, es[k])]]
<1>1. n \in Nat /\ \A k \in 1..n : es[k] \in On(l)
  BY LineIs
<1>2. scan' = st[n].scan /\ entries' = st[n].entries
  BY DEF GPLine
<1>3. a \in A /\ \A k \in 1..n : \A x \in A : Add(x, es[k]) \in A
  BY <1>1
<1> HIDE DEF es, n, a
<1>4. step \in [1..n -> [A -> A]]
  BY <1>3
<1>5. \A k \in 1..n : \A x \in A : step[k][x] = Add(x, es[k])
  OBVIOUS
<1> HIDE DEF step
<1>6. PICK g : Iterates(A, a, n, step, g)
  BY <1>1, <1>3, <1>4, IterationExists
<1>7. g \in [0..n -> A] /\ g[0] = a /\ \A k \in 1..n : g[k] = step[k][g[k-1]]
  BY <1>6 DEF Iterates
<1>8. \A k \in 1..n : g[k] = Add(g[k-1], es[k])
  <2>1. \A k \in 1..n : g[k-1] \in A
    <3>1. \A k \in 1..n : k - 1 \in 0..n
      BY <1>1
    <3> QED BY <1>7, <3>1
  <2> QED BY <1>5, <1>7, <2>1
<1>9. R(g)
  <2>1. \A k \in 0..n : g[k] = IF k = 0 THEN a ELSE Add(g[k-1], es[k])
    <3>1. \A k \in 0..n : k = 0 \/ k \in 1..n
      BY <1>1
    <3> QED BY <1>7, <1>8, <3>1
  <2>2. g = [k \in 0..n |-> g[k]]
    BY <1>7
  <2> QED BY <2>1, <2>2
<1>10. R(st)
  <2> HIDE DEF R
  <2> QED BY <1>9
<1> HIDE DEF st
<1>11. \A k \in 0..n : st[k] = IF k = 0 THEN a ELSE Add(st[k-1], es[k])
  BY <1>10
<1>12. st[0] \in A
  BY <1>1, <1>3, <1>11
<1> DEFINE S == {k \in 0..n : st[k] \in A}
<1>13. 0 \in S /\ \A k \in 1..n : k - 1 \in S => k \in S
  <2>1. 0 \in S
    BY <1>1, <1>12
  <2>2. ASSUME NEW k \in 1..n, k - 1 \in S
        PROVE  k \in S
    <3>1. st[k] = Add(st[k-1], es[k]) /\ k \in 0..n
      BY <1>1, <1>11
    <3> QED BY <1>3, <2>2, <3>1
  <2> QED BY <2>1, <2>2
<1> HIDE DEF S
<1>14. \A k \in 0..n : k \in S
  BY <1>1, <1>13, AllUpto
<1>15. st[n] \in A
  BY <1>1, <1>14 DEF S
<1> QED BY <1>2, <1>15

----------------------------------------------------------------------------
(* The times of lines.                                                     *)

LEMMA TimeOfIs ==
    ASSUME NEW e \in Entry
    PROVE  TimeOf(e) \in Time /\ TimeOf(e) # NoTime /\ TimeOf(e).year = e.year
<1>1. e.year \in Nat /\ e.t \in Nat
  BY EntryIs
<1>2. TimeOf(e) \in Time /\ TimeOf(e).year = e.year
  BY <1>1 DEF TimeOf, Time
<1> QED BY <1>2, LogViewAssumption

LEMMA LooseIs ==
    ASSUME NEW e \in Entry, NEW h \in Nat
    PROVE  /\ LooseTs(e, h) \in Times
           /\ e.shape # "loose" => LooseTs(e, h) = NoTime
           /\ LooseTs(e, h) # NoTime => LooseTs(e, h).year \in {e.year, h} \ {0}
<1>1. e.year \in Nat /\ e.t \in Nat
  BY EntryIs
<1>2. CASE e.shape # "loose" \/ ~e.valid \/ (e.year = 0 /\ h = 0)
  BY <1>2 DEF LooseTs, Times
<1>3. CASE ~(e.shape # "loose" \/ ~e.valid \/ (e.year = 0 /\ h = 0))
  <2> DEFINE y == IF e.year > 0 THEN e.year ELSE h
             x == [year |-> y, t |-> e.t]
  <2>1. LooseTs(e, h) = x
    BY <1>3 DEF LooseTs
  <2>2. y \in Nat /\ y \in {e.year, h} \ {0}
    BY <1>1, <1>3
  <2> HIDE DEF y
  <2>3. x \in Time /\ x.year = y
    BY <1>1, <2>2 DEF Time
  <2> QED BY <1>3, <2>1, <2>2, <2>3 DEF Times
<1> QED BY <1>2, <1>3

LEMMA StampIs ==
    ASSUME ViewTypes, NEW e \in Entry
    PROVE  /\ Stamp(e) \in Times
           /\ Stamp(e) # NoTime => Stamp(e).year \in {e.year, scan.yearHint} \ {0}
           /\ e.shape \in {"block", "lead"} /\ e.valid => Stamp(e) = TimeOf(e)
           /\ e.shape # "loose" /\ ~(e.shape \in {"block", "lead"} /\ e.valid) => Stamp(e) = NoTime
<1>1. scan.yearHint \in Nat
  BY DEF ViewTypes, Scan
<1>2. CASE e.shape \in {"block", "lead"} /\ e.valid
  <2>1. Stamp(e) = TimeOf(e) /\ e.year > 0 /\ e.year \in Nat
    BY <1>2, EntryIs DEF Stamp
  <2> QED BY <1>2, <2>1, TimeOfIs DEF Times
<1>3. CASE ~(e.shape \in {"block", "lead"} /\ e.valid)
  <2>1. Stamp(e) = LooseTs(e, scan.yearHint)
    BY <1>3 DEF Stamp
  <2> QED BY <1>1, <1>3, <2>1, LooseIs
<1> QED BY <1>2, <1>3

LEMMA NextHintIs ==
    ASSUME ViewTypes, NEW e \in Entry
    PROVE  /\ NextHint(e) \in Nat
           /\ NextHint(e) \in {e.year, e.says, scan.yearHint}
<1>1. scan.yearHint \in Nat /\ e.says \in Nat /\ e.year \in Nat
  BY EntryIs DEF ViewTypes, Scan
<1> DEFINE h == scan.yearHint
           x == LooseTs(e, h)
<1>2. NextHint(e) = IF x = NoTime THEN h
                    ELSE IF e.says > 0 THEN e.says ELSE IF h = 0 THEN x.year ELSE h
  BY DEF NextHint
<1>3. x # NoTime => x.year \in {e.year, h}
  BY <1>1, LooseIs
<1> HIDE DEF h, x
<1>4. h = scan.yearHint
  BY DEF h
<1> QED BY <1>1, <1>2, <1>3, <1>4

LEMMA LabelledIs ==
    ASSUME ViewTypes, NEW e \in Entry
    PROVE  /\ Labelled(e) \in Scan
           /\ Labelled(e).ts = scan.ts /\ Labelled(e).yearHint = scan.yearHint
<1>1. scan \in Scan /\ e.name \in STRING
  BY EntryIs DEF ViewTypes
<1>2. CASE e.shape \in {"block", "section", "resource"}
  <2> DEFINE b == (e.shape = "resource")
  <2>1. Labelled(e) = [scan EXCEPT !.label = e.name, !.sub = "", !.inResource = b]
    BY <1>2 DEF Labelled
  <2>2. b \in BOOLEAN
    OBVIOUS
  <2> HIDE DEF b
  <2> QED BY <1>1, <2>1, <2>2 DEF Scan, Labels
<1>3. CASE e.shape = "sub" /\ scan.inResource
  <2>1. Labelled(e) = [scan EXCEPT !.sub = e.name]
    BY <1>3 DEF Labelled
  <2> QED BY <1>1, <2>1 DEF Scan, Labels
<1>4. CASE ~(e.shape \in {"block", "section", "resource"}) /\ ~(e.shape = "sub" /\ scan.inResource)
  <2>1. Labelled(e) = scan
    BY <1>4 DEF Labelled
  <2> QED BY <1>1, <2>1
<1> QED BY <1>2, <1>3, <1>4

\* What the reader of monitor logs makes of a line.
Monitored(e, m) ==
    /\ scan' \in Scan
    /\ scan'.ts = IF Stamp(e) = NoTime THEN scan.ts ELSE Stamp(e)
    /\ scan'.yearHint = NextHint(e)
    /\ m \in Made /\ m.ts = scan'.ts /\ m.line = read + 1
    /\ entries' = Append(entries, m)

LEMMA MonitorLineMakes ==
    ASSUME ViewTypes, NEW e \in Entry, MonitorLine(e)
    PROVE  \E m : Monitored(e, m)
<1> DEFINE x == IF Stamp(e) = NoTime THEN scan.ts ELSE Stamp(e)
           y == NextHint(e)
           l == Labelled(e)
           m == LogEntry(scan', "/", read + 1)
<1>1. l \in Scan /\ l.ts = scan.ts
  BY LabelledIs
<1>2. x \in Times /\ y \in Nat
  BY StampIs, NextHintIs DEF ViewTypes, Scan
<1>3. scan' = [l EXCEPT !.ts = x, !.yearHint = y]
  BY <1>1 DEF MonitorLine
<1>4. entries' = Append(entries, m)
  BY <1>3 DEF MonitorLine
<1> HIDE DEF x, y, l
<1>5. scan' \in Scan /\ scan'.ts = x /\ scan'.yearHint = y
  BY <1>1, <1>2, <1>3 DEF Scan
<1>6. m \in Made /\ m.ts = x /\ m.line = read + 1
  <2>1. read + 1 \in Nat
    BY DEF ViewTypes
  <2> QED BY <1>2, <1>5, <2>1 DEF LogEntry, Made, Scan
<1>7. Monitored(e, m)
  <2> HIDE DEF m
  <2> QED BY <1>4, <1>5, <1>6 DEF Monitored, x, y
<1> QED BY <1>7

----------------------------------------------------------------------------
(* The reader of GlobalProtect logs.                                       *)

\* What is made so far, of stated years.
Reading ==
    {st \in [scan : Scan, entries : Seq(Made)] :
        /\ st.scan.yearHint = scan.yearHint
        /\ st.scan.ts # NoTime => st.scan.ts.year \in Stated
        /\ \A k \in 1..Len(st.entries) :
              st.entries[k].ts # NoTime => st.entries[k].ts.year \in Stated}

LEMMA AddKeeps ==
    ASSUME ViewTypes, NEW st \in Reading, NEW e \in Entry, StatedBy(e) \in SUBSET Stated
    PROVE  Add(st, e) \in Reading
<1> DEFINE s == IF e.shape # "gp" THEN st.scan
                ELSE IF e.valid THEN [st.scan EXCEPT !.ts = TimeOf(e), !.ms = e.ms, !.label = e.name]
                ELSE [st.scan EXCEPT !.label = e.name]
           m == LogEntry(s, "-", read + 1)
           es == IF e.shape = "blank" THEN st.entries ELSE Append(st.entries, m)
<1>1. /\ st.scan \in Scan /\ st.entries \in Seq(Made) /\ st.scan.yearHint = scan.yearHint
      /\ st.scan.ts # NoTime => st.scan.ts.year \in Stated
      /\ \A k \in 1..Len(st.entries) :
            st.entries[k].ts # NoTime => st.entries[k].ts.year \in Stated
  BY DEF Reading
<1>2. s \in Scan /\ s.yearHint = scan.yearHint /\ (s.ts # NoTime => s.ts.year \in Stated)
  <2>1. CASE e.shape # "gp"
    BY <1>1, <2>1
  <2>2. CASE e.shape = "gp" /\ e.valid
    <3> DEFINE x == TimeOf(e)
    <3>1. x \in Times /\ x.year = e.year
      BY TimeOfIs DEF Times
    <3>2. e.year \in Stated
      <4>1. e.year > 0 /\ e.year \in Nat
        BY <2>2, EntryIs
      <4> QED BY <4>1 DEF StatedBy
    <3>3. s = [st.scan EXCEPT !.ts = x, !.ms = e.ms, !.label = e.name]
      BY <2>2
    <3>4. e.ms \in Nat /\ e.name \in STRING
      BY EntryIs
    <3> HIDE DEF x, s
    <3> QED BY <1>1, <3>1, <3>2, <3>3, <3>4 DEF Scan, Labels
  <2>3. CASE e.shape = "gp" /\ ~e.valid
    <3>1. s = [st.scan EXCEPT !.label = e.name]
      BY <2>3
    <3>2. e.name \in STRING
      BY EntryIs
    <3> HIDE DEF s
    <3> QED BY <1>1, <3>1, <3>2 DEF Scan, Labels
  <2> QED BY <2>1, <2>2, <2>3
<1>3. Add(st, e) = [scan |-> s, entries |-> es]
  BY DEF Add
<1> HIDE DEF s
<1>4. m \in Made /\ m.ts = s.ts
  <2>1. read + 1 \in Nat
    BY DEF ViewTypes
  <2> QED BY <1>2, <2>1 DEF LogEntry, Made, Scan
<1> HIDE DEF m
<1>5. /\ es \in Seq(Made)
      /\ \A k \in 1..Len(es) : es[k].ts # NoTime => es[k].ts.year \in Stated
  <2>1. CASE e.shape = "blank"
    BY <1>1, <2>1
  <2>2. CASE e.shape # "blank"
    <3>1. es = Append(st.entries, m)
      BY <2>2
    <3>2. /\ es \in Seq(Made) /\ Len(es) = Len(st.entries) + 1 /\ es[Len(es)] = m
          /\ \A k \in 1..Len(st.entries) : es[k] = st.entries[k]
      <4> HIDE DEF es
      <4> QED BY <1>1, <1>4, <3>1, AppendProperties
    <3> HIDE DEF es
    <3>3. Len(st.entries) \in Nat /\ \A k \in 1..Len(es) : k = Len(es) \/ k \in 1..Len(st.entries)
      BY <1>1, <3>2
    <3> QED BY <1>1, <1>2, <1>4, <3>2, <3>3
  <2> QED BY <2>1, <2>2
<1> HIDE DEF es
<1> QED BY <1>2, <1>3, <1>5 DEF Reading

----------------------------------------------------------------------------
(* The invariants.                                                         *)

LEMMA StatedOn ==
    ASSUME NEW j \in DOMAIN log, NEW e \in On(log[j]), e \in Entry
    PROVE  StatedBy(e) \in SUBSET Stated
<1>1. \A y \in StatedBy(e) : y \in Nat \ {0}
  BY EntryIs DEF StatedBy
<1> QED BY <1>1 DEF Stated

\* The line that is read.
Line == log[read + 1]

LEMMA LineRead ==
    ASSUME ViewTypes, read < Len(log)
    PROVE  /\ Line \in LogLine /\ Line.first \in Entry
           /\ \A e \in On(Line) : e \in Entry /\ StatedBy(e) \in SUBSET Stated
           /\ read \in Nat /\ read + 1 \in 0..Len(log)
<1>1. log \in Seq(LogLine) /\ read \in Nat /\ read + 1 \in 1..Len(log) /\ DOMAIN log = 1..Len(log)
  BY DEF ViewTypes
<1>2. Line \in LogLine /\ read + 1 \in DOMAIN log
  BY <1>1 DEF Line
<1>3. Line.first \in Entry /\ \A e \in On(Line) : e \in Entry
  BY <1>2, LineIs
<1>4. \A e \in On(Line) : StatedBy(e) \in SUBSET Stated
  <2> TAKE e \in On(Line)
  <2>1. e \in On(log[read + 1]) /\ e \in Entry
    BY <1>3 DEF Line
  <2> QED BY <1>2, <2>1, StatedOn
<1> QED BY <1>1, <1>2, <1>3, <1>4

LEMMA HintIsStated ==
    ASSUME log \in Seq(LogLine)
    PROVE  LooseYearHint \in Nat /\ LooseYearHint \in Stated \cup {0}
<1> DEFINE T == {k \in HeadLines : HeadYear(log[k].first) > 0}
<1>1. LooseYearHint = IF T = {} THEN 0
                      ELSE HeadYear(log[CHOOSE k \in T : \A j \in T : k <= j].first)
  BY DEF LooseYearHint
<1>2. T \in SUBSET Nat /\ \A k \in T : k \in DOMAIN log /\ HeadYear(log[k].first) > 0
  BY DEF HeadLines
<1> HIDE DEF T
<1>3. CASE T = {}
  BY <1>1, <1>3
<1>4. CASE T # {}
  <2>1. PICK k \in T : LooseYearHint = HeadYear(log[k].first)
    <3>1. \E k \in T : \A j \in T : k <= j
      BY <1>2, <1>4, LeastNumber
    <3> QED BY <1>1, <1>4, <3>1
  <2> DEFINE e == log[k].first
  <2>2. k \in DOMAIN log /\ e \in On(log[k]) /\ e \in Entry
    <3>1. k \in DOMAIN log
      BY <1>2
    <3>2. log[k] \in LogLine
      BY <3>1
    <3> QED BY <3>1, <3>2, LineIs
  <2>3. HeadYear(e) > 0 /\ HeadYear(e) \in {e.year, e.says}
    BY <1>2 DEF HeadYear
  <2>4. HeadYear(e) \in StatedBy(e) /\ HeadYear(e) \in Nat
    BY <2>2, <2>3, EntryIs DEF StatedBy
  <2> HIDE DEF e
  <2>5. HeadYear(e) \in Stated
    BY <2>2, <2>4, StatedOn
  <2> QED BY <2>1, <2>4, <2>5 DEF e
<1> QED BY <1>3, <1>4

LEMMA ViewStarts == ViewInit => ViewTypes /\ YearInv /\ SameLines
<1> SUFFICES ASSUME ViewInit
             PROVE  ViewTypes /\ YearInv /\ SameLines
  OBVIOUS
<1>1. log \in Seq(LogLine) /\ Len(log) \in Nat /\ from \in Times /\ to \in Times
  <2>1. log \in Logs /\ from \in Bounds /\ to \in Bounds
    BY DEF ViewInit
  <2>2. log \in Seq(LogLine) /\ from \in Times /\ to \in Times
    BY <2>1, LogViewAssumption DEF Times
  <2> QED BY <2>2
<1> DEFINE h == IF LooksLikeGPLog THEN 0 ELSE LooseYearHint
<1>2. h \in Nat /\ h \in Stated \cup {0}
  BY <1>1, HintIsStated
<1>3. scan = [ts |-> NoTime, ms |-> 0, label |-> "", sub |-> "", inResource |-> FALSE,
              yearHint |-> h]
  BY DEF ViewInit
<1> HIDE DEF h
<1>4. scan \in Scan /\ scan.yearHint = h /\ scan.ts = NoTime
  BY <1>2, <1>3 DEF Scan, Times, Labels
<1>5. read = 0 /\ entries = <<>> /\ last = NoTime /\ sent = {}
  BY DEF ViewInit
<1>6. ViewTypes
  BY <1>1, <1>4, <1>5 DEF ViewTypes, Times
<1>7. YearInv
  BY <1>2, <1>4, <1>5 DEF YearInv
<1>8. SameLines
  BY <1>4, <1>5 DEF SameLines
<1> QED BY <1>6, <1>7, <1>8

LEMMA DownloadTypes ==
    ASSUME ViewTypes, NEW e \in Entry, DownloadLine(e)
    PROVE  last' \in Times /\ sent' \in SUBSET (1..read+1)
<1> DEFINE x == ExtractTimestamp(e)
<1>1. x \in Times
  <2>1. RefYear \in Nat
    BY LogViewAssumption DEF RefYear, ViewTypes, Times, Time
  <2>2. [year |-> RefYear, t |-> e.t] \in Time
    BY <2>1, EntryIs DEF Time
  <2> QED BY <2>2, TimeOfIs DEF ExtractTimestamp, Times
<1>2. last' = IF x = NoTime THEN last ELSE x
  BY DEF DownloadLine
<1>3. sent' \in {sent, sent \cup {read + 1}}
  BY DEF DownloadLine
<1>4. sent \in SUBSET (1..read) /\ read \in Nat /\ last \in Times
  BY DEF ViewTypes
<1>5. sent \in SUBSET (1..read+1) /\ read + 1 \in 1..read+1
  BY <1>4
<1> HIDE DEF x
<1> QED BY <1>1, <1>2, <1>3, <1>4, <1>5

LEMMA TypesKept == ViewTypes /\ YearInv /\ [ViewNext]_viewVars => ViewTypes' /\ YearInv'
<1> SUFFICES ASSUME ViewTypes, YearInv, [ViewNext]_viewVars
             PROVE  ViewTypes' /\ YearInv'
  OBVIOUS
<1>1. CASE UNCHANGED viewVars
  BY <1>1 DEF ViewTypes, YearInv, Stated, viewVars
<1>2. CASE ViewNext
  <2>1. /\ read < Len(log) /\ read' = read + 1 /\ UNCHANGED <<log, from, to>>
        /\ DownloadLine(Line.first)
        /\ MonitorLine(Line.first) \/ GPLine(Line)
    BY <1>2 DEF ViewNext, ViewLine, Line
  <2>2. /\ Line \in LogLine /\ Line.first \in Entry
        /\ \A e \in On(Line) : e \in Entry /\ StatedBy(e) \in SUBSET Stated
        /\ read \in Nat /\ read + 1 \in 0..Len(log) /\ Line.first \in On(Line)
    BY <2>1, LineRead, LineIs
  <2>3. Stated' = Stated
    BY <2>1 DEF Stated
  <2>4. last' \in Times /\ sent' \in SUBSET (1..read+1)
    BY <2>1, <2>2, DownloadTypes
  <2>5. /\ scan' \in Scan /\ entries' \in Seq(Made)
        /\ scan'.yearHint \in Stated \cup {0}
        /\ scan'.ts # NoTime => scan'.ts.year \in Stated
        /\ \A k \in 1..Len(entries') :
              entries'[k].ts # NoTime => entries'[k].ts.year \in Stated
    <3>1. CASE MonitorLine(Line.first)
      <4> DEFINE e == Line.first
      <4>1. PICK m : Monitored(e, m)
        BY <2>2, <3>1, MonitorLineMakes
      <4>2. /\ scan' \in Scan
            /\ scan'.ts = IF Stamp(e) = NoTime THEN scan.ts ELSE Stamp(e)
            /\ scan'.yearHint = NextHint(e)
            /\ m \in Made /\ m.ts = scan'.ts
            /\ entries' = Append(entries, m)
        BY <4>1 DEF Monitored
      <4>3. e \in Entry /\ StatedBy(e) \in SUBSET Stated
        BY <2>2
      <4>4. e.year \in Stated \cup {0} /\ e.says \in Stated \cup {0}
        BY <4>3 DEF StatedBy
      <4>5. scan.yearHint \in Stated \cup {0} /\ (scan.ts # NoTime => scan.ts.year \in Stated)
        BY DEF YearInv
      <4> HIDE DEF e
      <4>6. NextHint(e) \in Stated \cup {0}
        BY <4>3, <4>4, <4>5, NextHintIs
      <4>7. Stamp(e) # NoTime => Stamp(e).year \in Stated
        BY <4>3, <4>4, <4>5, StampIs
      <4>8. scan'.ts # NoTime => scan'.ts.year \in Stated
        BY <4>2, <4>5, <4>7
      <4>9. /\ entries' \in Seq(Made) /\ Len(entries') = Len(entries) + 1
            /\ entries'[Len(entries) + 1] = m
            /\ \A k \in 1..Len(entries) : entries'[k] = entries[k]
        BY <4>2, AppendProperties DEF ViewTypes
      <4>10. ASSUME NEW k \in 1..Len(entries'), entries'[k].ts # NoTime
             PROVE  entries'[k].ts.year \in Stated
        <5>1. CASE k = Len(entries) + 1
          BY <4>2, <4>8, <4>9, <4>10, <5>1
        <5>2. CASE k # Len(entries) + 1
          <6>1. k \in 1..Len(entries)
            BY <4>9, <5>2 DEF ViewTypes
          <6> QED BY <4>9, <4>10, <6>1 DEF YearInv
        <5> QED BY <5>1, <5>2
      <4> QED BY <4>2, <4>6, <4>8, <4>9, <4>10
    <3>2. CASE GPLine(Line)
      <4>1. [scan |-> scan, entries |-> entries] \in Reading
        BY DEF Reading, ViewTypes, YearInv
      <4>2. \A st \in Reading : \A e \in On(Line) : Add(st, e) \in Reading
        BY <2>2, AddKeeps
      <4>3. PICK st \in Reading : scan' = st.scan /\ entries' = st.entries
        BY <2>2, <3>2, <4>1, <4>2, GPLineKeeps
      <4> QED BY <4>3 DEF Reading, YearInv
    <3> QED BY <2>1, <3>1, <3>2
  <2>6. ViewTypes'
    <3>1. log \in Seq(LogLine) /\ from \in Times /\ to \in Times
      BY DEF ViewTypes
    <3> QED BY <2>1, <2>2, <2>4, <2>5, <3>1 DEF ViewTypes
  <2>7. YearInv'
    BY <2>3, <2>5 DEF YearInv
  <2> QED BY <2>6, <2>7
<1> QED BY <1>1, <1>2

\* Where a date leads its line, the two readers of the line find the same time.
LEMMA SameTime ==
    ASSUME ViewTypes, NEW e \in Entry, e.shape # "loose", ~e.month,
           e.iso => e.shape \in {"block", "lead"}
    PROVE  ExtractTimestamp(e) = Stamp(e)
<1>1. CASE e.shape \in {"block", "lead"} /\ e.valid
  <2>1. e.iso
    BY <1>1, EntryIs
  <2> QED BY <1>1, <2>1, StampIs DEF ExtractTimestamp
<1>2. CASE ~(e.shape \in {"block", "lead"} /\ e.valid)
  <2>1. ~(e.iso /\ e.valid)
    BY <1>2
  <2> QED BY <1>2, <2>1, StampIs DEF ExtractTimestamp
<1> QED BY <1>1, <1>2

LEMMA SameLinesKept ==
    ViewTypes /\ SameLines /\ [ViewNext]_viewVars => SameLines'
<1> SUFFICES ASSUME ViewTypes, SameLines, [ViewNext]_viewVars
             PROVE  SameLines'
  OBVIOUS
<1>1. CASE UNCHANGED viewVars
  <2>1. LooksLikeGPLog' = LooksLikeGPLog
    BY <1>1 DEF LooksLikeGPLog, HeadOf, HeadLines, viewVars
  <2>2. \A n : DatesLead(n)' <=> DatesLead(n)
    BY <1>1 DEF DatesLead, viewVars
  <2>3. \A x : InBounds(x)' <=> InBounds(x)
    BY <1>1 DEF InBounds, Within, viewVars
  <2> QED BY <1>1, <2>1, <2>2, <2>3 DEF SameLines, viewVars
<1>2. CASE ViewNext
  <2>1. /\ read < Len(log) /\ read' = read + 1 /\ log' = log /\ from' = from /\ to' = to
        /\ DownloadLine(Line.first)
        /\ MonitorLine(Line.first) \/ GPLine(Line)
    BY <1>2 DEF ViewNext, ViewLine, Line
  <2>2. LooksLikeGPLog' = LooksLikeGPLog
    BY <2>1 DEF LooksLikeGPLog, HeadOf, HeadLines
  <2>3. \A x : InBounds(x)' <=> InBounds(x)
    BY <2>1 DEF InBounds, Within
  <2>4. CASE LooksLikeGPLog
    BY <2>2, <2>4 DEF SameLines
  <2>5. CASE ~LooksLikeGPLog
    <3> DEFINE e == Line.first
    <3>1. MonitorLine(e) /\ e \in Entry /\ read \in Nat
      BY <2>1, <2>5, LineRead DEF GPLine
    <3>2. PICK m : Monitored(e, m)
      BY <3>1, MonitorLineMakes
    <3>3. /\ scan'.ts = IF Stamp(e) = NoTime THEN scan.ts ELSE Stamp(e)
          /\ m \in Made /\ m.ts = scan'.ts /\ m.line = read + 1
          /\ entries' = Append(entries, m)
      BY <3>2 DEF Monitored
    <3>4. entries \in Seq(Made) /\ Len(entries) = read /\ \A k \in 1..read : entries[k].line = k
      BY <2>5 DEF ViewTypes, SameLines
    <3>5. /\ Len(entries') = read + 1 /\ entries'[read + 1] = m
          /\ \A k \in 1..read : entries'[k] = entries[k]
      BY <3>3, <3>4, AppendProperties
    <3>6. \A k \in 1..read+1 : k = read + 1 \/ k \in 1..read
      BY <3>1
    <3>7. \A k \in 1..read+1 : entries'[k].line = k
      BY <3>3, <3>4, <3>5, <3>6
    <3>8. ASSUME DatesLead(read + 1)
          PROVE  DatesLead(read) /\ ExtractTimestamp(e) = Stamp(e)
      <4>1. read + 1 \in 1..read+1 /\ \A k \in 1..read : k \in 1..read+1
        BY <3>1
      <4>2. e.shape # "loose" /\ ~e.month /\ (e.iso => e.shape \in {"block", "lead"})
        BY <3>8, <4>1 DEF DatesLead, Line
      <4>3. ExtractTimestamp(e) = Stamp(e)
        <5> HIDE DEF e
        <5> QED BY <3>1, <4>2, SameTime
      <4> QED BY <3>8, <4>1, <4>3 DEF DatesLead
    <3>9. last' = (IF ExtractTimestamp(e) = NoTime THEN last ELSE ExtractTimestamp(e))
      BY <2>1 DEF DownloadLine
    <3>10. ASSUME DatesLead(read + 1)
           PROVE  last' = scan'.ts
      <4>1. last = scan.ts
        BY <2>5, <3>8, <3>10 DEF SameLines
      <4> QED BY <3>3, <3>8, <3>9, <3>10, <4>1
    <3>11. ASSUME DatesLead(read + 1), from # NoTime
           PROVE  \A k \in 1..read+1 : k \in sent' <=> InBounds(entries'[k].ts)
      <4>1. \A k \in 1..read : k \in sent <=> InBounds(entries[k].ts)
        BY <2>5, <3>8, <3>11 DEF SameLines
      <4>2. sent' = IF InBounds(last') THEN sent \cup {read + 1} ELSE sent
        BY <2>1, <3>11 DEF DownloadLine, InBounds
      <4>3. sent \in SUBSET (1..read)
        BY DEF ViewTypes
      <4>4. read + 1 \in sent' <=> InBounds(m.ts)
        <5>1. read + 1 \notin sent
          BY <3>1, <4>3
        <5>2. m.ts = last'
          BY <3>3, <3>10, <3>11
        <5> QED BY <4>2, <5>1, <5>2
      <4>5. \A k \in 1..read : k \in sent' <=> k \in sent
        <5>1. \A k \in 1..read : k # read + 1
          BY <3>1
        <5> QED BY <4>2, <5>1
      <4> QED BY <3>5, <3>6, <4>1, <4>4, <4>5
    <3>12. \A n : DatesLead(n)' <=> DatesLead(n)
      BY <2>1 DEF DatesLead
    <3> QED BY <2>1, <2>3, <3>5, <3>7, <3>10, <3>11, <3>12 DEF SameLines
  <2> QED BY <2>4, <2>5
<1> QED BY <1>1, <1>2

----------------------------------------------------------------------------
(* The texts of times.                                                     *)

\* Three numbers, and perhaps more, compare from the first on.
LEMMA BelowIs ==
    ASSUME NEW x \in Seq(Nat), Len(x) >= 3, NEW z \in Seq(Nat), Len(z) = 3
    PROVE  Below(x, z) <=> \/ x[1] < z[1]
                           \/ x[1] = z[1] /\ x[2] < z[2]
                           \/ x[1] = z[1] /\ x[2] = z[2] /\ x[3] < z[3]
<1>1. DOMAIN z = {1, 2, 3} /\ DOMAIN x = 1..Len(x) /\ Len(x) \in Nat
  OBVIOUS
<1>2. \A k \in {1, 2, 3} : k \in DOMAIN x /\ k <= Len(x) + 1
  BY <1>1
<1> DEFINE P(k) == (\A j \in 1..k-1 : x[j] = z[j]) /\ x[k] < z[k]
<1>3. Below(x, z) <=> P(1) \/ P(2) \/ P(3)
  BY <1>1, <1>2 DEF Below
<1>4. P(1) <=> x[1] < z[1]
  OBVIOUS
<1>5. P(2) <=> x[1] = z[1] /\ x[2] < z[2]
  <2>1. 1..2-1 = {1}
    OBVIOUS
  <2> QED BY <2>1
<1>6. P(3) <=> x[1] = z[1] /\ x[2] = z[2] /\ x[3] < z[3]
  <2>1. 1..3-1 = {1, 2}
    OBVIOUS
  <2> QED BY <2>1
<1> HIDE DEF P
<1> QED BY <1>3, <1>4, <1>5, <1>6

\* The displayed times compare as the times do, whatever follows the seconds.
LEMMA TextsCompare ==
    ASSUME NEW e \in Made, e.ts \in Time, NEW b \in Time
    PROVE  /\ Below(NormalizeLogTs(e), Bound(b)) <=> Before(e.ts, b)
           /\ Below(Bound(b), SubSeq(NormalizeLogTs(e), 1, 3)) <=> Before(b, e.ts)
<1> DEFINE y == e.ts.year
           t == e.ts.t
           ms == e.ms
           by == b.year
           bt == b.t
           x == <<y, 1, t, ms>>
           z == <<by, 1, bt>>
           w == <<y, 1, t>>
<1>1. y \in Nat /\ t \in Nat /\ ms \in Nat /\ by \in Nat /\ bt \in Nat
  BY DEF Made, Time
<1>2. NormalizeLogTs(e) = x /\ Bound(b) = z
  BY DEF NormalizeLogTs, Bound, SepRank
<1>3. /\ Before(e.ts, b) <=> y < by \/ (y = by /\ t < bt)
      /\ Before(b, e.ts) <=> by < y \/ (by = y /\ bt < t)
  BY DEF Before
<1> HIDE DEF y, t, ms, by, bt
<1>4. /\ x \in Seq(Nat) /\ Len(x) = 4 /\ x[1] = y /\ x[2] = 1 /\ x[3] = t
      /\ z \in Seq(Nat) /\ Len(z) = 3 /\ z[1] = by /\ z[2] = 1 /\ z[3] = bt
      /\ w \in Seq(Nat) /\ Len(w) = 3 /\ w[1] = y /\ w[2] = 1 /\ w[3] = t
  BY <1>1
<1> HIDE DEF x, z, w
<1>5. SubSeq(x, 1, 3) = w
  <2> DEFINE v == SubSeq(x, 1, 3)
  <2>0. 1 \in Int /\ 3 \in Int /\ \A i \in 1..3 : x[i] \in Nat
    <3>1. \A i \in 1..3 : i \in 1..Len(x)
      BY <1>4
    <3>2. x \in Seq(Nat) /\ \A i \in 1..Len(x) : x[i] \in Nat
      BY <1>4, ElementOfSeq
    <3> QED BY <3>1, <3>2
  <2>1. v \in Seq(Nat) /\ Len(v) = 3 /\ \A i \in 1..3 : v[i] = x[i]
    <3>1. /\ v \in Seq(Nat) /\ Len(v) = IF 1 <= 3 THEN 3 - 1 + 1 ELSE 0
          /\ \A i \in 1..3-1+1 : v[i] = x[1 + i - 1]
      BY <2>0, SubSeqProperties
    <3>2. 3 - 1 + 1 = 3 /\ \A i \in 1..3 : 1 + i - 1 = i
      OBVIOUS
    <3> QED BY <3>1, <3>2
  <2> HIDE DEF v
  <2>2. \A i \in 1..3 : i \in {1, 2, 3}
    OBVIOUS
  <2>3. \A i \in 1..3 : v[i] = w[i]
    BY <1>4, <2>1, <2>2
  <2>4. v = w
    BY <1>4, <2>1, <2>3, SeqEqual
  <2> QED BY <2>4 DEF v
<1>6. Below(x, z) <=> y < by \/ (y = by /\ t < bt)
  <2>1. Below(x, z) <=> \/ x[1] < z[1]
                        \/ x[1] = z[1] /\ x[2] < z[2]
                        \/ x[1] = z[1] /\ x[2] = z[2] /\ x[3] < z[3]
    <3>1. Len(x) >= 3
      BY <1>4
    <3> QED BY <1>4, <3>1, BelowIs
  <2> QED BY <1>4, <2>1
<1>7. Below(z, w) <=> by < y \/ (by = y /\ bt < t)
  <2>1. Below(z, w) <=> \/ z[1] < w[1]
                        \/ z[1] = w[1] /\ z[2] < w[2]
                        \/ z[1] = w[1] /\ z[2] = w[2] /\ z[3] < w[3]
    <3>1. Len(z) >= 3
      BY <1>4
    <3> QED BY <1>4, <3>1, BelowIs
  <2> QED BY <1>4, <2>1
<1> QED BY <1>2, <1>3, <1>5, <1>6, <1>7

LEMMA PageIsBounds ==
    ASSUME ViewTypes, NEW e \in Made, from # NoTime \/ to # NoTime
    PROVE  InPage(e) <=> InBounds(e.ts)
<1>1. from \in Time \cup {NoTime} /\ to \in Time \cup {NoTime} /\ e.ts \in Time \cup {NoTime}
  BY DEF ViewTypes, Times, Made
<1>2. CASE e.ts = NoTime
  BY <1>2 DEF InPage, InBounds
<1>3. CASE e.ts # NoTime
  <2>1. from # NoTime => (Below(NormalizeLogTs(e), Bound(from)) <=> Before(e.ts, from))
    BY <1>1, <1>3, TextsCompare
  <2>2. to # NoTime => (Below(Bound(to), SubSeq(NormalizeLogTs(e), 1, 3)) <=> Before(to, e.ts))
    BY <1>1, <1>3, TextsCompare
  <2> QED BY <1>3, <2>1, <2>2 DEF InPage, InBounds, Within
<1> QED BY <1>2, <1>3

----------------------------------------------------------------------------
(* The page and the download.                                              *)

InPlace == {k \in DOMAIN entries : InPage(entries[k])}

LEMMA ShownAre ==
    ASSUME ViewTypes
    PROVE  /\ Shown \in Seq(Made) /\ InPlace \in SUBSET (1..Len(entries))
           /\ \A k \in 1..Len(Shown) : \E j \in InPlace : Shown[k] = entries[j]
           /\ \A j \in InPlace : \E k \in 1..Len(Shown) : Shown[k] = entries[j]
<1>1. entries \in Seq(Made) /\ InPlace \in SUBSET (1..Len(entries))
  BY DEF ViewTypes, InPlace
<1>2. Shown = Pick(entries, InPlace)
  BY DEF Shown, InPlace
<1>3. /\ IsFiniteSet(InPlace) /\ Shown \in Seq(Made) /\ Len(Shown) = Cardinality(InPlace)
      /\ \A k \in 1..Cardinality(InPlace) :
            Ascending(InPlace)[k] \in InPlace /\ Shown[k] = entries[Ascending(InPlace)[k]]
  BY <1>1, <1>2, PickIs
<1>4. \A j \in InPlace : \E k \in 1..Cardinality(InPlace) : Ascending(InPlace)[k] = j
  <2>1. InPlace \in SUBSET Nat
    BY <1>1
  <2> QED BY <1>3, <2>1, AscendingIs
<1>5. \A k \in 1..Len(Shown) : \E j \in InPlace : Shown[k] = entries[j]
  BY <1>3
<1>6. \A j \in InPlace : \E k \in 1..Len(Shown) : Shown[k] = entries[j]
  BY <1>3, <1>4
<1> QED BY <1>1, <1>3, <1>5, <1>6

LEMMA PageByPage ==
    ASSUME ViewTypes, NEW k \in DOMAIN Shown
    PROVE  PageStats(k - 1, 1).page = <<Shown[k]>>
<1> DEFINE n == Len(Shown)
           o == k - 1
           start == IF o > n THEN n ELSE o
           end == IF 1 > 0 /\ o + 1 < n THEN o + 1 ELSE n
           page == SubSeq(Shown, start + 1, end)
<1>1. Shown \in Seq(Made) /\ n \in Nat /\ k \in 1..n
  BY ShownAre
<1>2. PageStats(o, 1).page = page
  BY DEF PageStats
<1>3. start + 1 = k /\ end = k
  <2> HIDE DEF n
  <2>1. ~(o > n) /\ o + 1 = k /\ (~(o + 1 < n) => k = n)
    BY <1>1
  <2> QED BY <2>1
<1>4. page = SubSeq(Shown, k, k)
  BY <1>3
<1> HIDE DEF page, o
<1> DEFINE v == SubSeq(Shown, k, k)
           x == Shown[k]
<1>5. k \in Int /\ x \in Made /\ \A i \in k..k : Shown[i] \in Made
  BY <1>1
<1>6. v \in Seq(Made) /\ Len(v) = 1 /\ v[1] = x
  <2>1. /\ v \in Seq(Made) /\ Len(v) = IF k <= k THEN k - k + 1 ELSE 0
        /\ \A i \in 1..k-k+1 : v[i] = Shown[k + i - 1]
    BY <1>5, SubSeqProperties
  <2>2. k - k + 1 = 1 /\ 1 \in 1..k-k+1 /\ k + 1 - 1 = k /\ k <= k
    BY <1>5
  <2> QED BY <2>1, <2>2
<1> HIDE DEF v, x, n
<1>7. <<x>> \in Seq(Made) /\ Len(<<x>>) = 1 /\ <<x>>[1] = x
  BY <1>5
<1>8. v = <<x>>
  <2>1. \A i \in 1..Len(v) : i = 1
    BY <1>6
  <2> QED BY <1>6, <1>7, <2>1, SeqEqual
<1> QED BY <1>2, <1>4, <1>8 DEF o, v, x

\* What the invariants say of the page and the download.
LEMMA Alike == ViewTypes /\ SameLines => FiltersAlike
<1> SUFFICES ASSUME ViewTypes, SameLines
             PROVE  FiltersAlike
  OBVIOUS
<1> DEFINE shown == {Shown[k].line : k \in DOMAIN Shown}
           dated == \A k \in 1..read :
                       /\ log[k].first.shape # "loose" /\ ~log[k].first.month
                       /\ log[k].first.iso => log[k].first.shape \in {"block", "lead"}
<1>1. entries \in Seq(Made) /\ DOMAIN entries = 1..Len(entries) /\ DOMAIN Shown = 1..Len(Shown)
      /\ \A k \in DOMAIN entries : entries[k] \in Made
  BY ShownAre DEF ViewTypes
<1>2. ASSUME from # NoTime \/ to # NoTime
      PROVE  \A k \in DOMAIN entries :
                InPage(entries[k]) <=> entries[k].ts # NoTime /\ Within(entries[k].ts)
  BY <1>1, <1>2, PageIsBounds DEF InBounds
<1>3. ASSUME ~LooksLikeGPLog, dated, from # NoTime
      PROVE  shown = sent
  <2>1. DatesLead(read)
    BY <1>3 DEF DatesLead
  <2>2. /\ Len(entries) = read /\ \A k \in 1..read : entries[k].line = k
        /\ \A k \in 1..read : k \in sent <=> InBounds(entries[k].ts)
    BY <1>3, <2>1 DEF SameLines
  <2>3. \A k \in 1..read : k \in sent <=> k \in InPlace
    <3>1. \A k \in 1..read : InPage(entries[k]) <=> InBounds(entries[k].ts)
      BY <1>1, <1>2, <1>3, <2>2 DEF InBounds
    <3> QED BY <1>1, <2>2, <3>1 DEF InPlace
  <2>4. sent \in SUBSET (1..read) /\ InPlace \in SUBSET (1..read)
    BY <2>2, ShownAre DEF ViewTypes
  <2>5. sent = InPlace
    BY <2>3, <2>4
  <2>6. \A x : x \in shown <=> x \in InPlace
    <3>1. \A j \in InPlace : entries[j].line = j
      BY <2>2, <2>4
    <3>2. ASSUME NEW x \in shown
          PROVE  x \in InPlace
      <4>1. PICK k \in 1..Len(Shown) : x = Shown[k].line
        BY <1>1
      <4>2. PICK j \in InPlace : Shown[k] = entries[j]
        BY ShownAre
      <4> QED BY <3>1, <4>1, <4>2
    <3>3. ASSUME NEW j \in InPlace
          PROVE  j \in shown
      <4>1. PICK k \in 1..Len(Shown) : Shown[k] = entries[j]
        BY ShownAre
      <4> QED BY <1>1, <3>1, <4>1
    <3> QED BY <3>2, <3>3
  <2> HIDE DEF shown, dated
  <2> QED BY <2>5, <2>6
<1>4. \A k \in DOMAIN Shown : PageStats(k - 1, 1).page = <<Shown[k]>>
  BY PageByPage
<1> HIDE DEF shown, dated
<1>5. /\ from # NoTime \/ to # NoTime =>
            \A k \in DOMAIN entries :
                InPage(entries[k]) <=> entries[k].ts # NoTime /\ Within(entries[k].ts)
      /\ ~LooksLikeGPLog /\ dated /\ from # NoTime => shown = sent
      /\ \A k \in DOMAIN Shown : PageStats(k - 1, 1).page = <<Shown[k]>>
  BY <1>2, <1>3, <1>4
<1> QED BY <1>5 DEF FiltersAlike, shown, dated

----------------------------------------------------------------------------
(* The theorems.                                                           *)

LEMMA ViewInvariant == ViewSpec => [](ViewTypes /\ YearInv /\ SameLines)
<1>1. ViewInit => ViewTypes /\ YearInv /\ SameLines
  BY ViewStarts
<1>2. ViewTypes /\ YearInv /\ SameLines /\ [ViewNext]_viewVars
          => (ViewTypes /\ YearInv /\ SameLines)'
  BY TypesKept, SameLinesKept
<1> QED BY <1>1, <1>2, PTL DEF ViewSpec

\* "So the two kinds of log filter alike" (StructureLogPageStats): a page keeps the
\* entries whose time is within the bounds, and where dates lead their lines it keeps
\* the lines that the download (FilterLines) keeps; page by page, it is complete.
THEOREM TheFiltersAgree == ViewSpec => []FiltersAlike
<1>1. ViewTypes /\ SameLines => FiltersAlike
  BY Alike
<1> QED BY <1>1, ViewInvariant, PTL

\* "A wrong timestamp is worse than none" (parseLooseTs): both readers give an entry
\* only years that a line of its log states.
THEOREM NoYearIsInvented == ViewSpec => []YearsAreStated
<1>1. ViewTypes /\ YearInv => YearsAreStated
  <2> SUFFICES ASSUME ViewTypes, YearInv, NEW k \in DOMAIN entries, entries[k].ts # NoTime
               PROVE  \E j \in DOMAIN log : \E e \in {log[j].first} \cup Range(log[j].more) :
                          entries[k].ts.year \in {e.year, e.says} \ {0}
    BY DEF YearsAreStated
  <2>1. k \in 1..Len(entries)
    BY DEF ViewTypes
  <2>2. entries[k].ts.year \in Stated
    BY <2>1 DEF YearInv
  <2> QED BY <2>2 DEF Stated, StatedBy, On
<1> QED BY <1>1, ViewInvariant, PTL

----------------------------------------------------------------------------
(* The portals of a log (Portals): what the lines read so far make of each. *)

InLast(text, k) == \A s \in Lines(text, {"prelogin"}) : s <= k
NamingNow(text) == {k \in Lines(text, Naming) : InLast(text, k)}
HeldOf(text, f) ==
    IF NamingNow(text) # {} THEN {}
    ELSE {k \in Lines(text, {"fact"}) : text[k].field = f /\ InLast(text, k)}
NamedBy(text) == {text[k].addr : k \in Lines(text, Naming)}

CurrentIs(text, now) ==
    now = IF NamingNow(text) = {} THEN "" ELSE text[LastOf(NamingNow(text))].addr
PendingIs(text, held) == \A f \in Fields : SaidLast(text, HeldOf(text, f), f, held[f])
FactsAre(text, ps) == \A a \in DOMAIN ps : FactsOfOwnLogin(text, a, ps[a].facts)
RoundsAre(text, ps) == \A a \in DOMAIN ps : RoundOfOwnPortal(text, a, ps[a].gateways)

\* A round that is open: its gateways are those the lines since named.
OpenFrom(text, d) ==
    /\ d \in Lines(text, {"discover"}) /\ InLast(text, d)
    /\ \A x \in Lines(text, {"discover"}) : x <= d
    /\ \A x \in Lines(text, {"chosen"}) : d < x => ~Counts(text, d, x)
OwnedBy(text, d, owner) ==
    owner = IF NamedBefore(text, d) = {} THEN "" ELSE text[LastOf(NamedBefore(text, d))].addr
NamesOf(gateways) == {gateways[k].fqdn : k \in DOMAIN gateways}
OpenAt(text, d, gateways, owner) ==
    /\ OpenFrom(text, d) /\ OwnedBy(text, d, owner)
    /\ NamesOf(gateways) = {text[k].addr : k \in RoundLines(text, d, Len(text) + 1)}
RoundIs(text, gateways, owner, open) ==
    IF open THEN \E d \in DOMAIN text : OpenAt(text, d, gateways, owner)
    ELSE gateways = <<>> /\ \A d \in DOMAIN text : ~OpenFrom(text, d)

Value == STRING \cup {"", "manual-only", "region"}
GatewayRec ==
    [fqdn : Value, name : Value, manual : BOOLEAN, excluded : Value, selected : BOOLEAN]
PortalRec ==
    [facts : [Fields -> Value], user : Value, gateways : Seq(GatewayRec), count : Nat,
     selected : Value, success : BOOLEAN, tunnels : Nat, hips : Nat, reply : Value,
     first : Nat, last : Nat]

SeenIs(text, ps, places) ==
    /\ ps \in [NamedBy(text) -> PortalRec] /\ places \in Seq(NamedBy(text))
    /\ NamedBy(text) = {places[k] : k \in DOMAIN places}
    /\ \A j, k \in DOMAIN places : places[j] = places[k] => j = k

FoldTypes ==
    /\ feed \in Feeds /\ fed \in Seq(PortalLine)
    /\ pending \in [Fields -> Value]
    /\ round \in Seq(GatewayRec) /\ roundOpen \in BOOLEAN /\ roundCnt \in Nat
    /\ roundOwner \in NamedBy(fed) \cup {""}

FoldInv ==
    /\ FoldTypes /\ SeenIs(fed, portals, portalsSeen)
    /\ CurrentIs(fed, current) /\ PendingIs(fed, pending)
    /\ FactsAre(fed, portals) /\ RoundsAre(fed, portals)
    /\ RoundIs(fed, round, roundOwner, roundOpen)

----------------------------------------------------------------------------
(* The last of some lines.                                                 *)

LEMMA LastIs ==
    ASSUME NEW m \in Nat, NEW T \in SUBSET (1..m), T # {}
    PROVE  LastOf(T) \in T /\ \A x \in T : x <= LastOf(T)
<1> DEFINE U == {k \in Nat : \E x \in T : k = m - x}
<1>1. U \in SUBSET Nat /\ U # {}
  <2>1. PICK x \in T : TRUE
    OBVIOUS
  <2>2. m - x \in Nat
    OBVIOUS
  <2>3. m - x \in U
    BY <2>2
  <2> QED BY <2>3
<1>2. PICK k \in U : \A y \in U : k <= y
  <2> HIDE DEF U
  <2> QED BY <1>1, LeastNumber
<1>3. PICK x \in T : k = m - x
  OBVIOUS
<1>4. ASSUME NEW y \in T
      PROVE  y <= x
  <2>1. m - y \in Nat /\ x \in Nat /\ y \in Nat
    OBVIOUS
  <2>2. m - y \in U
    BY <2>1
  <2>3. m - x <= m - y
    <3> HIDE DEF U
    <3> QED BY <1>2, <1>3, <2>2
  <2> QED BY <2>1, <2>3
<1> HIDE DEF U
<1> QED BY <1>4 DEF LastOf

LEMMA LastOfIs ==
    ASSUME NEW m \in Nat, NEW T \in SUBSET (1..m), NEW x \in T, \A y \in T : y <= x
    PROVE  LastOf(T) = x
<1>1. LastOf(T) \in T /\ x <= LastOf(T)
  BY LastIs
<1> DEFINE z == LastOf(T)
<1>2. z \in 1..m /\ x \in 1..m /\ z <= x /\ x <= z
  BY <1>1
<1> HIDE DEF z
<1>3. z = x
  BY <1>2
<1> QED BY <1>3 DEF z

\* The last of some lines and of later ones.
LEMMA LastOfBoth ==
    ASSUME NEW m \in Nat, NEW S \in SUBSET (1..m), NEW T \in SUBSET (1..m), T # {},
           \A x \in S : \A y \in T : x <= y
    PROVE  LastOf(S \cup T) = LastOf(T)
<1>1. LastOf(T) \in T /\ \A x \in T : x <= LastOf(T)
  BY LastIs
<1> DEFINE z == LastOf(T)
<1>2. z \in T /\ \A x \in S \cup T : x <= z
  BY <1>1
<1> HIDE DEF z
<1>3. z \in S \cup T /\ S \cup T \in SUBSET (1..m)
  BY <1>2
<1>4. LastOf(S \cup T) = z
  BY <1>2, <1>3, LastOfIs
<1> QED BY <1>4 DEF z

----------------------------------------------------------------------------
(* One line more.                                                          *)

More(text, l, longer) ==
    text \in Seq(PortalLine) /\ l \in PortalLine /\ longer = Append(text, l)

LEMMA Longer ==
    ASSUME NEW text, NEW l, NEW longer, More(text, l, longer)
    PROVE  /\ Len(text) \in Nat /\ DOMAIN text = 1..Len(text)
           /\ longer \in Seq(PortalLine) /\ Len(longer) = Len(text) + 1
           /\ DOMAIN longer = 1..Len(text) + 1
           /\ \A k \in 1..Len(text) : longer[k] = text[k] /\ k \in 1..Len(text) + 1 /\ k # Len(text) + 1
           /\ longer[Len(text) + 1] = l /\ Len(text) + 1 \in 1..Len(text) + 1
<1> HIDE DEF PortalLine
<1> QED BY DEF More

LEMMA LinesAre ==
    ASSUME NEW text \in Seq(PortalLine), NEW S
    PROVE  /\ Lines(text, S) \in SUBSET (1..Len(text))
           /\ \A k \in Lines(text, S) : k \in Nat /\ k \in 1..Len(text) /\ text[k].says \in S
<1>1. DOMAIN text = 1..Len(text) /\ Len(text) \in Nat
  <2> HIDE DEF PortalLine
  <2> QED OBVIOUS
<1> QED BY <1>1 DEF Lines

LEMMA LinesMore ==
    ASSUME NEW text, NEW l, NEW longer, More(text, l, longer), NEW S
    PROVE  Lines(longer, S) = Lines(text, S) \cup (IF l.says \in S THEN {Len(text) + 1} ELSE {})
<1> DEFINE n == Len(text)
<1>1. /\ n \in Nat /\ DOMAIN text = 1..n /\ DOMAIN longer = 1..n + 1
      /\ \A k \in 1..n : longer[k] = text[k]
      /\ longer[n + 1] = l
  BY Longer
<1> HIDE DEF n
<1>2. 1..n + 1 = (1..n) \cup {n + 1}
  BY <1>1
<1> QED BY <1>1, <1>2 DEF Lines, n

\* The login of a line, as the text grows.
LEMMA SameLoginMore ==
    ASSUME NEW text, NEW l, NEW longer, More(text, l, longer)
    PROVE  /\ \A j, k \in 1..Len(text) : SameLogin(longer, j, k) <=> SameLogin(text, j, k)
           /\ \A k \in 1..Len(text) : 
                 SameLogin(longer, k, Len(text) + 1) <=> l.says # "prelogin" /\ InLast(text, k)
           /\ \A k \in 1..Len(text) : 
                 SameLogin(longer, Len(text) + 1, k) <=> l.says # "prelogin" /\ InLast(text, k)
           /\ SameLogin(longer, Len(text) + 1, Len(text) + 1)
           /\ \A k \in 1..Len(text) : InLast(longer, k) <=> l.says # "prelogin" /\ InLast(text, k)
           /\ InLast(longer, Len(text) + 1)
<1> DEFINE n == Len(text)
           S == Lines(text, {"prelogin"})
           L == Lines(longer, {"prelogin"})
<1>1. n \in Nat
  BY Longer
<1>2. \A s \in S : s \in Nat /\ s <= n /\ s >= 1
  BY LinesAre DEF More
<1>3. L = S \cup (IF l.says = "prelogin" THEN {n + 1} ELSE {})
  BY LinesMore
<1>4. /\ \A j, k : SameLogin(longer, j, k) <=> \A s \in L : ~(k < s /\ s <= j) /\ ~(j < s /\ s <= k)
      /\ \A j, k : SameLogin(text, j, k) <=> \A s \in S : ~(k < s /\ s <= j) /\ ~(j < s /\ s <= k)
      /\ \A k : InLast(text, k) <=> \A s \in S : s <= k
      /\ \A k : InLast(longer, k) <=> \A s \in L : s <= k
  BY DEF SameLogin, InLast
<1> HIDE DEF n, S, L
<1>5. \A j, k \in 1..n : SameLogin(longer, j, k) <=> SameLogin(text, j, k)
  BY <1>1, <1>2, <1>3, <1>4
<1>6. ASSUME NEW k \in 1..n
      PROVE  /\ SameLogin(longer, k, n + 1) <=> l.says # "prelogin" /\ InLast(text, k)
             /\ SameLogin(longer, n + 1, k) <=> l.says # "prelogin" /\ InLast(text, k)
             /\ InLast(longer, k) <=> l.says # "prelogin" /\ InLast(text, k)
  BY <1>1, <1>2, <1>3, <1>4
<1>7. SameLogin(longer, n + 1, n + 1) /\ InLast(longer, n + 1)
  BY <1>1, <1>2, <1>3, <1>4
<1> QED BY <1>5, <1>6, <1>7 DEF n

\* The lines that name a portal in the last login.
LEMMA NamingNowIs ==
    ASSUME NEW text \in Seq(PortalLine)
    PROVE  /\ NamingNow(text) \in SUBSET (1..Len(text))
           /\ \A k \in NamingNow(text) : text[k].says \in Naming
           /\ \A k \in 1..Len(text) : InLast(text, k) => NamingIn(text, k) = NamingNow(text)
<1>1. \A k \in Lines(text, Naming) : k \in 1..Len(text) /\ text[k].says \in Naming /\ k \in Nat
  BY LinesAre
<1>2. \A s \in Lines(text, {"prelogin"}) : s \in Nat
  BY LinesAre
<1>3. NamingNow(text) \in SUBSET (1..Len(text)) /\ \A k \in NamingNow(text) : text[k].says \in Naming
  BY <1>1 DEF NamingNow
<1>4. ASSUME NEW k \in 1..Len(text), InLast(text, k), NEW x \in Lines(text, Naming)
      PROVE  SameLogin(text, k, x) <=> InLast(text, x)
  <2>1. x \in Nat /\ k \in Nat
    BY <1>1
  <2>2. InLast(text, k) <=> \A s \in Lines(text, {"prelogin"}) : s <= k
    BY DEF InLast
  <2>3. InLast(text, x) <=> \A s \in Lines(text, {"prelogin"}) : s <= x
    BY DEF InLast
  <2>4. SameLogin(text, k, x) <=> \A s \in Lines(text, {"prelogin"}) :
                                     ~(x < s /\ s <= k) /\ ~(k < s /\ s <= x)
    BY DEF SameLogin
  <2>5. ASSUME NEW s \in Lines(text, {"prelogin"})
        PROVE  ~(x < s /\ s <= k) /\ ~(k < s /\ s <= x) <=> s <= x
    BY <1>2, <1>4, <2>1, <2>2
  <2> QED BY <2>3, <2>4, <2>5
<1>5. \A k \in 1..Len(text) : InLast(text, k) => NamingIn(text, k) = NamingNow(text)
  BY <1>4 DEF NamingIn, NamingNow
<1> QED BY <1>3, <1>5

LEMMA NamingMore ==
    ASSUME NEW text, NEW l, NEW longer, More(text, l, longer)
    PROVE  /\ \A k \in 1..Len(text) :
                 /\ NamingIn(longer, k) = NamingIn(text, k)
                       \cup (IF l.says \in Naming /\ InLast(text, k) THEN {Len(text) + 1} ELSE {})
                 /\ NamedBefore(longer, k) = NamedBefore(text, k)
           /\ NamedBefore(longer, Len(text) + 1) = IF l.says = "prelogin" THEN {} ELSE NamingNow(text)
           /\ NamingIn(longer, Len(text) + 1) =
                 (IF l.says = "prelogin" THEN {} ELSE NamingNow(text))
                    \cup (IF l.says \in Naming THEN {Len(text) + 1} ELSE {})
           /\ NamingNow(longer) =
                 (IF l.says = "prelogin" THEN {} ELSE NamingNow(text))
                    \cup (IF l.says \in Naming THEN {Len(text) + 1} ELSE {})
<1> DEFINE n == Len(text)
           S == Lines(text, Naming)
<1>1. n \in Nat /\ \A k \in S : k \in 1..n
  BY Longer, LinesAre DEF More
<1>2. Lines(longer, Naming) = S \cup (IF l.says \in Naming THEN {n + 1} ELSE {})
  BY LinesMore
<1>3. /\ \A j, k \in 1..n : SameLogin(longer, j, k) <=> SameLogin(text, j, k)
      /\ \A k \in 1..n : SameLogin(longer, k, n + 1) <=> l.says # "prelogin" /\ InLast(text, k)
      /\ \A k \in 1..n : SameLogin(longer, n + 1, k) <=> l.says # "prelogin" /\ InLast(text, k)
      /\ SameLogin(longer, n + 1, n + 1)
      /\ \A k \in 1..n : InLast(longer, k) <=> l.says # "prelogin" /\ InLast(text, k)
      /\ InLast(longer, n + 1)
  BY SameLoginMore
<1>4. l.says \in Naming => l.says # "prelogin"
  BY DEF Naming
<1> HIDE DEF n, S
<1>5. ASSUME NEW k \in 1..n
      PROVE  /\ NamingIn(longer, k) = NamingIn(text, k)
                   \cup (IF l.says \in Naming /\ InLast(text, k) THEN {n + 1} ELSE {})
             /\ NamedBefore(longer, k) = NamedBefore(text, k)
  <2>1. NamingIn(longer, k) = NamingIn(text, k)
                   \cup (IF l.says \in Naming /\ InLast(text, k) THEN {n + 1} ELSE {})
    BY <1>1, <1>2, <1>3, <1>4 DEF NamingIn, S
  <2>2. ~(n + 1 < k)
    BY <1>1
  <2>3. NamedBefore(longer, k) = NamedBefore(text, k)
    BY <2>1, <2>2 DEF NamedBefore
  <2> QED BY <2>1, <2>3
<1>6. NamingIn(longer, n + 1) =
         (IF l.says = "prelogin" THEN {} ELSE NamingNow(text))
            \cup (IF l.says \in Naming THEN {n + 1} ELSE {})
  BY <1>1, <1>2, <1>3, <1>4 DEF NamingIn, NamingNow, S
<1>7. NamingNow(longer) =
         (IF l.says = "prelogin" THEN {} ELSE NamingNow(text))
            \cup (IF l.says \in Naming THEN {n + 1} ELSE {})
  BY <1>1, <1>2, <1>3, <1>4 DEF NamingNow, S
<1>8. NamedBefore(longer, n + 1) = IF l.says = "prelogin" THEN {} ELSE NamingNow(text)
  <2>1. \A k \in NamingNow(text) : k < n + 1
    BY <1>1 DEF NamingNow, S
  <2>2. ~(n + 1 < n + 1)
    BY <1>1
  <2> QED BY <1>6, <2>1, <2>2 DEF NamedBefore
<1> QED BY <1>5, <1>6, <1>7, <1>8 DEF n

LEMMA FedLineIs ==
    ASSUME NEW l \in PortalLine
    PROVE  /\ l.says = "fact" => l.field \in Fields /\ l.value # ""
           /\ l.says \in Naming => l.addr # ""
           /\ l.addr \in Value /\ l.value \in Value /\ l.n \in Nat
BY DEF PortalLine, Value

LEMMA FirstIs ==
    ASSUME NEW S \in SUBSET Nat, S # {}
    PROVE  FirstOf(S) \in S /\ \A x \in S : FirstOf(S) <= x
BY LeastNumber DEF FirstOf

LEMMA FirstOfBoth ==
    ASSUME NEW S \in SUBSET Nat, S # {}, NEW y \in Nat, \A x \in S : x < y
    PROVE  FirstOf(S \cup {y}) = FirstOf(S)
<1>1. FirstOf(S) \in S /\ \A x \in S : FirstOf(S) <= x
  BY FirstIs
<1>2. FirstOf(S \cup {y}) \in S \cup {y} /\ \A x \in S \cup {y} : FirstOf(S \cup {y}) <= x
  <2>1. S \cup {y} \in SUBSET Nat /\ S \cup {y} # {}
    OBVIOUS
  <2> QED BY <2>1, FirstIs
<1> DEFINE a == FirstOf(S)
           b == FirstOf(S \cup {y})
<1>3. a \in S /\ b \in S \cup {y} /\ a <= b /\ b <= a /\ a \in Nat /\ b \in Nat
  <2>1. a \in S /\ b \in S \cup {y} /\ a \in Nat /\ b \in Nat
    BY <1>1, <1>2
  <2>2. b <= a
    BY <1>2, <2>1
  <2>3. a <= b
    BY <1>1, <2>1
  <2> QED BY <2>1, <2>2, <2>3
<1> HIDE DEF a, b
<1>4. a = b
  BY <1>3
<1> QED BY <1>4 DEF a, b

\* Where a portal is named it has an address.
LEMMA PlacesInLogin ==
    ASSUME NEW text \in Seq(PortalLine), NEW k
    PROVE  /\ NamingIn(text, k) \in SUBSET (1..Len(text)) /\ NamingIn(text, k) \in SUBSET Nat
           /\ NamedBefore(text, k) \in SUBSET NamingIn(text, k)
           /\ \A d \in NamingIn(text, k) : text[d].says \in Naming /\ text[d].addr # "" /\ d \in Lines(text, Naming)
<1>1. \A d \in Lines(text, Naming) : d \in 1..Len(text) /\ text[d].says \in Naming /\ d \in Nat
  BY LinesAre
<1>2. \A d \in 1..Len(text) : text[d] \in PortalLine
  BY ElementOfSeq
<1>3. \A d \in Lines(text, Naming) : text[d].addr # ""
  BY <1>1, <1>2, FedLineIs
<1> QED BY <1>1, <1>3 DEF NamingIn, NamedBefore

LEMMA PortalAtIs ==
    ASSUME NEW text \in Seq(PortalLine), NEW k
    PROVE  /\ PortalAt(text, k) = {} <=> NamingIn(text, k) = {}
           /\ \A a : PortalAt(text, k) = {a} => a \in NamedBy(text)
<1>1. Len(text) \in Nat
  <2> HIDE DEF PortalLine
  <2> QED OBVIOUS
<1>2. /\ NamingIn(text, k) \in SUBSET (1..Len(text)) /\ NamingIn(text, k) \in SUBSET Nat
      /\ NamedBefore(text, k) \in SUBSET NamingIn(text, k)
      /\ \A d \in NamingIn(text, k) : d \in Lines(text, Naming)
  BY PlacesInLogin
<1>3. NamedBefore(text, k) # {} => LastOf(NamedBefore(text, k)) \in NamedBefore(text, k)
  <2>1. NamedBefore(text, k) \in SUBSET (1..Len(text))
    BY <1>2
  <2> QED BY <1>1, <2>1, LastIs
<1>4. NamingIn(text, k) # {} => FirstOf(NamingIn(text, k)) \in NamingIn(text, k)
  BY <1>2, FirstIs
<1>5. PortalAt(text, k) = {} <=> NamingIn(text, k) = {}
  BY <1>2 DEF PortalAt
<1>6. ASSUME NEW a, PortalAt(text, k) = {a}
      PROVE  a \in NamedBy(text)
  <2>1. CASE NamedBefore(text, k) # {}
    <3>1. a = text[LastOf(NamedBefore(text, k))].addr
      BY <1>6, <2>1 DEF PortalAt
    <3> QED BY <3>1, <2>1, <1>2, <1>3 DEF NamedBy
  <2>2. CASE NamedBefore(text, k) = {} /\ NamingIn(text, k) # {}
    <3>1. a = text[FirstOf(NamingIn(text, k))].addr
      BY <1>6, <2>2 DEF PortalAt
    <3> QED BY <3>1, <2>2, <1>2, <1>4 DEF NamedBy
  <2>3. CASE NamedBefore(text, k) = {} /\ NamingIn(text, k) = {}
    BY <1>6, <2>3 DEF PortalAt
  <2> QED BY <2>1, <2>2, <2>3
<1> QED BY <1>5, <1>6

LEMMA PortalAtMore ==
    ASSUME NEW text, NEW l, NEW longer, More(text, l, longer)
    PROVE  /\ \A k \in 1..Len(text) :
                 PortalAt(longer, k) =
                    IF PortalAt(text, k) = {} /\ l.says \in Naming /\ InLast(text, k) THEN {l.addr}
                    ELSE PortalAt(text, k)
           /\ l.says \notin Naming /\ l.says # "prelogin" =>
                 PortalAt(longer, Len(text) + 1) =
                    IF NamingNow(text) = {} THEN {} ELSE {text[LastOf(NamingNow(text))].addr}
<1> DEFINE n == Len(text)
<1>0. text \in Seq(PortalLine)
  BY DEF More
<1>1. n \in Nat /\ (\A k \in 1..n : longer[k] = text[k]) /\ longer[n + 1] = l
  BY Longer
<1>2. ASSUME NEW k \in 1..n
      PROVE  PortalAt(longer, k) =
                    IF PortalAt(text, k) = {} /\ l.says \in Naming /\ InLast(text, k) THEN {l.addr}
                    ELSE PortalAt(text, k)
  <2> DEFINE A == NamingIn(text, k)
             B == NamedBefore(text, k)
             A2 == NamingIn(longer, k)
  <2>1. /\ A \in SUBSET (1..n) /\ A \in SUBSET Nat /\ B \in SUBSET A
        /\ PortalAt(text, k) = {} <=> A = {}
    BY <1>0, PlacesInLogin, PortalAtIs
  <2>2. /\ A2 = A \cup (IF l.says \in Naming /\ InLast(text, k) THEN {n + 1} ELSE {})
        /\ NamedBefore(longer, k) = B
    BY NamingMore
  <2>3. PortalAt(text, k) = IF B # {} THEN {text[LastOf(B)].addr}
                            ELSE IF A # {} THEN {text[FirstOf(A)].addr} ELSE {}
    BY DEF PortalAt
  <2>4. PortalAt(longer, k) = IF B # {} THEN {longer[LastOf(B)].addr}
                              ELSE IF A2 # {} THEN {longer[FirstOf(A2)].addr} ELSE {}
    BY <2>2 DEF PortalAt
  <2> HIDE DEF A, B, A2, n
  <2>5. B # {} => LastOf(B) \in 1..n
    BY <1>1, <2>1, LastIs
  <2>6. A # {} => FirstOf(A) \in 1..n
    BY <2>1, FirstIs
  <2>7. A # {} => FirstOf(A2) = FirstOf(A)
    <3>1. n + 1 \in Nat /\ \A x \in A : x < n + 1
      BY <1>1, <2>1
    <3> QED BY <2>1, <2>2, <3>1, FirstOfBoth
  <2>8. FirstOf({n + 1}) = n + 1
    BY DEF FirstOf
  <2>9. CASE B # {}
    BY <1>1, <2>1, <2>3, <2>4, <2>5, <2>9
  <2>10. CASE B = {} /\ A # {}
    BY <1>1, <2>1, <2>2, <2>3, <2>4, <2>6, <2>7, <2>10
  <2>11. CASE B = {} /\ A = {}
    <3>1. CASE l.says \in Naming /\ InLast(text, k)
      <4>1. A2 = {n + 1}
        BY <2>2, <2>11, <3>1
      <4> QED BY <1>1, <2>1, <2>4, <2>8, <2>11, <3>1, <4>1
    <3>2. CASE ~(l.says \in Naming /\ InLast(text, k))
      BY <2>1, <2>2, <2>3, <2>4, <2>11, <3>2
    <3> QED BY <3>1, <3>2
  <2> QED BY <2>9, <2>10, <2>11
<1>3. ASSUME l.says \notin Naming, l.says # "prelogin"
      PROVE  PortalAt(longer, n + 1) =
                IF NamingNow(text) = {} THEN {} ELSE {text[LastOf(NamingNow(text))].addr}
  <2>1. NamedBefore(longer, n + 1) = NamingNow(text) /\ NamingIn(longer, n + 1) = NamingNow(text)
    BY <1>3, NamingMore
  <2>2. NamingNow(text) # {} => LastOf(NamingNow(text)) \in 1..n
    <3>1. NamingNow(text) \in SUBSET (1..n)
      BY <1>0, NamingNowIs
    <3> HIDE DEF n
    <3> QED BY <3>1, <1>1, LastIs
  <2> HIDE DEF n
  <2> QED BY <1>1, <2>1, <2>2 DEF PortalAt
<1> QED BY <1>2, <1>3

\* What is said of a portal, and what is held, as the text grows.
LEMMA SaidMore ==
    ASSUME NEW text, NEW l, NEW longer, More(text, l, longer), NEW f
    PROVE  /\ \A a : SaidOf(longer, a, f) =
                 SaidOf(text, a, f)
                   \cup (IF l.says \in Naming /\ a = l.addr THEN HeldOf(text, f) ELSE {})
                   \cup (IF l.says = "fact" /\ l.field = f /\ NamingNow(text) # {}
                            /\ a = text[LastOf(NamingNow(text))].addr THEN {Len(text) + 1} ELSE {})
           /\ HeldOf(longer, f) =
                 IF l.says = "prelogin" \/ l.says \in Naming THEN {}
                 ELSE HeldOf(text, f)
                   \cup (IF l.says = "fact" /\ l.field = f /\ NamingNow(text) = {} THEN {Len(text) + 1} ELSE {})
<1> DEFINE n == Len(text)
           S == Lines(text, {"fact"})
           N == NamingNow(text)
           q == text[LastOf(N)].addr
<1>0. text \in Seq(PortalLine)
  BY DEF More
<1>1. n \in Nat /\ (\A k \in 1..n : longer[k] = text[k]) /\ longer[n + 1] = l
  BY Longer
<1>2. Lines(longer, {"fact"}) = S \cup (IF l.says = "fact" THEN {n + 1} ELSE {})
  BY LinesMore
<1>3. \A k \in S : k \in 1..n
  BY <1>0, LinesAre
<1>4. /\ \A k \in 1..n :
           PortalAt(longer, k) =
              IF PortalAt(text, k) = {} /\ l.says \in Naming /\ InLast(text, k) THEN {l.addr}
              ELSE PortalAt(text, k)
      /\ l.says = "fact" => PortalAt(longer, n + 1) = IF N = {} THEN {} ELSE {q}
  <2>1. /\ \A k \in 1..n :
             PortalAt(longer, k) =
                IF PortalAt(text, k) = {} /\ l.says \in Naming /\ InLast(text, k) THEN {l.addr}
                ELSE PortalAt(text, k)
        /\ l.says \notin Naming /\ l.says # "prelogin" =>
              PortalAt(longer, n + 1) = IF N = {} THEN {} ELSE {q}
    BY PortalAtMore
  <2>2. l.says = "fact" => l.says \notin Naming /\ l.says # "prelogin"
    BY DEF Naming
  <2> HIDE DEF n, N, q
  <2> QED BY <2>1, <2>2
<1>5. \A k \in 1..n : InLast(text, k) => (PortalAt(text, k) = {} <=> N = {})
  BY <1>0, PortalAtIs, NamingNowIs
<1>6. /\ NamingNow(longer) = (IF l.says = "prelogin" THEN {} ELSE N)
                                \cup (IF l.says \in Naming THEN {n + 1} ELSE {})
      /\ \A k \in 1..n : InLast(longer, k) <=> l.says # "prelogin" /\ InLast(text, k)
      /\ InLast(longer, n + 1)
  BY NamingMore, SameLoginMore
<1>7. l.says \in Naming => l.says # "prelogin" /\ l.says # "fact"
  BY DEF Naming
<1>8. n + 1 \notin 1..n
  BY <1>1
<1>9. HeldOf(text, f) = IF N # {} THEN {} ELSE {k \in S : text[k].field = f /\ InLast(text, k)}
  BY DEF HeldOf
<1>10. HeldOf(longer, f) =
         IF NamingNow(longer) # {} THEN {}
         ELSE {k \in Lines(longer, {"fact"}) : longer[k].field = f /\ InLast(longer, k)}
  BY DEF HeldOf
<1> HIDE DEF n, S, N, q
<1>11. ASSUME NEW a
       PROVE  SaidOf(longer, a, f) =
                 SaidOf(text, a, f)
                   \cup (IF l.says \in Naming /\ a = l.addr THEN HeldOf(text, f) ELSE {})
                   \cup (IF l.says = "fact" /\ l.field = f /\ N # {} /\ a = q THEN {n + 1} ELSE {})
  <2>1. SaidOf(text, a, f) = {k \in S : text[k].field = f /\ PortalAt(text, k) = {a}}
    BY DEF SaidOf, S
  <2>2. SaidOf(longer, a, f) =
          {k \in S : text[k].field = f /\ PortalAt(longer, k) = {a}}
            \cup (IF l.says = "fact" /\ l.field = f /\ PortalAt(longer, n + 1) = {a}
                  THEN {n + 1} ELSE {})
    BY <1>1, <1>2, <1>3 DEF SaidOf
  <2>3. {k \in S : text[k].field = f /\ PortalAt(longer, k) = {a}} =
          SaidOf(text, a, f) \cup (IF l.says \in Naming /\ a = l.addr THEN HeldOf(text, f) ELSE {})
    <3>1. ASSUME NEW k \in S
          PROVE  (text[k].field = f /\ PortalAt(longer, k) = {a}) <=>
                   \/ text[k].field = f /\ PortalAt(text, k) = {a}
                   \/ l.says \in Naming /\ a = l.addr /\ k \in HeldOf(text, f)
      <4>1. k \in 1..n
        BY <1>3
      <4>2. PortalAt(longer, k) = IF PortalAt(text, k) = {} /\ l.says \in Naming /\ InLast(text, k)
                                  THEN {l.addr} ELSE PortalAt(text, k)
        BY <1>4, <4>1
      <4>3. k \in HeldOf(text, f) <=> text[k].field = f /\ InLast(text, k) /\ N = {}
        BY <1>9
      <4>4. InLast(text, k) => (PortalAt(text, k) = {} <=> N = {})
        BY <1>5, <4>1
      <4> QED BY <4>2, <4>3, <4>4
    <3>2. HeldOf(text, f) \in SUBSET S
      BY <1>9
    <3> QED BY <2>1, <3>1, <3>2
  <2>4. l.says = "fact" => (PortalAt(longer, n + 1) = {a} <=> N # {} /\ a = q)
    BY <1>4
  <2> QED BY <2>2, <2>3, <2>4
<1>12. HeldOf(longer, f) =
                 IF l.says = "prelogin" \/ l.says \in Naming THEN {}
                 ELSE HeldOf(text, f) \cup (IF l.says = "fact" /\ l.field = f /\ N = {} THEN {n + 1} ELSE {})
  <2>1. CASE l.says \in Naming
    BY <1>6, <1>10, <2>1
  <2>2. CASE l.says = "prelogin"
    <3>1. \A k \in Lines(longer, {"fact"}) : k \in 1..n
      BY <1>2, <1>3, <2>2
    <3>2. \A k \in Lines(longer, {"fact"}) : ~InLast(longer, k)
      BY <3>1, <1>6, <2>2
    <3> QED BY <1>10, <2>2, <3>2
  <2>3. CASE l.says \notin Naming /\ l.says # "prelogin"
    <3>1. NamingNow(longer) = N
      BY <1>6, <2>3
    <3>4. ASSUME NEW k \in 1..n
          PROVE  InLast(longer, k) <=> InLast(text, k)
      <4>1. InLast(longer, k) <=> l.says # "prelogin" /\ InLast(text, k)
        BY <1>6
      <4> QED BY <2>3, <4>1
    <3>2. CASE N # {}
      BY <1>9, <1>10, <2>3, <3>1, <3>2
    <3>3. CASE N = {}
      <4>1. {k \in Lines(longer, {"fact"}) : longer[k].field = f /\ InLast(longer, k)} =
              {k \in S : text[k].field = f /\ InLast(text, k)}
                 \cup (IF l.says = "fact" /\ l.field = f THEN {n + 1} ELSE {})
        <5>1. \A k \in S : (longer[k].field = f /\ InLast(longer, k)) <=> (text[k].field = f /\ InLast(text, k))
          BY <1>1, <1>3, <3>4
        <5>2. InLast(longer, n + 1)
          BY <1>6
        <5>3. longer[n + 1].field = l.field
          BY <1>1
        <5> QED BY <1>2, <5>1, <5>2, <5>3
      <4> QED BY <1>9, <1>10, <2>3, <3>1, <3>3, <4>1
    <3> QED BY <3>2, <3>3
  <2> QED BY <2>1, <2>2, <2>3
<1> QED BY <1>11, <1>12 DEF n, N, q

LEMMA SaidAfter ==
    ASSUME NEW text, NEW l, NEW longer, More(text, l, longer), NEW f
    PROVE  /\ l.says \notin Naming /\ l.says # "fact" =>
                 /\ \A a : SaidOf(longer, a, f) = SaidOf(text, a, f)
                 /\ l.says # "prelogin" => HeldOf(longer, f) = HeldOf(text, f)
                 /\ l.says = "prelogin" => HeldOf(longer, f) = {}
           /\ l.says = "fact" =>
                 /\ \A a : l.field # f \/ NamingNow(text) = {} \/ a # text[LastOf(NamingNow(text))].addr
                              => SaidOf(longer, a, f) = SaidOf(text, a, f)
                 /\ \A a : l.field = f /\ NamingNow(text) # {} /\ a = text[LastOf(NamingNow(text))].addr
                              => SaidOf(longer, a, f) = SaidOf(text, a, f) \cup {Len(text) + 1}
                 /\ l.field # f \/ NamingNow(text) # {} => HeldOf(longer, f) = HeldOf(text, f)
                 /\ l.field = f /\ NamingNow(text) = {} =>
                       HeldOf(longer, f) = HeldOf(text, f) \cup {Len(text) + 1}
           /\ l.says \in Naming =>
                 /\ \A a : a # l.addr => SaidOf(longer, a, f) = SaidOf(text, a, f)
                 /\ SaidOf(longer, l.addr, f) = SaidOf(text, l.addr, f) \cup HeldOf(text, f)
                 /\ HeldOf(longer, f) = {}
<1> DEFINE x == Len(text) + 1
           N == NamingNow(text)
           q == text[LastOf(N)].addr
           u == l.says \in Naming
           v == l.says = "fact"
           w == l.says = "prelogin"
<1>1. \A a : SaidOf(longer, a, f) =
                SaidOf(text, a, f) \cup (IF u /\ a = l.addr THEN HeldOf(text, f) ELSE {})
                   \cup (IF v /\ l.field = f /\ N # {} /\ a = q THEN {x} ELSE {})
  BY SaidMore
<1>2. HeldOf(longer, f) =
        IF w \/ u THEN {}
        ELSE HeldOf(text, f) \cup (IF v /\ l.field = f /\ N = {} THEN {x} ELSE {})
  BY SaidMore
<1>3. u => ~v /\ ~w
  BY DEF Naming
<1>4. v => ~w
  OBVIOUS
<1> HIDE DEF x, N, q, u, v, w
<1>5. ~u /\ ~v => \A a : SaidOf(longer, a, f) = SaidOf(text, a, f)
  BY <1>1
<1>6. ~u /\ ~v => /\ ~w => HeldOf(longer, f) = HeldOf(text, f)
                  /\ w => HeldOf(longer, f) = {}
  BY <1>2
<1>7. v => /\ \A a : l.field # f \/ N = {} \/ a # q => SaidOf(longer, a, f) = SaidOf(text, a, f)
           /\ \A a : l.field = f /\ N # {} /\ a = q =>
                        SaidOf(longer, a, f) = SaidOf(text, a, f) \cup {x}
  BY <1>1, <1>3
<1>8. v => /\ l.field # f \/ N # {} => HeldOf(longer, f) = HeldOf(text, f)
           /\ l.field = f /\ N = {} => HeldOf(longer, f) = HeldOf(text, f) \cup {x}
  BY <1>2, <1>3, <1>4
<1>9. u => /\ \A a : a # l.addr => SaidOf(longer, a, f) = SaidOf(text, a, f)
           /\ SaidOf(longer, l.addr, f) = SaidOf(text, l.addr, f) \cup HeldOf(text, f)
  BY <1>1, <1>3
<1>10. u => HeldOf(longer, f) = {}
  BY <1>2
<1> QED BY <1>5, <1>6, <1>7, <1>8, <1>9, <1>10 DEF x, N, q, u, v, w

LEMMA SaidAfterFact ==
    ASSUME NEW text, NEW l, NEW longer, More(text, l, longer), NEW a, NEW f, l.says = "fact",
           NamingNow(text) # {}, NEW now, now = text[LastOf(NamingNow(text))].addr
    PROVE  /\ l.field # f \/ a # now => SaidOf(longer, a, f) = SaidOf(text, a, f)
           /\ l.field = f /\ a = now =>
                 SaidOf(longer, a, f) = SaidOf(text, a, f) \cup {Len(text) + 1}
<1> DEFINE x == Len(text) + 1
           N == NamingNow(text)
           u == l.says \in Naming
           v == l.says = "fact"
           q == text[LastOf(N)].addr
<1>1. SaidOf(longer, a, f) =
                SaidOf(text, a, f) \cup (IF u /\ a = l.addr THEN HeldOf(text, f) ELSE {})
                   \cup (IF v /\ l.field = f /\ N # {} /\ a = q THEN {x} ELSE {})
  BY SaidMore
<1>2. ~u /\ v /\ N # {} /\ now = q
  BY DEF Naming
<1> HIDE DEF x, N, q, u, v
<1>3. /\ l.field # f \/ a # now => SaidOf(longer, a, f) = SaidOf(text, a, f)
      /\ l.field = f /\ a = now => SaidOf(longer, a, f) = SaidOf(text, a, f) \cup {x}
  BY <1>1, <1>2
<1> QED BY <1>3 DEF x

LEMMA SaidAfterNaming ==
    ASSUME NEW text, NEW l, NEW longer, More(text, l, longer), NEW a, NEW f, l.says \in Naming
    PROVE  /\ a # l.addr => SaidOf(longer, a, f) = SaidOf(text, a, f)
           /\ a = l.addr => SaidOf(longer, a, f) = SaidOf(text, a, f) \cup HeldOf(text, f)
<1> DEFINE x == Len(text) + 1
           N == NamingNow(text)
           u == l.says \in Naming
           v == l.says = "fact"
           q == text[LastOf(N)].addr
<1>1. SaidOf(longer, a, f) =
                SaidOf(text, a, f) \cup (IF u /\ a = l.addr THEN HeldOf(text, f) ELSE {})
                   \cup (IF v /\ l.field = f /\ N # {} /\ a = q THEN {x} ELSE {})
  BY SaidMore
<1>2. u /\ ~v
  BY DEF Naming
<1> HIDE DEF x, N, q, u, v
<1> QED BY <1>1, <1>2

LEMMA SaidPlaces ==
    ASSUME NEW text \in Seq(PortalLine), NEW f
    PROVE  /\ HeldOf(text, f) \in SUBSET (1..Len(text))
           /\ \A a : SaidOf(text, a, f) \in SUBSET (1..Len(text))
           /\ \A a : \A j \in SaidOf(text, a, f) : \A k \in HeldOf(text, f) : j <= k
<1>1. \A k \in Lines(text, {"fact"}) : k \in 1..Len(text) /\ k \in Nat
  BY LinesAre
<1>2. /\ HeldOf(text, f) \in SUBSET (1..Len(text))
      /\ \A a : SaidOf(text, a, f) \in SUBSET (1..Len(text))
  BY <1>1 DEF HeldOf, SaidOf
<1>3. ASSUME NEW a, NEW j \in SaidOf(text, a, f), NEW k \in HeldOf(text, f)
      PROVE  j <= k
  <2>1. NamingNow(text) = {} /\ InLast(text, k) /\ k \in Nat
    BY <1>1 DEF HeldOf
  <2>2. PortalAt(text, j) = {a} /\ j \in 1..Len(text)
    BY <1>1 DEF SaidOf
  <2>3. ~InLast(text, j)
    BY <2>1, <2>2, NamingNowIs, PortalAtIs
  <2>4. PICK s \in Lines(text, {"prelogin"}) : ~(s <= j)
    BY <2>3 DEF InLast
  <2>5. s <= k /\ s \in Nat
    BY <2>1, LinesAre DEF InLast
  <2> QED BY <2>1, <2>2, <2>4, <2>5
<1> QED BY <1>2, <1>3

----------------------------------------------------------------------------
(* What was said last.                                                     *)

LEMMA SaidSame ==
    ASSUME NEW text, NEW l, NEW longer, More(text, l, longer), NEW S \in SUBSET (1..Len(text)),
           NEW f, NEW v
    PROVE  SaidLast(longer, S, f, v) <=> SaidLast(text, S, f, v)
<1>1. Len(text) \in Nat /\ \A k \in 1..Len(text) : longer[k] = text[k]
  BY Longer
<1>2. \A k \in S : longer[k] = text[k]
  BY <1>1
<1>3. S # {} => LastOf(S) \in S
  BY <1>1, LastIs
<1>4. {longer[k].value : k \in S} = {text[k].value : k \in S}
  BY <1>2
<1>5. S # {} => longer[LastOf(S)] = text[LastOf(S)]
  BY <1>2, <1>3
<1> QED BY <1>4, <1>5 DEF SaidLast

LEMMA SaidJoin ==
    ASSUME NEW text, NEW n \in Nat, NEW S \in SUBSET (1..n), NEW T \in SUBSET (1..n), T # {},
           \A j \in S : \A k \in T : j <= k, NEW f, NEW v, SaidLast(text, T, f, v)
    PROVE  SaidLast(text, S \cup T, f, v)
<1>1. LastOf(S \cup T) = LastOf(T)
  BY LastOfBoth
<1>2. {text[k].value : k \in T} \in SUBSET {text[k].value : k \in S \cup T}
  OBVIOUS
<1> QED BY <1>1, <1>2 DEF SaidLast

\* What a fact makes of the value before it.
Told(f, v, l) == IF f = "auth" /\ v # "" /\ l.value = "credentials" THEN v ELSE l.value

LEMMA SaidFact ==
    ASSUME NEW text, NEW l, NEW longer, More(text, l, longer), NEW S \in SUBSET (1..Len(text)),
           NEW f, NEW v, SaidLast(text, S, f, v)
    PROVE  SaidLast(longer, S \cup {Len(text) + 1}, f, Told(f, v, l))
<1> DEFINE m == Len(text) + 1
           T == S \cup {m}
<1>1. Len(text) \in Nat /\ (\A k \in 1..Len(text) : longer[k] = text[k]) /\ longer[m] = l
  BY Longer
<1>2. LastOf(T) = m
  <2>1. m \in Nat /\ T \in SUBSET (1..m) /\ m \in T /\ \A k \in T : k <= m
    <3>1. m \in Nat
      BY <1>1
    <3>2. \A k \in S : k \in 1..m /\ k <= m
      BY <1>1
    <3>3. m \in 1..m
      BY <1>1
    <3> HIDE DEF m
    <3> QED BY <3>1, <3>2, <3>3
  <2> HIDE DEF m, T
  <2> QED BY <2>1, LastOfIs
<1>3. \A k \in S : text[k].value \in {longer[j].value : j \in T}
  <2>1. \A k \in S : k \in T /\ longer[k] = text[k]
    BY <1>1
  <2> HIDE DEF T, m
  <2> QED BY <2>1
<1>4. S # {} => LastOf(S) \in S
  BY <1>1, LastIs
<1>5. v # "" => v \in {longer[j].value : j \in T}
  <2>1. v # "" => S # {} /\ v \in {text[k].value : k \in S}
    BY <1>4 DEF SaidLast
  <2> HIDE DEF T, m
  <2> QED BY <2>1, <1>3
<1>6. T # {} /\ longer[LastOf(T)].value = l.value
  BY <1>1, <1>2
<1> HIDE DEF T, m
<1>7. SaidLast(longer, T, f, Told(f, v, l))
  BY <1>5, <1>6 DEF SaidLast, Told
<1> QED BY <1>7 DEF T, m

LEMMA SetFactIs ==
    ASSUME NEW facts \in [Fields -> Value], NEW l \in PortalLine, l.says = "fact"
    PROVE  /\ SetFact(facts, l.field, l.value) \in [Fields -> Value]
           /\ \A f \in Fields : SetFact(facts, l.field, l.value)[f] =
                                  IF f = l.field THEN Told(f, facts[f], l) ELSE facts[f]
<1>1. l.field \in Fields /\ l.value \in Value
  BY FedLineIs
<1>2. "auth" \in Fields
  BY DEF Fields
<1>3. facts.auth = facts["auth"]
  OBVIOUS
<1> QED BY <1>1, <1>2, <1>3 DEF SetFact, Told

----------------------------------------------------------------------------
(* What is known of the portals after one line more.                       *)

SameFacts(ps, qs) == DOMAIN qs = DOMAIN ps /\ \A a \in DOMAIN ps : qs[a].facts = ps[a].facts

LEMMA SayNothing ==
    ASSUME NEW text, NEW l, NEW longer, More(text, l, longer), l.says \notin Naming, l.says # "fact",
           NEW ps, NEW qs, SameFacts(ps, qs), NEW held,
           FactsAre(text, ps), PendingIs(text, held)
    PROVE  /\ FactsAre(longer, qs)
           /\ PendingIs(longer, IF l.says = "prelogin" THEN NoFacts ELSE held)
<1>0. text \in Seq(PortalLine)
  BY DEF More
<1>1. ASSUME NEW f
      PROVE  \A a : SaidOf(longer, a, f) = SaidOf(text, a, f)
  BY SaidAfter
<1>2. ASSUME NEW f
      PROVE  /\ l.says # "prelogin" => HeldOf(longer, f) = HeldOf(text, f)
             /\ l.says = "prelogin" => HeldOf(longer, f) = {}
  BY SaidAfter
<1>3. ASSUME NEW a \in DOMAIN qs
      PROVE  FactsOfOwnLogin(longer, a, qs[a].facts)
  <2>1. a \in DOMAIN ps /\ qs[a].facts = ps[a].facts
    BY DEF SameFacts
  <2>2. \A f \in Fields : SaidLast(text, SaidOf(text, a, f), f, ps[a].facts[f])
    BY <2>1 DEF FactsAre, FactsOfOwnLogin
  <2>3. \A f : SaidOf(text, a, f) \in SUBSET (1..Len(text))
    BY <1>0, SaidPlaces
  <2>4. \A f \in Fields : SaidLast(longer, SaidOf(text, a, f), f, ps[a].facts[f])
    BY <2>2, <2>3, SaidSame
  <2> QED BY <1>1, <2>1, <2>4 DEF FactsOfOwnLogin
<1>4. ASSUME NEW f \in Fields
      PROVE  SaidLast(longer, HeldOf(longer, f), f, (IF l.says = "prelogin" THEN NoFacts ELSE held)[f])
  <2>1. CASE l.says = "prelogin"
    <3>1. HeldOf(longer, f) = {}
      BY <1>2, <2>1
    <3> QED BY <2>1, <3>1 DEF SaidLast, NoFacts
  <2>2. CASE l.says # "prelogin"
    <3>1. HeldOf(longer, f) = HeldOf(text, f) /\ HeldOf(text, f) \in SUBSET (1..Len(text))
      BY <1>0, <1>2, <2>2, SaidPlaces
    <3>2. SaidLast(text, HeldOf(text, f), f, held[f])
      BY DEF PendingIs
    <3>3. SaidLast(longer, HeldOf(text, f), f, held[f])
      BY <3>1, <3>2, SaidSame
    <3> QED BY <2>2, <3>1, <3>3
  <2> QED BY <2>1, <2>2
<1> QED BY <1>3, <1>4 DEF FactsAre, PendingIs

\* A fact of a portal that was not named yet is held.
LEMMA FactHeld ==
    ASSUME NEW text, NEW l, NEW longer, More(text, l, longer), l.says = "fact",
           NamingNow(text) = {},
           NEW ps, NEW held \in [Fields -> Value], FactsAre(text, ps), PendingIs(text, held)
    PROVE  /\ FactsAre(longer, ps)
           /\ PendingIs(longer, SetFact(held, l.field, l.value))
<1>0. text \in Seq(PortalLine) /\ l \in PortalLine /\ l.says \notin Naming /\ l.says # "prelogin"
  BY DEF More, Naming
<1>1. ASSUME NEW f
      PROVE  \A a : SaidOf(longer, a, f) = SaidOf(text, a, f)
  BY <1>0, SaidAfter
<1>2. ASSUME NEW f
      PROVE  /\ l.field # f => HeldOf(longer, f) = HeldOf(text, f)
             /\ l.field = f => HeldOf(longer, f) = HeldOf(text, f) \cup {Len(text) + 1}
  BY <1>0, SaidAfter
<1>3. ASSUME NEW a \in DOMAIN ps
      PROVE  FactsOfOwnLogin(longer, a, ps[a].facts)
  <2>2. \A f \in Fields : SaidLast(text, SaidOf(text, a, f), f, ps[a].facts[f])
    BY DEF FactsAre, FactsOfOwnLogin
  <2>3. \A f : SaidOf(text, a, f) \in SUBSET (1..Len(text))
    BY <1>0, SaidPlaces
  <2>4. \A f \in Fields : SaidLast(longer, SaidOf(text, a, f), f, ps[a].facts[f])
    BY <2>2, <2>3, SaidSame
  <2> QED BY <1>1, <2>4 DEF FactsOfOwnLogin
<1>4. ASSUME NEW f \in Fields
      PROVE  SaidLast(longer, HeldOf(longer, f), f, SetFact(held, l.field, l.value)[f])
  <2>1. SetFact(held, l.field, l.value)[f] = IF f = l.field THEN Told(f, held[f], l) ELSE held[f]
    BY <1>0, SetFactIs
  <2>2. SaidLast(text, HeldOf(text, f), f, held[f]) /\ HeldOf(text, f) \in SUBSET (1..Len(text))
    BY <1>0, SaidPlaces DEF PendingIs
  <2>3. CASE f = l.field
    <3>1. SaidLast(longer, HeldOf(text, f) \cup {Len(text) + 1}, f, Told(f, held[f], l))
      BY <2>2, SaidFact
    <3> QED BY <1>2, <2>1, <2>3, <3>1
  <2>4. CASE f # l.field
    <3>1. SaidLast(longer, HeldOf(text, f), f, held[f]) /\ HeldOf(longer, f) = HeldOf(text, f)
      BY <1>2, <2>2, <2>4, SaidSame
    <3> QED BY <2>1, <2>4, <3>1
  <2> QED BY <2>3, <2>4
<1> QED BY <1>3, <1>4 DEF FactsAre, PendingIs

\* A fact of the current portal.
TellsOf(ps, qs, now, l) ==
    /\ now \in DOMAIN ps /\ ps[now].facts \in [Fields -> Value] /\ DOMAIN qs = DOMAIN ps
    /\ qs[now].facts = SetFact(ps[now].facts, l.field, l.value)
    /\ \A a \in DOMAIN ps : a # now => qs[a].facts = ps[a].facts
NamedNow(text, now) == NamingNow(text) # {} /\ now = text[LastOf(NamingNow(text))].addr

LEMMA FactTold ==
    ASSUME NEW text, NEW l, NEW longer, More(text, l, longer), l.says = "fact",
           NEW now, NamedNow(text, now),
           NEW ps, NEW qs, NEW held, FactsAre(text, ps), PendingIs(text, held),
           TellsOf(ps, qs, now, l)
    PROVE  FactsAre(longer, qs) /\ PendingIs(longer, held)
<1>5. /\ now \in DOMAIN ps /\ ps[now].facts \in [Fields -> Value] /\ DOMAIN qs = DOMAIN ps
      /\ qs[now].facts = SetFact(ps[now].facts, l.field, l.value)
      /\ \A a \in DOMAIN ps : a # now => qs[a].facts = ps[a].facts
  BY DEF TellsOf
<1>6. NamingNow(text) # {} /\ now = text[LastOf(NamingNow(text))].addr
  BY DEF NamedNow
<1>0. text \in Seq(PortalLine) /\ l \in PortalLine /\ l.says \notin Naming /\ l.says # "prelogin"
  BY DEF More, Naming
<1>1. ASSUME NEW a, NEW f
      PROVE  /\ l.field # f \/ a # now => SaidOf(longer, a, f) = SaidOf(text, a, f)
             /\ l.field = f /\ a = now =>
                   SaidOf(longer, a, f) = SaidOf(text, a, f) \cup {Len(text) + 1}
  BY <1>6, SaidAfterFact
<1>2. ASSUME NEW f
      PROVE  HeldOf(longer, f) = HeldOf(text, f)
  BY <1>0, <1>6, SaidAfter
<1>3. ASSUME NEW a \in DOMAIN qs, NEW f \in Fields
      PROVE  SaidLast(longer, SaidOf(longer, a, f), f, qs[a].facts[f])
  <2>1. SaidLast(text, SaidOf(text, a, f), f, ps[a].facts[f])
        /\ SaidOf(text, a, f) \in SUBSET (1..Len(text))
    BY <1>0, <1>5, SaidPlaces DEF FactsAre, FactsOfOwnLogin
  <2>2. SetFact(ps[now].facts, l.field, l.value)[f] =
          IF f = l.field THEN Told(f, ps[now].facts[f], l) ELSE ps[now].facts[f]
    BY <1>0, <1>5, SetFactIs
  <2>3. CASE a = now /\ f = l.field
    <3>1. SaidLast(longer, SaidOf(text, a, f) \cup {Len(text) + 1}, f, Told(f, ps[a].facts[f], l))
      BY <2>1, SaidFact
    <3> QED BY <1>1, <1>5, <2>2, <2>3, <3>1
  <2>4. CASE ~(a = now /\ f = l.field)
    <3>1. SaidLast(longer, SaidOf(text, a, f), f, ps[a].facts[f])
      BY <2>1, SaidSame
    <3>3. SaidOf(longer, a, f) = SaidOf(text, a, f)
      BY <1>1, <2>4
    <3>2. qs[a].facts[f] = ps[a].facts[f]
      BY <1>5, <2>2, <2>4
    <3> QED BY <3>1, <3>2, <3>3
  <2> QED BY <2>3, <2>4
<1>4. ASSUME NEW f \in Fields
      PROVE  SaidLast(longer, HeldOf(longer, f), f, held[f])
  <2>1. SaidLast(text, HeldOf(text, f), f, held[f]) /\ HeldOf(text, f) \in SUBSET (1..Len(text))
    BY <1>0, SaidPlaces DEF PendingIs
  <2>2. SaidLast(longer, HeldOf(text, f), f, held[f])
    BY <2>1, SaidSame
  <2> QED BY <1>2, <2>2
<1> QED BY <1>3, <1>4 DEF FactsAre, FactsOfOwnLogin, PendingIs

\* What was held is the portal's that is named.
TakesHeld(ps, qs, held, addr) ==
    /\ DOMAIN qs = DOMAIN ps \cup {addr}
    /\ \A a \in DOMAIN ps : a # addr => qs[a].facts = ps[a].facts
    /\ \A f \in Fields :
          qs[addr].facts[f] = IF held[f] # "" THEN held[f]
                              ELSE IF addr \in DOMAIN ps THEN ps[addr].facts[f] ELSE ""

LEMMA FactsNamed ==
    ASSUME NEW text, NEW l, NEW longer, More(text, l, longer), l.says \in Naming,
           NEW ps, NEW qs, NEW held, FactsAre(text, ps), PendingIs(text, held),
           DOMAIN ps = NamedBy(text), TakesHeld(ps, qs, held, l.addr)
    PROVE  FactsAre(longer, qs) /\ PendingIs(longer, NoFacts)
<1>0. text \in Seq(PortalLine) /\ l \in PortalLine /\ l.says # "fact"
  BY DEF More, Naming
<1>1. ASSUME NEW a, NEW f
      PROVE  /\ a # l.addr => SaidOf(longer, a, f) = SaidOf(text, a, f)
             /\ a = l.addr => SaidOf(longer, a, f) = SaidOf(text, a, f) \cup HeldOf(text, f)
  <2>1. a # l.addr => SaidOf(longer, a, f) = SaidOf(text, a, f)
    BY SaidAfterNaming
  <2>2. a = l.addr => SaidOf(longer, a, f) = SaidOf(text, a, f) \cup HeldOf(text, f)
    BY SaidAfterNaming
  <2> QED BY <2>1, <2>2
<1>2. ASSUME NEW f
      PROVE  HeldOf(longer, f) = {}
  BY SaidAfter
<1>3. Len(text) \in Nat
  BY Longer
<1>4. ASSUME NEW a, a \notin DOMAIN ps, NEW f
      PROVE  SaidOf(text, a, f) = {}
  <2>1. \A k : PortalAt(text, k) # {a}
    BY <1>0, <1>4, PortalAtIs
  <2> QED BY <2>1 DEF SaidOf
<1>5. ASSUME NEW f \in Fields, HeldOf(text, f) # {}
      PROVE  held[f] # ""
  <2>1. SaidLast(text, HeldOf(text, f), f, held[f]) /\ HeldOf(text, f) \in SUBSET (1..Len(text))
    BY <1>0, SaidPlaces DEF PendingIs
  <2>2. LastOf(HeldOf(text, f)) \in HeldOf(text, f)
    BY <1>3, <1>5, <2>1, LastIs
  <2>3. PICK k \in HeldOf(text, f) : held[f] = text[k].value
    BY <1>5, <2>1, <2>2 DEF SaidLast
  <2>4. text[k] \in PortalLine /\ k \in Lines(text, {"fact"})
    BY <1>0, <2>1, <2>3, ElementOfSeq DEF HeldOf
  <2>5. text[k].says = "fact"
    <3>1. text[k].says \in {"fact"}
      BY <1>0, <2>4, LinesAre
    <3> QED BY <3>1
  <2> QED BY <2>3, <2>4, <2>5, FedLineIs
<1>6. ASSUME NEW a \in DOMAIN qs, NEW f \in Fields
      PROVE  SaidLast(longer, SaidOf(longer, a, f), f, qs[a].facts[f])
  <2>1. /\ SaidOf(text, a, f) \in SUBSET (1..Len(text))
        /\ HeldOf(text, f) \in SUBSET (1..Len(text))
        /\ \A j \in SaidOf(text, a, f) : \A k \in HeldOf(text, f) : j <= k
    BY <1>0, SaidPlaces
  <2>2. a \in DOMAIN ps => SaidLast(text, SaidOf(text, a, f), f, ps[a].facts[f])
    BY DEF FactsAre, FactsOfOwnLogin
  <2>3. SaidLast(text, HeldOf(text, f), f, held[f])
    BY DEF PendingIs
  <2>7. /\ a \in DOMAIN ps \/ a = l.addr
        /\ a # l.addr => qs[a].facts = ps[a].facts
        /\ a = l.addr => qs[a].facts[f] = IF held[f] # "" THEN held[f]
                                          ELSE IF a \in DOMAIN ps THEN ps[a].facts[f] ELSE ""
    BY DEF TakesHeld
  <2>4. CASE a # l.addr
    <3>1. a \in DOMAIN ps /\ qs[a].facts[f] = ps[a].facts[f] /\ SaidOf(longer, a, f) = SaidOf(text, a, f)
      BY <1>1, <2>4, <2>7
    <3>2. SaidLast(longer, SaidOf(text, a, f), f, ps[a].facts[f])
      BY <2>1, <2>2, <3>1, SaidSame
    <3> QED BY <3>1, <3>2
  <2>5. CASE a = l.addr /\ HeldOf(text, f) # {}
    <3>1. SaidLast(text, SaidOf(text, a, f) \cup HeldOf(text, f), f, held[f])
      BY <1>3, <2>1, <2>3, <2>5, SaidJoin
    <3>2. SaidOf(text, a, f) \cup HeldOf(text, f) \in SUBSET (1..Len(text))
      BY <2>1
    <3>3. SaidLast(longer, SaidOf(text, a, f) \cup HeldOf(text, f), f, held[f])
      BY <3>1, <3>2, SaidSame
    <3>4. held[f] # ""
      BY <1>5, <2>5
    <3> QED BY <1>1, <2>5, <2>7, <3>3, <3>4
  <2>6. CASE a = l.addr /\ HeldOf(text, f) = {}
    <3>4. held[f] = ""
      BY <2>3, <2>6 DEF SaidLast
    <3>5. SaidOf(longer, a, f) = SaidOf(text, a, f) \cup HeldOf(text, f)
      BY <1>1, <2>6
    <3>1. held[f] = "" /\ SaidOf(longer, a, f) = SaidOf(text, a, f)
      BY <2>6, <3>4, <3>5
    <3>2. SaidLast(text, SaidOf(text, a, f), f, qs[a].facts[f])
      <4>1. CASE a \in DOMAIN ps
        BY <2>2, <2>6, <2>7, <3>1, <4>1
      <4>2. CASE a \notin DOMAIN ps
        <5>1. SaidOf(text, a, f) = {} /\ qs[a].facts[f] = ""
          BY <1>4, <2>6, <2>7, <3>1, <4>2
        <5> QED BY <5>1 DEF SaidLast
      <4> QED BY <4>1, <4>2
    <3>3. SaidLast(longer, SaidOf(text, a, f), f, qs[a].facts[f])
      BY <2>1, <3>2, SaidSame
    <3> QED BY <3>1, <3>3
  <2> QED BY <2>4, <2>5, <2>6
<1>7. PendingIs(longer, NoFacts)
  BY <1>2 DEF PendingIs, SaidLast, NoFacts
<1> QED BY <1>6, <1>7 DEF FactsAre, FactsOfOwnLogin

----------------------------------------------------------------------------
(* The rounds of a log after one line more.                                *)

LEMMA RoundMore ==
    ASSUME NEW text, NEW l, NEW longer, More(text, l, longer),
           NEW d \in 1..Len(text), NEW e \in 1..Len(text) + 1
    PROVE  /\ RoundLines(longer, d, e) = RoundLines(text, d, e)
           /\ RoundPortalAt(longer, d, e) = RoundPortalAt(text, d, e)
           /\ Counts(longer, d, e) <=> Counts(text, d, e)
<1> DEFINE n == Len(text)
<1>0. text \in Seq(PortalLine) /\ d \in 1..n /\ e \in 1..n + 1
  BY DEF More
<1>1. n \in Nat /\ \A k \in 1..n : longer[k] = text[k]
  BY Longer
<1>2. ~(n + 1 < e)
  BY <1>0, <1>1
<1>3. RoundLines(longer, d, e) = RoundLines(text, d, e)
  <2>1. Lines(longer, OfGateway) = Lines(text, OfGateway)
                                     \cup (IF l.says \in OfGateway THEN {n + 1} ELSE {})
    BY LinesMore
  <2> HIDE DEF n
  <2> QED BY <1>2, <2>1 DEF RoundLines
<1>4. /\ NamingIn(longer, d) = NamingIn(text, d)
                       \cup (IF l.says \in Naming /\ InLast(text, d) THEN {n + 1} ELSE {})
      /\ NamedBefore(longer, d) = NamedBefore(text, d)
  BY NamingMore
<1>5. NamedWithin(longer, d, e) = NamedWithin(text, d, e)
  <2> HIDE DEF n
  <2> QED BY <1>2, <1>4 DEF NamedWithin
<1>6. NamedBefore(text, d) \in SUBSET (1..n) /\ NamedWithin(text, d, e) \in SUBSET (1..n)
  BY <1>0, PlacesInLogin DEF NamedWithin
<1>7. NamedBefore(text, d) # {} => LastOf(NamedBefore(text, d)) \in 1..n
  <2> HIDE DEF n
  <2> QED BY <1>1, <1>6, LastIs
<1>8. NamedWithin(text, d, e) # {} => LastOf(NamedWithin(text, d, e)) \in 1..n
  <2> HIDE DEF n
  <2> QED BY <1>1, <1>6, LastIs
<1>9. RoundPortalAt(longer, d, e) = RoundPortalAt(text, d, e)
  <2> HIDE DEF n
  <2> QED BY <1>1, <1>4, <1>5, <1>7, <1>8 DEF RoundPortalAt
<1> QED BY <1>3, <1>9 DEF Counts

\* The gateways of a round that is still open.
LEMMA RoundLinesMore ==
    ASSUME NEW text, NEW l, NEW longer, More(text, l, longer), NEW d \in 1..Len(text) + 1
    PROVE  /\ RoundLines(longer, d, Len(longer) + 1) =
                 RoundLines(text, d, Len(text) + 1)
                    \cup (IF d \in 1..Len(text) /\ l.says \in OfGateway THEN {Len(text) + 1} ELSE {})
           /\ d = Len(text) + 1 => RoundLines(text, d, Len(text) + 1) = {}
<1> DEFINE n == Len(text)
<1>0. text \in Seq(PortalLine) /\ d \in 1..n + 1
  BY DEF More
<1>1. n \in Nat /\ Len(longer) = n + 1
  BY Longer
<1>2. \A k \in Lines(text, OfGateway) : k \in 1..n
  BY <1>0, LinesAre
<1>3. Lines(longer, OfGateway) = Lines(text, OfGateway)
                                   \cup (IF l.says \in OfGateway THEN {n + 1} ELSE {})
  BY LinesMore
<1> HIDE DEF n
<1>4. \A k \in Lines(text, OfGateway) : k < n + 1 /\ k < n + 2
  BY <1>1, <1>2
<1>5. n + 1 < n + 2 /\ (n + 1) + 1 = n + 2
  BY <1>1
<1>6. d < n + 1 <=> d \in 1..n
  BY <1>0, <1>1
<1>7. RoundLines(longer, d, n + 2) =
         RoundLines(text, d, n + 1) \cup (IF d \in 1..n /\ l.says \in OfGateway THEN {n + 1} ELSE {})
  BY <1>3, <1>4, <1>5, <1>6 DEF RoundLines
<1>8. d = n + 1 => RoundLines(text, d, n + 1) = {}
  <2>1. ASSUME d = n + 1, NEW k \in Lines(text, OfGateway)
        PROVE  ~(d < k)
    BY <1>1, <1>2, <2>1
  <2> QED BY <2>1 DEF RoundLines
<1> QED BY <1>1, <1>5, <1>7, <1>8 DEF n

LEMMA OpenMore ==
    ASSUME NEW text, NEW l, NEW longer, More(text, l, longer)
    PROVE  /\ \A d \in 1..Len(text) :
                 OpenFrom(longer, d) <=>
                    /\ OpenFrom(text, d) /\ l.says # "prelogin" /\ l.says # "discover"
                    /\ l.says = "chosen" => ~Counts(text, d, Len(text) + 1)
           /\ OpenFrom(longer, Len(text) + 1) <=> l.says = "discover"
<1> DEFINE n == Len(text)
           S == Lines(text, {"discover"})
           C == Lines(text, {"chosen"})
<1>0. text \in Seq(PortalLine)
  BY DEF More
<1>1. n \in Nat
  BY Longer
<1>2. /\ \A x \in S : x \in 1..n
      /\ \A x \in C : x \in 1..n
  BY <1>0, LinesAre
<1>3. Lines(longer, {"discover"}) = S \cup (IF l.says = "discover" THEN {n + 1} ELSE {})
  <2>1. l.says \in {"discover"} <=> l.says = "discover"
    OBVIOUS
  <2> QED BY <2>1, LinesMore
<1>4. Lines(longer, {"chosen"}) = C \cup (IF l.says = "chosen" THEN {n + 1} ELSE {})
  <2>1. l.says \in {"chosen"} <=> l.says = "chosen"
    OBVIOUS
  <2> QED BY <2>1, LinesMore
<1>5. /\ \A k \in 1..n : InLast(longer, k) <=> l.says # "prelogin" /\ InLast(text, k)
      /\ InLast(longer, n + 1)
  BY SameLoginMore
<1>6. ASSUME NEW d \in 1..n, NEW x \in 1..n + 1
      PROVE  Counts(longer, d, x) <=> Counts(text, d, x)
  BY <1>6, RoundMore
<1>7. ASSUME NEW d \in 1..n
      PROVE  OpenFrom(longer, d) <=>
                    /\ OpenFrom(text, d) /\ l.says # "prelogin" /\ l.says # "discover"
                    /\ l.says = "chosen" => ~Counts(text, d, n + 1)
  <2>1. OpenFrom(text, d) <=> /\ d \in S /\ InLast(text, d) /\ \A x \in S : x <= d
                              /\ \A x \in C : d < x => ~Counts(text, d, x)
    BY DEF OpenFrom
  <2>2. OpenFrom(longer, d) <=>
          /\ d \in Lines(longer, {"discover"}) /\ InLast(longer, d)
          /\ \A x \in Lines(longer, {"discover"}) : x <= d
          /\ \A x \in Lines(longer, {"chosen"}) : d < x => ~Counts(longer, d, x)
    BY DEF OpenFrom
  <2> HIDE DEF n, S, C
  <2>3. d \in Nat /\ d < n + 1 /\ ~(n + 1 <= d) /\ d # n + 1 /\ n + 1 \in 1..n + 1
    BY <1>1
  <2>4. (d \in Lines(longer, {"discover"})) <=> d \in S
    BY <1>3, <2>3
  <2>5. (\A x \in Lines(longer, {"discover"}) : x <= d) <=> l.says # "discover" /\ \A x \in S : x <= d
    BY <1>3, <2>3
  <2>6. \A x \in C : Counts(longer, d, x) <=> Counts(text, d, x)
    <3>1. \A x \in C : x \in 1..n + 1
      BY <1>1, <1>2
    <3> QED BY <1>6, <3>1
  <2>7. Counts(longer, d, n + 1) <=> Counts(text, d, n + 1)
    BY <1>6, <2>3
  <2>8. (\A x \in Lines(longer, {"chosen"}) : d < x => ~Counts(longer, d, x)) <=>
           /\ \A x \in C : d < x => ~Counts(text, d, x)
           /\ l.says = "chosen" => ~Counts(text, d, n + 1)
    BY <1>4, <2>3, <2>6, <2>7
  <2>9. InLast(longer, d) <=> l.says # "prelogin" /\ InLast(text, d)
    BY <1>5
  <2> QED BY <2>1, <2>2, <2>4, <2>5, <2>8, <2>9
<1>8. OpenFrom(longer, n + 1) <=> l.says = "discover"
  <2>1. OpenFrom(longer, n + 1) <=>
          /\ n + 1 \in Lines(longer, {"discover"}) /\ InLast(longer, n + 1)
          /\ \A x \in Lines(longer, {"discover"}) : x <= n + 1
          /\ \A x \in Lines(longer, {"chosen"}) : n + 1 < x => ~Counts(longer, n + 1, x)
    BY DEF OpenFrom
  <2> HIDE DEF n, S, C
  <2>2. n + 1 \notin S /\ n + 1 <= n + 1 /\ ~(n + 1 < n + 1)
    BY <1>1, <1>2
  <2>3. \A x \in S \cup C : x <= n + 1 /\ ~(n + 1 < x)
    BY <1>1, <1>2
  <2>4. n + 1 \in Lines(longer, {"discover"}) <=> l.says = "discover"
    BY <1>3, <2>2
  <2>5. \A x \in Lines(longer, {"discover"}) : x <= n + 1
    BY <1>3, <2>2, <2>3
  <2>6. \A x \in Lines(longer, {"chosen"}) : ~(n + 1 < x)
    BY <1>4, <2>2, <2>3
  <2> QED BY <1>5, <2>1, <2>4, <2>5, <2>6
<1> QED BY <1>7, <1>8 DEF n

\* A round ends by a line if it is open and counts.
EndsNow(text, l, d) ==
    l.says \in {"chosen", "discover"} /\ OpenFrom(text, d) /\ Counts(text, d, Len(text) + 1)

LEMMA EndsMore ==
    ASSUME NEW text, NEW l, NEW longer, More(text, l, longer), NEW d, NEW e
    PROVE  EndsRound(longer, d, e) <=>
              \/ d \in 1..Len(text) /\ e \in 1..Len(text) /\ EndsRound(text, d, e)
              \/ d \in 1..Len(text) /\ e = Len(text) + 1 /\ EndsNow(text, l, d)
<1> DEFINE n == Len(text)
           S == Lines(text, {"discover"})
           C == Lines(text, {"chosen"})
           E == Lines(text, {"chosen", "discover"})
           S2 == Lines(longer, {"discover"})
           C2 == Lines(longer, {"chosen"})
           E2 == Lines(longer, {"chosen", "discover"})
<1>0. text \in Seq(PortalLine)
  BY DEF More
<1>1. n \in Nat
  BY Longer
<1>2. S \in SUBSET (1..n) /\ C \in SUBSET (1..n) /\ E \in SUBSET (1..n)
  BY <1>0, LinesAre
<1>3. /\ S2 = S \cup (IF l.says \in {"discover"} THEN {n + 1} ELSE {})
      /\ C2 = C \cup (IF l.says \in {"chosen"} THEN {n + 1} ELSE {})
      /\ E2 = E \cup (IF l.says \in {"chosen", "discover"} THEN {n + 1} ELSE {})
  BY LinesMore
<1>4. /\ \A j, k \in 1..n : SameLogin(longer, j, k) <=> SameLogin(text, j, k)
      /\ \A k \in 1..n : SameLogin(longer, k, n + 1) <=> l.says # "prelogin" /\ InLast(text, k)
  BY SameLoginMore
<1>5. ASSUME NEW j \in 1..n, NEW x \in 1..n + 1
      PROVE  Counts(longer, j, x) <=> Counts(text, j, x)
  BY <1>5, RoundMore
<1>6. EndsRound(longer, d, e) <=>
        /\ d \in S2 /\ e \in E2 /\ d < e /\ SameLogin(longer, d, e) /\ Counts(longer, d, e)
        /\ \A x \in S2 : ~(d < x /\ x < e)
        /\ \A x \in C2 : d < x /\ x < e => ~Counts(longer, d, x)
  BY DEF EndsRound
<1>7. EndsRound(text, d, e) <=>
        /\ d \in S /\ e \in E /\ d < e /\ SameLogin(text, d, e) /\ Counts(text, d, e)
        /\ \A x \in S : ~(d < x /\ x < e)
        /\ \A x \in C : d < x /\ x < e => ~Counts(text, d, x)
  BY DEF EndsRound
<1>8. EndsNow(text, l, d) <=>
        /\ l.says \in {"chosen", "discover"} /\ d \in S /\ InLast(text, d) /\ \A x \in S : x <= d
        /\ \A x \in C : d < x => ~Counts(text, d, x)
        /\ Counts(text, d, n + 1)
  BY DEF EndsNow, OpenFrom
<1> HIDE DEF n, S, C, E, S2, C2, E2
<1>9. \A x \in 1..n + 1 : x \in Nat /\ x <= n + 1 /\ (x \in 1..n \/ x = n + 1)
  BY <1>1
<1>10. n + 1 \notin 1..n /\ n + 1 \in 1..n + 1 /\ \A x \in 1..n : x \in 1..n + 1 /\ x < n + 1
  BY <1>1
<1>11. S2 \in SUBSET (1..n + 1) /\ E2 \in SUBSET (1..n + 1)
  BY <1>2, <1>3, <1>10
<1>12. ASSUME d \in 1..n, e \in 1..n
       PROVE  EndsRound(longer, d, e) <=> EndsRound(text, d, e)
  <2>1. ~(n + 1 < e) /\ d # n + 1 /\ e # n + 1
    BY <1>1, <1>12
  <2>2. (d \in S2 <=> d \in S) /\ (e \in E2 <=> e \in E)
    BY <1>3, <2>1
  <2>3. (\A x \in S2 : ~(d < x /\ x < e)) <=> (\A x \in S : ~(d < x /\ x < e))
    BY <1>3, <2>1
  <2>4. \A x \in C : Counts(longer, d, x) <=> Counts(text, d, x)
    BY <1>2, <1>5, <1>10, <1>12
  <2>5. (\A x \in C2 : d < x /\ x < e => ~Counts(longer, d, x)) <=>
        (\A x \in C : d < x /\ x < e => ~Counts(text, d, x))
    BY <1>3, <2>1, <2>4
  <2>6. Counts(longer, d, e) <=> Counts(text, d, e)
    BY <1>5, <1>10, <1>12
  <2>7. SameLogin(longer, d, e) <=> SameLogin(text, d, e)
    BY <1>4, <1>12
  <2> QED BY <1>6, <1>7, <2>2, <2>3, <2>5, <2>6, <2>7
<1>13. ASSUME d \in 1..n, e = n + 1
       PROVE  EndsRound(longer, d, e) <=> EndsNow(text, l, d)
  <2>1. ~(n + 1 < n + 1) /\ d # n + 1 /\ d < n + 1 /\ d \in Nat
    BY <1>1, <1>13
  <2>2. (d \in S2 <=> d \in S) /\ (e \in E2 <=> l.says \in {"chosen", "discover"})
    BY <1>2, <1>3, <1>10, <1>13, <2>1
  <2>3. (\A x \in S2 : ~(d < x /\ x < e)) <=> (\A x \in S : x <= d)
    <3>1. \A x \in S : x < n + 1 /\ x \in Nat /\ (~(d < x) <=> x <= d)
      BY <1>2, <1>9, <1>10, <2>1
    <3> QED BY <1>3, <1>13, <2>1, <3>1
  <2>4. \A x \in C : (Counts(longer, d, x) <=> Counts(text, d, x)) /\ x < n + 1
    BY <1>2, <1>5, <1>10, <1>13
  <2>5. (\A x \in C2 : d < x /\ x < e => ~Counts(longer, d, x)) <=>
        (\A x \in C : d < x => ~Counts(text, d, x))
    BY <1>3, <1>13, <2>1, <2>4
  <2>6. Counts(longer, d, e) <=> Counts(text, d, n + 1)
    BY <1>5, <1>10, <1>13
  <2>7. SameLogin(longer, d, e) <=> l.says # "prelogin" /\ InLast(text, d)
    BY <1>4, <1>13
  <2>8. l.says \in {"chosen", "discover"} => l.says # "prelogin"
    OBVIOUS
  <2> QED BY <1>6, <1>8, <1>13, <2>1, <2>2, <2>3, <2>5, <2>6, <2>7, <2>8
<1>14. EndsRound(longer, d, e) => d \in 1..n /\ e \in 1..n + 1
  <2>1. EndsRound(longer, d, e) => d \in 1..n + 1 /\ e \in 1..n + 1 /\ d < e
    BY <1>6, <1>11
  <2> QED BY <1>1, <1>9, <2>1
<1>15. EndsRound(text, d, e) => d \in 1..n /\ e \in 1..n
  BY <1>2, <1>7
<1>16. EndsRound(longer, d, e) <=>
              \/ d \in 1..n /\ e \in 1..n /\ EndsRound(text, d, e)
              \/ d \in 1..n /\ e = n + 1 /\ EndsNow(text, l, d)
  BY <1>9, <1>12, <1>13, <1>14
<1> QED BY <1>16 DEF n

\* The rounds that end by a line are the portal's at which they are read.
EndingAt(text, l, a) ==
    {x \in (1..Len(text)) \X {Len(text) + 1} :
        EndsNow(text, l, x[1]) /\ RoundPortalAt(text, x[1], Len(text) + 1) = {a}}

LEMMA RoundsMore ==
    ASSUME NEW text, NEW l, NEW longer, More(text, l, longer), NEW a
    PROVE  RoundsAt(longer, a) = RoundsAt(text, a) \cup EndingAt(text, l, a)
<1> DEFINE n == Len(text)
<1>1. n \in Nat /\ DOMAIN text = 1..n /\ DOMAIN longer = 1..n + 1
  BY Longer
<1>2. ASSUME NEW d, NEW e
      PROVE  EndsRound(longer, d, e) <=>
              \/ d \in 1..n /\ e \in 1..n /\ EndsRound(text, d, e)
              \/ d \in 1..n /\ e = n + 1 /\ EndsNow(text, l, d)
  BY EndsMore
<1>3. ASSUME NEW d \in 1..n, NEW e \in 1..n + 1
      PROVE  RoundPortalAt(longer, d, e) = RoundPortalAt(text, d, e)
  BY <1>3, RoundMore
<1> HIDE DEF n
<1>4. \A e \in 1..n : e \in 1..n + 1
  BY <1>1
<1>5. n + 1 \in 1..n + 1 /\ n + 1 \notin 1..n
  BY <1>1
<1>6. ASSUME NEW x \in RoundsAt(longer, a)
      PROVE  x \in RoundsAt(text, a) \cup EndingAt(text, l, a)
  <2>1. PICK d \in 1..n + 1, e \in 1..n + 1 : x = <<d, e>>
    BY <1>1 DEF RoundsAt
  <2>2. EndsRound(longer, d, e) /\ RoundPortalAt(longer, d, e) = {a}
    BY <2>1 DEF RoundsAt
  <2>3. CASE d \in 1..n /\ e \in 1..n /\ EndsRound(text, d, e)
    <3>1. RoundPortalAt(text, d, e) = {a}
      BY <1>3, <1>4, <2>2, <2>3
    <3> QED BY <1>1, <2>1, <2>3, <3>1 DEF RoundsAt
  <2>4. CASE d \in 1..n /\ e = n + 1 /\ EndsNow(text, l, d)
    <3>1. RoundPortalAt(text, d, e) = {a}
      BY <1>3, <1>5, <2>2, <2>4
    <3> QED BY <1>1, <2>1, <2>4, <3>1 DEF EndingAt, n
  <2> QED BY <1>2, <2>2, <2>3, <2>4
<1>7. ASSUME NEW x \in RoundsAt(text, a)
      PROVE  x \in RoundsAt(longer, a)
  <2>1. PICK d \in 1..n, e \in 1..n : x = <<d, e>>
    BY <1>1 DEF RoundsAt
  <2>2. EndsRound(text, d, e) /\ RoundPortalAt(text, d, e) = {a}
    BY <2>1 DEF RoundsAt
  <2>3. EndsRound(longer, d, e) /\ RoundPortalAt(longer, d, e) = {a}
    BY <1>2, <1>3, <1>4, <2>2
  <2>4. d \in 1..n + 1 /\ e \in 1..n + 1
    BY <1>4
  <2> QED BY <1>1, <2>1, <2>3, <2>4 DEF RoundsAt
<1>8. ASSUME NEW x \in EndingAt(text, l, a)
      PROVE  x \in RoundsAt(longer, a)
  <2>1. PICK d \in 1..n : x = <<d, n + 1>>
    BY DEF EndingAt, n
  <2>2. EndsNow(text, l, d) /\ RoundPortalAt(text, d, n + 1) = {a}
    BY <2>1 DEF EndingAt, n
  <2>3. EndsRound(longer, d, n + 1) /\ RoundPortalAt(longer, d, n + 1) = {a}
    BY <1>2, <1>3, <1>5, <2>2
  <2>4. d \in 1..n + 1 /\ n + 1 \in 1..n + 1
    BY <1>4, <1>5
  <2> QED BY <1>1, <2>1, <2>3, <2>4 DEF RoundsAt
<1> QED BY <1>6, <1>7, <1>8

\* A round from a line belongs to the portal named before it.
LEMMA OwnedMore ==
    ASSUME NEW text, NEW l, NEW longer, More(text, l, longer), NEW owner
    PROVE  /\ \A d \in 1..Len(text) : OwnedBy(longer, d, owner) <=> OwnedBy(text, d, owner)
           /\ l.says = "discover" =>
                 (OwnedBy(longer, Len(text) + 1, owner) <=> CurrentIs(text, owner))
<1> DEFINE n == Len(text)
<1>0. text \in Seq(PortalLine)
  BY DEF More
<1>1. n \in Nat /\ \A k \in 1..n : longer[k] = text[k]
  BY Longer
<1>2. /\ \A k \in 1..n : NamedBefore(longer, k) = NamedBefore(text, k)
      /\ NamedBefore(longer, n + 1) = IF l.says = "prelogin" THEN {} ELSE NamingNow(text)
  BY NamingMore
<1>3. NamingNow(text) \in SUBSET (1..n) /\ \A k \in 1..n : NamedBefore(text, k) \in SUBSET (1..n)
  BY <1>0, NamingNowIs, PlacesInLogin
<1> HIDE DEF n
<1>4. ASSUME NEW S \in SUBSET (1..n), S # {}
      PROVE  longer[LastOf(S)] = text[LastOf(S)]
  BY <1>1, <1>4, LastIs
<1>5. ASSUME NEW d \in 1..n
      PROVE  OwnedBy(longer, d, owner) <=> OwnedBy(text, d, owner)
  BY <1>2, <1>3, <1>4 DEF OwnedBy
<1>6. ASSUME l.says = "discover"
      PROVE  OwnedBy(longer, n + 1, owner) <=> CurrentIs(text, owner)
  <2>1. NamedBefore(longer, n + 1) = NamingNow(text)
    BY <1>2, <1>6
  <2> QED BY <1>3, <1>4, <2>1 DEF OwnedBy, CurrentIs
<1> QED BY <1>5, <1>6 DEF n

\* The portal of the open round, as far as it is read.
LEMMA OpenPortal ==
    ASSUME NEW text \in Seq(PortalLine), NEW d \in 1..Len(text), OpenFrom(text, d),
           NEW owner, OwnedBy(text, d, owner), NEW now, CurrentIs(text, now)
    PROVE  RoundPortalAt(text, d, Len(text) + 1) =
              LET own == IF owner # "" THEN owner ELSE now
              IN  IF own = "" THEN {} ELSE {own}
<1> DEFINE n == Len(text)
           B == NamedBefore(text, d)
           N == NamingNow(text)
           W == NamedWithin(text, d, n + 1)
<1>0. n \in Nat
  <2> HIDE DEF PortalLine
  <2> QED OBVIOUS
<1>1. /\ NamingIn(text, d) \in SUBSET (1..n)
      /\ B \in SUBSET NamingIn(text, d)
      /\ \A k \in NamingIn(text, d) : text[k].says \in Naming /\ text[k].addr # ""
  BY PlacesInLogin
<1>2. NamingIn(text, d) = N
  BY NamingNowIs DEF OpenFrom
<1>3. text[d].says \notin Naming
  <2>1. d \in Lines(text, {"discover"})
    BY DEF OpenFrom
  <2>2. text[d].says \in {"discover"}
    BY <2>1, LinesAre
  <2> QED BY <2>2 DEF Naming
<1>4. owner = IF B = {} THEN "" ELSE text[LastOf(B)].addr
  BY DEF OwnedBy
<1>5. now = IF N = {} THEN "" ELSE text[LastOf(N)].addr
  BY DEF CurrentIs
<1>6. RoundPortalAt(text, d, n + 1) =
        IF B # {} THEN {text[LastOf(B)].addr}
        ELSE IF W # {} THEN {text[LastOf(W)].addr} ELSE {}
  BY DEF RoundPortalAt
<1>7. B = {} => W = N
  <2>1. ASSUME B = {}, NEW k \in N
        PROVE  d < k /\ k < n + 1
    <3>1. k \in 1..n /\ k # d
      BY <1>1, <1>2, <1>3
    <3>2. ~(k < d)
      BY <1>2, <2>1 DEF NamedBefore
    <3> HIDE DEF n
    <3> QED BY <1>0, <3>1, <3>2
  <2> QED BY <1>2, <2>1 DEF NamedWithin
<1> HIDE DEF n, B, N, W
<1>8. B # {} => LastOf(B) \in B
  <2>1. B \in SUBSET (1..n)
    BY <1>1
  <2> QED BY <1>0, <2>1, LastIs
<1>9. N # {} => LastOf(N) \in N
  BY <1>0, <1>1, <1>2, LastIs
<1>10. CASE B # {}
  BY <1>1, <1>4, <1>6, <1>8, <1>10 DEF n
<1>11. CASE B = {} /\ N # {}
  BY <1>1, <1>2, <1>4, <1>5, <1>6, <1>7, <1>9, <1>11 DEF n
<1>12. CASE B = {} /\ N = {}
  BY <1>4, <1>5, <1>6, <1>7, <1>12 DEF n
<1> QED BY <1>10, <1>11, <1>12

----------------------------------------------------------------------------
(* The newest round of a portal.                                           *)

Newest(rounds) == CHOOSE x \in rounds : \A y \in rounds : y[2] <= x[2]
AddrsOf(text, d, e) == {text[k].addr : k \in RoundLines(text, d, e)}

LEMMA RoundOfOwnPortalIs ==
    ASSUME NEW text, NEW a, NEW gateways
    PROVE  RoundOfOwnPortal(text, a, gateways) <=>
              NamesOf(gateways) =
                 IF RoundsAt(text, a) = {} THEN {}
                 ELSE AddrsOf(text, Newest(RoundsAt(text, a))[1], Newest(RoundsAt(text, a))[2])
BY DEF RoundOfOwnPortal, NamesOf, AddrsOf, Newest

LEMMA NewestIs ==
    ASSUME NEW n \in Nat, NEW rounds \in SUBSET ((1..n) \X (1..n)), rounds # {}
    PROVE  Newest(rounds) \in rounds
<1> DEFINE T == {x[2] : x \in rounds}
<1>1. T \in SUBSET (1..n) /\ T # {}
  OBVIOUS
<1>2. LastOf(T) \in T /\ \A x \in T : x <= LastOf(T)
  <2> HIDE DEF T
  <2> QED BY <1>1, LastIs
<1>3. PICK x \in rounds : x[2] = LastOf(T)
  BY <1>2
<1>4. \A y \in rounds : y[2] <= x[2]
  BY <1>2, <1>3
<1> HIDE DEF T
<1> QED BY <1>4 DEF Newest

LEMMA AddrsMore ==
    ASSUME NEW text, NEW l, NEW longer, More(text, l, longer),
           NEW d \in 1..Len(text), NEW e \in 1..Len(text) + 1
    PROVE  AddrsOf(longer, d, e) = AddrsOf(text, d, e)
<1>0. text \in Seq(PortalLine)
  BY DEF More
<1>1. RoundLines(longer, d, e) = RoundLines(text, d, e)
  BY RoundMore
<1>2. \A k \in RoundLines(text, d, e) : k \in 1..Len(text)
  BY <1>0, LinesAre DEF RoundLines
<1>3. \A k \in 1..Len(text) : longer[k] = text[k]
  BY Longer
<1>4. \A k \in RoundLines(text, d, e) : longer[k] = text[k]
  BY <1>2, <1>3
<1> QED BY <1>1, <1>4 DEF AddrsOf

\* No round of the portal ends.
LEMMA RoundKept ==
    ASSUME NEW text, NEW l, NEW longer, More(text, l, longer), NEW a, EndingAt(text, l, a) = {},
           NEW g, NEW h, NamesOf(h) = NamesOf(g), RoundOfOwnPortal(text, a, g)
    PROVE  RoundOfOwnPortal(longer, a, h)
<1> DEFINE R == RoundsAt(text, a)
           x == Newest(R)
<1>1. RoundsAt(longer, a) = R
  BY RoundsMore
<1>2. NamesOf(g) = IF R = {} THEN {} ELSE AddrsOf(text, x[1], x[2])
  BY RoundOfOwnPortalIs
<1>3. RoundOfOwnPortal(longer, a, h) <=>
        NamesOf(h) = IF R = {} THEN {} ELSE AddrsOf(longer, x[1], x[2])
  BY <1>1, RoundOfOwnPortalIs
<1>4. R # {} => x[1] \in 1..Len(text) /\ x[2] \in 1..Len(text) + 1
  <2>1. Len(text) \in Nat /\ DOMAIN text = 1..Len(text)
    BY Longer
  <2>2. R \in SUBSET ((1..Len(text)) \X (1..Len(text)))
    BY <2>1 DEF RoundsAt
  <2>3. R # {} => x \in R
    <3> HIDE DEF R
    <3> QED BY <2>1, <2>2, NewestIs
  <2>4. R # {} => x[1] \in 1..Len(text) /\ x[2] \in 1..Len(text)
    <3> HIDE DEF R, x
    <3> QED BY <2>2, <2>3
  <2> QED BY <2>1, <2>4
<1>5. R # {} => AddrsOf(longer, x[1], x[2]) = AddrsOf(text, x[1], x[2])
  <2> HIDE DEF R, x
  <2> QED BY <1>4, AddrsMore
<1> HIDE DEF R, x
<1> QED BY <1>2, <1>3, <1>5

LEMMA OpenOnce ==
    ASSUME NEW text \in Seq(PortalLine), NEW d, NEW e, OpenFrom(text, d), OpenFrom(text, e)
    PROVE  d = e
<1>1. d \in Lines(text, {"discover"}) /\ e \in Lines(text, {"discover"}) /\ d <= e /\ e <= d
  BY DEF OpenFrom
<1>2. d \in Nat /\ e \in Nat
  BY <1>1, LinesAre
<1> QED BY <1>1, <1>2

\* A round that ends is the newest of its portal.
LEMMA RoundEnded ==
    ASSUME NEW text, NEW l, NEW longer, More(text, l, longer), NEW d \in 1..Len(text),
           EndsNow(text, l, d), NEW a, RoundPortalAt(text, d, Len(text) + 1) = {a},
           NEW h, NamesOf(h) = AddrsOf(text, d, Len(text) + 1)
    PROVE  RoundOfOwnPortal(longer, a, h)
<1> DEFINE n == Len(text)
           y == <<d, n + 1>>
           R == RoundsAt(text, a)
           L == RoundsAt(longer, a)
<1>0. text \in Seq(PortalLine) /\ d \in 1..n
  BY DEF More
<1>1. n \in Nat /\ DOMAIN text = 1..n
  BY Longer
<1>2. EndingAt(text, l, a) = {y}
  <2>1. y \in EndingAt(text, l, a)
    BY DEF EndingAt
  <2>2. ASSUME NEW z \in EndingAt(text, l, a)
        PROVE  z = y
    <3>1. PICK e \in 1..n : z = <<e, n + 1>> /\ EndsNow(text, l, e)
      BY DEF EndingAt
    <3>2. e = d
      BY <1>0, <3>1, OpenOnce DEF EndsNow
    <3> QED BY <3>1, <3>2
  <2> HIDE DEF y
  <2> QED BY <2>1, <2>2
<1>3. L = R \cup {y}
  BY <1>2, RoundsMore
<1>4. \A z \in R : z[2] \in 1..n
  BY <1>1 DEF RoundsAt
<1>5. y[2] = n + 1 /\ y[1] = d
  OBVIOUS
<1>6. Newest(L) = y
  <2> HIDE DEF n, y, R, L
  <2>1. y \in L /\ \A z \in L : z[2] <= y[2]
    BY <1>1, <1>3, <1>4, <1>5
  <2>2. Newest(L) \in L /\ \A z \in L : z[2] <= Newest(L)[2]
    BY <2>1 DEF Newest
  <2>3. y[2] <= Newest(L)[2]
    BY <2>1, <2>2
  <2>4. ASSUME Newest(L) \in R
        PROVE  FALSE
    <3>1. Newest(L)[2] \in 1..n
      BY <1>4, <2>4
    <3> QED BY <1>1, <1>5, <2>3, <3>1
  <2> QED BY <1>3, <2>2, <2>4
<1>7. AddrsOf(longer, d, n + 1) = AddrsOf(text, d, n + 1)
  <2>1. n + 1 \in 1..n + 1
    BY <1>1
  <2> QED BY <2>1, AddrsMore
<1>8. L # {}
  BY <1>3
<1>9. RoundOfOwnPortal(longer, a, h) <=>
         NamesOf(h) = IF L = {} THEN {} ELSE AddrsOf(longer, Newest(L)[1], Newest(L)[2])
  BY RoundOfOwnPortalIs
<1>10. NamesOf(h) = AddrsOf(text, d, n + 1)
  OBVIOUS
<1> HIDE DEF n, y, R, L
<1> QED BY <1>5, <1>6, <1>7, <1>8, <1>9, <1>10

\* A round is at a portal that is named.
LEMMA RoundsNamed ==
    ASSUME NEW text \in Seq(PortalLine), NEW a, a \notin NamedBy(text)
    PROVE  RoundsAt(text, a) = {}
<1>0. Len(text) \in Nat
  <2> HIDE DEF PortalLine
  <2> QED OBVIOUS
<1>1. ASSUME NEW d, NEW e, RoundPortalAt(text, d, e) = {a}
      PROVE  FALSE
  <2> DEFINE B == NamedBefore(text, d)
             W == NamedWithin(text, d, e)
  <2>1. /\ B \in SUBSET (1..Len(text)) /\ W \in SUBSET (1..Len(text))
        /\ \A k \in B \cup W : k \in Lines(text, Naming)
    BY PlacesInLogin DEF NamedWithin
  <2>2. RoundPortalAt(text, d, e) = IF B # {} THEN {text[LastOf(B)].addr}
                                    ELSE IF W # {} THEN {text[LastOf(W)].addr} ELSE {}
    BY DEF RoundPortalAt
  <2> HIDE DEF B, W
  <2>3. (B # {} => LastOf(B) \in B) /\ (W # {} => LastOf(W) \in W)
    BY <1>0, <2>1, LastIs
  <2>4. ASSUME NEW k \in B \cup W
        PROVE  text[k].addr # a
    BY <2>1 DEF NamedBy
  <2> QED BY <1>1, <2>2, <2>3, <2>4
<1> QED BY <1>1 DEF RoundsAt

\* A line that ends no round.
NoneEnds(text, l) == \A d \in 1..Len(text) : ~EndsNow(text, l, d)
SameRounds(text, ps, qs) ==
    \A a \in DOMAIN qs :
        \/ a \in DOMAIN ps /\ NamesOf(qs[a].gateways) = NamesOf(ps[a].gateways)
        \/ a \notin NamedBy(text) /\ NamesOf(qs[a].gateways) = {}

LEMMA RoundsSame ==
    ASSUME NEW text, NEW l, NEW longer, More(text, l, longer), NoneEnds(text, l),
           NEW ps, NEW qs, RoundsAre(text, ps), SameRounds(text, ps, qs)
    PROVE  RoundsAre(longer, qs)
<1>0. text \in Seq(PortalLine)
  BY DEF More
<1>1. ASSUME NEW a
      PROVE  EndingAt(text, l, a) = {}
  BY DEF EndingAt, NoneEnds
<1>2. ASSUME NEW a \in DOMAIN qs
      PROVE  RoundOfOwnPortal(longer, a, qs[a].gateways)
  <2>1. CASE a \in DOMAIN ps /\ NamesOf(qs[a].gateways) = NamesOf(ps[a].gateways)
    <3>1. RoundOfOwnPortal(text, a, ps[a].gateways)
      BY <2>1 DEF RoundsAre
    <3> QED BY <1>1, <2>1, <3>1, RoundKept
  <2>2. CASE a \notin NamedBy(text) /\ NamesOf(qs[a].gateways) = {}
    <3>1. RoundsAt(text, a) = {}
      BY <1>0, <2>2, RoundsNamed
    <3>2. RoundsAt(longer, a) = {}
      BY <1>1, <3>1, RoundsMore
    <3> QED BY <2>2, <3>2, RoundOfOwnPortalIs
  <2> QED BY <2>1, <2>2 DEF SameRounds
<1> QED BY <1>2 DEF RoundsAre

\* A line that ends the round of a portal.
GivenTo(text, d, ps, qs, own) ==
    /\ DOMAIN qs = DOMAIN ps
    /\ \A a \in DOMAIN ps : a # own => qs[a].gateways = ps[a].gateways
    /\ NamesOf(qs[own].gateways) = AddrsOf(text, d, Len(text) + 1)

LEMMA RoundsEnded ==
    ASSUME NEW text, NEW l, NEW longer, More(text, l, longer), NEW d \in 1..Len(text),
           EndsNow(text, l, d), NEW own, RoundPortalAt(text, d, Len(text) + 1) = {own},
           NEW ps, NEW qs, RoundsAre(text, ps), GivenTo(text, d, ps, qs, own)
    PROVE  RoundsAre(longer, qs)
<1>3. /\ DOMAIN qs = DOMAIN ps
      /\ \A a \in DOMAIN ps : a # own => qs[a].gateways = ps[a].gateways
      /\ NamesOf(qs[own].gateways) = AddrsOf(text, d, Len(text) + 1)
  BY DEF GivenTo
<1>0. text \in Seq(PortalLine)
  BY DEF More
<1>1. ASSUME NEW a, a # own
      PROVE  EndingAt(text, l, a) = {}
  <2>1. ASSUME NEW x \in 1..Len(text), EndsNow(text, l, x)
        PROVE  RoundPortalAt(text, x, Len(text) + 1) # {a}
    <3>1. x = d
      BY <1>0, <2>1, OpenOnce DEF EndsNow
    <3> QED BY <1>1, <3>1
  <2> QED BY <2>1 DEF EndingAt
<1>2. ASSUME NEW a \in DOMAIN qs
      PROVE  RoundOfOwnPortal(longer, a, qs[a].gateways)
  <2>1. CASE a = own
    BY <1>3, <2>1, RoundEnded
  <2>2. CASE a # own
    <3>1. RoundOfOwnPortal(text, a, ps[a].gateways) /\ qs[a].gateways = ps[a].gateways
      BY <1>3, <2>2 DEF RoundsAre
    <3>2. RoundOfOwnPortal(longer, a, ps[a].gateways)
      BY <1>1, <2>2, <3>1, RoundKept
    <3> QED BY <3>1, <3>2
  <2> QED BY <2>1, <2>2
<1> QED BY <1>2 DEF RoundsAre

----------------------------------------------------------------------------
(* The open round and the current portal after one line more.              *)

LEMMA NamesNone ==
    ASSUME NEW S, NEW g \in Seq(S)
    PROVE  NamesOf(g) = {} <=> g = <<>>
<1>1. Len(g) \in Nat /\ DOMAIN g = 1..Len(g) /\ (Len(g) = 0 <=> g = <<>>)
  OBVIOUS
<1>2. NamesOf(g) = {} <=> DOMAIN g = {}
  BY DEF NamesOf
<1>3. 1..Len(g) = {} <=> Len(g) = 0
  <2>1. Len(g) # 0 => 1 \in 1..Len(g)
    BY <1>1
  <2>2. Len(g) = 0 => 1..Len(g) = {}
    OBVIOUS
  <2> QED BY <2>1, <2>2
<1> QED BY <1>1, <1>2, <1>3

LEMMA EndsOpen ==
    ASSUME NEW text \in Seq(PortalLine), NEW l, NEW d \in 1..Len(text),
           NEW g \in Seq(GatewayRec), NEW owner, OpenAt(text, d, g, owner),
           NEW now, CurrentIs(text, now), NEW own, own = IF owner # "" THEN owner ELSE now
    PROVE  /\ Counts(text, d, Len(text) + 1) <=> own # "" /\ g # <<>>
           /\ own # "" => RoundPortalAt(text, d, Len(text) + 1) = {own}
<1>1. RoundPortalAt(text, d, Len(text) + 1) = IF own = "" THEN {} ELSE {own}
  BY OpenPortal DEF OpenAt
<1>2. NamesOf(g) = {text[k].addr : k \in RoundLines(text, d, Len(text) + 1)}
  BY DEF OpenAt
<1>3. NamesOf(g) = {} <=> g = <<>>
  BY NamesNone
<1>4. RoundLines(text, d, Len(text) + 1) = {} <=> g = <<>>
  BY <1>2, <1>3
<1> QED BY <1>1, <1>4 DEF Counts

\* What is left open stays open.
LEMMA OpenStays ==
    ASSUME NEW text, NEW l, NEW longer, More(text, l, longer), NEW d \in 1..Len(text),
           NEW g, NEW h, NEW owner, OpenAt(text, d, g, owner),
           l.says # "prelogin", l.says # "discover",
           l.says = "chosen" => ~Counts(text, d, Len(text) + 1),
           NamesOf(h) = NamesOf(g) \cup (IF l.says \in OfGateway THEN {l.addr} ELSE {})
    PROVE  d \in 1..Len(longer) /\ OpenAt(longer, d, h, owner)
<1> DEFINE n == Len(text)
<1>0. text \in Seq(PortalLine) /\ d \in 1..n
  BY DEF More
<1>1. /\ n \in Nat /\ Len(longer) = n + 1
      /\ \A k \in 1..n : longer[k] = text[k]
      /\ longer[n + 1] = l
  BY Longer
<1>2. OpenFrom(longer, d)
  BY OpenMore DEF OpenAt
<1>3. OwnedBy(longer, d, owner)
  BY OwnedMore DEF OpenAt
<1>4. RoundLines(longer, d, Len(longer) + 1) =
         RoundLines(text, d, n + 1) \cup (IF l.says \in OfGateway THEN {n + 1} ELSE {})
  <2>1. d \in 1..n + 1
    BY <1>1
  <2> QED BY <1>0, <2>1, RoundLinesMore
<1>5. \A k \in RoundLines(text, d, n + 1) : longer[k] = text[k]
  <2>1. \A k \in RoundLines(text, d, n + 1) : k \in 1..n
    BY <1>0, LinesAre DEF RoundLines
  <2> QED BY <1>1, <2>1
<1>6. NamesOf(g) = {text[k].addr : k \in RoundLines(text, d, n + 1)}
  BY DEF OpenAt
<1> DEFINE R == RoundLines(text, d, n + 1)
<1>7. {longer[k].addr : k \in RoundLines(longer, d, Len(longer) + 1)} =
        NamesOf(g) \cup (IF l.says \in OfGateway THEN {l.addr} ELSE {})
  <2>1. {longer[k].addr : k \in R} = NamesOf(g)
    BY <1>5, <1>6
  <2>2. longer[n + 1].addr = l.addr
    BY <1>1
  <2> HIDE DEF R, n
  <2> QED BY <1>4, <2>1, <2>2 DEF R
<1>8. d \in 1..Len(longer)
  BY <1>1
<1> HIDE DEF n
<1> QED BY <1>2, <1>3, <1>7, <1>8 DEF OpenAt

LEMMA OpensNow ==
    ASSUME NEW text, NEW l, NEW longer, More(text, l, longer), l.says = "discover",
           NEW now, CurrentIs(text, now)
    PROVE  RoundIs(longer, <<>>, now, TRUE)
<1> DEFINE n == Len(text)
<1>1. n \in Nat /\ Len(longer) = n + 1 /\ DOMAIN longer = 1..n + 1 /\ n + 1 \in 1..n + 1
  BY Longer
<1>2. OpenFrom(longer, n + 1) /\ OwnedBy(longer, n + 1, now)
  BY OpenMore, OwnedMore
<1>3. RoundLines(longer, n + 1, Len(longer) + 1) = {}
  <2>1. n + 1 \notin 1..n
    BY <1>1
  <2>2. /\ RoundLines(longer, n + 1, Len(longer) + 1) =
              RoundLines(text, n + 1, n + 1)
                 \cup (IF n + 1 \in 1..n /\ l.says \in OfGateway THEN {n + 1} ELSE {})
        /\ RoundLines(text, n + 1, n + 1) = {}
    BY <1>1, RoundLinesMore
  <2> QED BY <2>1, <2>2
<1>4. NamesOf(<<>>) = {}
  BY DEF NamesOf
<1>5. OpenAt(longer, n + 1, <<>>, now)
  BY <1>2, <1>3, <1>4 DEF OpenAt
<1> HIDE DEF n
<1> QED BY <1>1, <1>5 DEF RoundIs

\* A line after which no round is open.
LEMMA NoneOpens ==
    ASSUME NEW text, NEW l, NEW longer, More(text, l, longer), l.says # "discover",
           \A d \in 1..Len(text) :
               \/ ~OpenFrom(text, d) \/ l.says = "prelogin"
               \/ l.says = "chosen" /\ Counts(text, d, Len(text) + 1),
           NEW owner
    PROVE  RoundIs(longer, <<>>, owner, FALSE)
<1> DEFINE n == Len(text)
<1>1. n \in Nat /\ DOMAIN longer = 1..n + 1
  BY Longer
<1>2. \A d \in 1..n : ~OpenFrom(longer, d)
  BY OpenMore
<1>3. ~OpenFrom(longer, n + 1)
  BY OpenMore
<1> HIDE DEF n
<1>4. \A d \in 1..n + 1 : d \in 1..n \/ d = n + 1
  BY <1>1
<1> QED BY <1>1, <1>2, <1>3, <1>4 DEF RoundIs

\* A line that is neither a pre-login nor of a round.
RoundReads(l, g, h, open) ==
    /\ open => NamesOf(h) = NamesOf(g) \cup (IF l.says \in OfGateway THEN {l.addr} ELSE {})
    /\ ~open => h = g

LEMMA RoundStays ==
    ASSUME NEW text, NEW l, NEW longer, More(text, l, longer),
           l.says \notin {"prelogin", "discover", "chosen"},
           NEW g, NEW h, NEW owner, NEW open \in BOOLEAN, RoundIs(text, g, owner, open),
           RoundReads(l, g, h, open)
    PROVE  RoundIs(longer, h, owner, open)
<1>4. /\ open => NamesOf(h) = NamesOf(g) \cup (IF l.says \in OfGateway THEN {l.addr} ELSE {})
      /\ ~open => h = g
  BY DEF RoundReads
<1>1. DOMAIN text = 1..Len(text) /\ DOMAIN longer = 1..Len(longer)
  BY Longer
<1>2. CASE open
  <2>1. PICK d \in 1..Len(text) : OpenAt(text, d, g, owner)
    BY <1>1, <1>2 DEF RoundIs
  <2>2. d \in 1..Len(longer) /\ OpenAt(longer, d, h, owner)
    BY <1>2, <1>4, <2>1, OpenStays
  <2> QED BY <1>1, <1>2, <2>2 DEF RoundIs
<1>3. CASE ~open
  <2>1. g = <<>> /\ \A d \in 1..Len(text) : ~OpenFrom(text, d)
    BY <1>1, <1>3 DEF RoundIs
  <2>2. RoundIs(longer, <<>>, owner, FALSE)
    BY <2>1, NoneOpens
  <2> QED BY <1>3, <1>4, <2>1, <2>2
<1> QED BY <1>2, <1>3

LEMMA NamedByMore ==
    ASSUME NEW text, NEW l, NEW longer, More(text, l, longer)
    PROVE  NamedBy(longer) = NamedBy(text) \cup (IF l.says \in Naming THEN {l.addr} ELSE {})
<1> DEFINE n == Len(text)
           S == Lines(text, Naming)
<1>0. text \in Seq(PortalLine)
  BY DEF More
<1>1. (\A k \in 1..n : longer[k] = text[k]) /\ longer[n + 1] = l
  BY Longer
<1>2. Lines(longer, Naming) = S \cup (IF l.says \in Naming THEN {n + 1} ELSE {})
  BY LinesMore
<1>3. \A k \in S : longer[k] = text[k]
  BY <1>0, <1>1, LinesAre
<1> HIDE DEF n, S
<1>4. {longer[k].addr : k \in S} = {text[k].addr : k \in S}
  BY <1>3
<1> QED BY <1>1, <1>2, <1>4 DEF NamedBy, S

LEMMA CurrentMore ==
    ASSUME NEW text, NEW l, NEW longer, More(text, l, longer), NEW now, CurrentIs(text, now)
    PROVE  /\ l.says = "prelogin" => CurrentIs(longer, "")
           /\ l.says \in Naming => CurrentIs(longer, l.addr)
           /\ l.says # "prelogin" /\ l.says \notin Naming => CurrentIs(longer, now)
<1> DEFINE n == Len(text)
           N == NamingNow(text)
<1>0. text \in Seq(PortalLine)
  BY DEF More
<1>1. n \in Nat /\ (\A k \in 1..n : longer[k] = text[k]) /\ longer[n + 1] = l
  BY Longer
<1>2. NamingNow(longer) = (IF l.says = "prelogin" THEN {} ELSE N)
                             \cup (IF l.says \in Naming THEN {n + 1} ELSE {})
  BY NamingMore
<1>3. N \in SUBSET (1..n)
  BY <1>0, NamingNowIs
<1>4. now = IF N = {} THEN "" ELSE text[LastOf(N)].addr
  BY DEF CurrentIs
<1>5. l.says \in Naming => l.says # "prelogin"
  BY DEF Naming
<1> HIDE DEF n, N
<1>6. l.says = "prelogin" => CurrentIs(longer, "")
  BY <1>2, <1>5 DEF CurrentIs
<1>7. ASSUME l.says \in Naming
      PROVE  CurrentIs(longer, l.addr)
  <2>1. NamingNow(longer) = N \cup {n + 1}
    BY <1>2, <1>5, <1>7
  <2>2. LastOf(N \cup {n + 1}) = n + 1
    <3>1. n + 1 \in Nat /\ n + 1 \in N \cup {n + 1} /\ \A k \in N \cup {n + 1} : k <= n + 1
      BY <1>1, <1>3
    <3>2. N \cup {n + 1} \in SUBSET (1..n + 1)
      BY <1>1, <1>3
    <3> DEFINE T == N \cup {n + 1}
               m == n + 1
    <3>3. m \in Nat /\ m \in T /\ (\A k \in T : k <= m) /\ T \in SUBSET (1..m)
      BY <3>1, <3>2
    <3> HIDE DEF T, m
    <3>4. LastOf(T) = m
      BY <3>3, LastOfIs
    <3> QED BY <3>4 DEF T, m
  <2> QED BY <1>1, <2>1, <2>2 DEF CurrentIs
<1>8. ASSUME l.says # "prelogin", l.says \notin Naming
      PROVE  CurrentIs(longer, now)
  <2>1. NamingNow(longer) = N
    BY <1>2, <1>8
  <2>2. N # {} => LastOf(N) \in 1..n
    BY <1>1, <1>3, LastIs
  <2> QED BY <1>1, <1>4, <2>1, <2>2 DEF CurrentIs
<1> QED BY <1>6, <1>7, <1>8

LEMMA CurrentNamed ==
    ASSUME NEW text \in Seq(PortalLine), NEW now, CurrentIs(text, now)
    PROVE  /\ now = "" <=> NamingNow(text) = {}
           /\ NamingNow(text) # {} => now = text[LastOf(NamingNow(text))].addr
           /\ now # "" => now \in NamedBy(text)
<1> DEFINE N == NamingNow(text)
<1>1. Len(text) \in Nat
  <2> HIDE DEF PortalLine
  <2> QED OBVIOUS
<1>2. N \in SUBSET (1..Len(text)) /\ \A k \in N : k \in Lines(text, Naming) /\ text[k].says \in Naming
  BY NamingNowIs DEF NamingNow
<1>3. now = IF N = {} THEN "" ELSE text[LastOf(N)].addr
  BY DEF CurrentIs
<1>4. \A k \in 1..Len(text) : text[k] \in PortalLine
  BY ElementOfSeq
<1>5. \A k \in N : text[k].addr # "" /\ text[k].addr \in NamedBy(text)
  BY <1>2, <1>4, FedLineIs DEF NamedBy
<1> HIDE DEF N
<1>6. N # {} => LastOf(N) \in N
  BY <1>1, <1>2, LastIs
<1> QED BY <1>3, <1>5, <1>6 DEF N

----------------------------------------------------------------------------
(* The records of the portals after one line more.                         *)

LEMMA SeenStays ==
    ASSUME NEW text, NEW l, NEW longer, More(text, l, longer), l.says \notin Naming,
           NEW ps, NEW places, SeenIs(text, ps, places), NEW qs \in [NamedBy(text) -> PortalRec]
    PROVE  SeenIs(longer, qs, places)
<1>1. NamedBy(longer) = NamedBy(text)
  BY NamedByMore
<1> QED BY <1>1 DEF SeenIs

LEMMA SeenNamed ==
    ASSUME NEW text, NEW l, NEW longer, More(text, l, longer), l.says \in Naming,
           NEW ps, NEW places, SeenIs(text, ps, places),
           NEW qs \in [NamedBy(text) \cup {l.addr} -> PortalRec],
           NEW later, later = IF l.addr \in DOMAIN ps THEN places ELSE Append(places, l.addr)
    PROVE  SeenIs(longer, qs, later)
<1> DEFINE N == NamedBy(text)
           a == l.addr
<1>1. NamedBy(longer) = N \cup {a}
  BY NamedByMore
<1>2. /\ DOMAIN ps = N /\ places \in Seq(N) /\ N = {places[k] : k \in DOMAIN places}
      /\ \A j, k \in DOMAIN places : places[j] = places[k] => j = k
  BY DEF SeenIs
<1>3. later = IF a \in N THEN places ELSE Append(places, a)
  BY <1>2
<1> HIDE DEF N, a
<1>4. CASE a \in N
  <2>1. N \cup {a} = N /\ later = places
    BY <1>3, <1>4
  <2> QED BY <1>1, <1>2, <2>1 DEF SeenIs, N, a
<1>5. CASE a \notin N
  <2>1. later = Append(places, a)
    BY <1>3, <1>5
  <2>2. places \in Seq(N \cup {a}) /\ a \in N \cup {a}
    BY <1>2
  <2>3. later \in Seq(N \cup {a})
    BY <2>1, <2>2
  <2> DEFINE m == Len(places)
  <2>4. /\ m \in Nat /\ DOMAIN places = 1..m /\ DOMAIN later = 1..m + 1
        /\ later[m + 1] = a /\ \A k \in 1..m : later[k] = places[k]
    BY <1>2, <2>1, <2>2
  <2> HIDE DEF m
  <2>5. \A k \in 1..m + 1 : k \in 1..m \/ k = m + 1
    BY <2>4
  <2>6. m + 1 \in 1..m + 1 /\ \A k \in 1..m : k \in 1..m + 1
    BY <2>4
  <2>7. N \cup {a} = {later[k] : k \in DOMAIN later}
    BY <1>2, <2>4, <2>5, <2>6
  <2>8. \A j, k \in DOMAIN later : later[j] = later[k] => j = k
    <3>1. \A k \in 1..m : places[k] # a
      BY <1>2, <1>5, <2>4
    <3> QED BY <1>2, <2>4, <2>5, <3>1
  <2> QED BY <1>1, <2>3, <2>7, <2>8 DEF SeenIs, N, a
<1> QED BY <1>4, <1>5

LEMMA WithIs ==
    ASSUME NEW addr
    PROVE  /\ DOMAIN With(addr) = DOMAIN portals \cup {addr}
           /\ \A a \in DOMAIN portals : With(addr)[a] = portals[a]
           /\ addr \notin DOMAIN portals => With(addr)[addr] = NewPortal
           /\ With(addr) = [a \in DOMAIN With(addr) |-> With(addr)[a]]
BY DEF With

LEMMA NewPortalIs == NewPortal \in PortalRec /\ NewPortal.gateways = <<>>
<1>1. "" \in Value
  BY DEF Value
<1>2. NoFacts \in [Fields -> Value]
  BY <1>1 DEF NoFacts
<1>3. <<>> \in Seq(GatewayRec)
  OBVIOUS
<1> HIDE DEF GatewayRec
<1> QED BY <1>1, <1>2, <1>3 DEF NewPortal, PortalRec

LEMMA ChosenIs ==
    ASSUME NEW g \in Seq(GatewayRec), NEW name
    PROVE  Chosen(g, name) \in SUBSET Value
<1> DEFINE named == {k \in DOMAIN g : g[k].name = name}
<1>1. Len(g) \in Nat /\ DOMAIN g = 1..Len(g)
  <2> HIDE DEF GatewayRec
  <2> QED OBVIOUS
<1>2. \A k \in DOMAIN g : g[k] \in GatewayRec
  <2> HIDE DEF GatewayRec
  <2> QED BY <1>1, ElementOfSeq
<1>3. \A k \in DOMAIN g : g[k].fqdn \in Value
  BY <1>2 DEF GatewayRec
<1>4. named \in SUBSET (1..Len(g))
  BY <1>1
<1>5. named # {} => LastOf(named) \in named
  <2> HIDE DEF named
  <2> QED BY <1>1, <1>4, LastIs
<1>6. named # {} => g[LastOf(named)].fqdn \in Value
  BY <1>1, <1>3, <1>4, <1>5
<1>7. Chosen(g, name) = IF name = "" \/ named = {} THEN {} ELSE {g[LastOf(named)].fqdn}
  BY DEF Chosen, LastOf
<1> HIDE DEF named
<1> QED BY <1>6, <1>7

LEMMA CommittedIs ==
    ASSUME NEW p \in PortalRec, NEW g \in Seq(GatewayRec), NEW name, roundCnt \in Nat
    PROVE  /\ Committed(p, g, name) \in PortalRec
           /\ Committed(p, g, name).gateways = g /\ Committed(p, g, name).facts = p.facts
<1> DEFINE s == IF Chosen(g, name) = {} THEN p.selected ELSE CHOOSE x \in Chosen(g, name) : TRUE
           c == IF roundCnt > 0 THEN roundCnt ELSE p.count
<1>1. s \in Value
  <2>1. p.selected \in Value
    BY DEF PortalRec
  <2> QED BY <2>1, ChosenIs
<1>2. c \in Nat
  BY DEF PortalRec
<1>3. Committed(p, g, name) = [p EXCEPT !.gateways = g, !.count = c, !.selected = s]
  BY DEF Committed, PortalRec
<1> HIDE DEF s, c
<1>4. p \in [facts : [Fields -> Value], user : Value, gateways : Seq(GatewayRec), count : Nat,
     selected : Value, success : BOOLEAN, tunnels : Nat, hips : Nat, reply : Value,
     first : Nat, last : Nat]
  BY DEF PortalRec
<1>5. [p EXCEPT !.gateways = g, !.count = c, !.selected = s] \in PortalRec
  BY <1>1, <1>2, <1>4 DEF PortalRec
<1>6. /\ [p EXCEPT !.gateways = g, !.count = c, !.selected = s].gateways = g
      /\ [p EXCEPT !.gateways = g, !.count = c, !.selected = s].facts = p.facts
  BY <1>4
<1> QED BY <1>3, <1>5, <1>6

\* A round goes to a portal that is known.
LEMMA CommitDone ==
    ASSUME SeenIs(fed, portals, portalsSeen), Owner \in NamedBy(fed) \cup {""}, roundCnt \in Nat,
           NEW g \in Seq(GatewayRec), NEW name, CommitPortalRound(g, name)
    PROVE  /\ portalsSeen' = portalsSeen /\ portals' \in [NamedBy(fed) -> PortalRec]
           /\ ~Commits(g) => portals' = portals
           /\ Commits(g) => /\ portals'[Owner].gateways = g
                            /\ \A a \in DOMAIN portals : a # Owner => portals'[a] = portals[a]
                            /\ portals'[Owner].facts = portals[Owner].facts
                            /\ Owner \in NamedBy(fed)
<1>1. portals \in [NamedBy(fed) -> PortalRec]
  BY DEF SeenIs
<1>4. ASSUME NEW p \in PortalRec
      PROVE  /\ Committed(p, g, name) \in PortalRec
             /\ Committed(p, g, name).gateways = g /\ Committed(p, g, name).facts = p.facts
  BY CommittedIs, Zenon
<1>2. CASE ~Commits(g)
  BY <1>1, <1>2 DEF CommitPortalRound
<1>3. CASE Commits(g)
  <2>1. Owner \in NamedBy(fed)
    BY <1>3 DEF Commits
  <2>2. /\ Register(Owner)
        /\ portals' = [With(Owner) EXCEPT ![Owner] = Committed(@, g, name)]
    BY <1>3 DEF CommitPortalRound
  <2>3. portalsSeen' = portalsSeen
    BY <1>1, <2>1, <2>2 DEF Register
  <2> DEFINE w == With(Owner)
             c == Committed(w[Owner], g, name)
             o == Owner
  <2>4. DOMAIN w = NamedBy(fed) /\ (\A a \in NamedBy(fed) : w[a] = portals[a]) /\ w = [a \in DOMAIN w |-> w[a]]
    BY <1>1, <2>1, WithIs
  <2>5. w[o] = portals[o] /\ portals[o] \in PortalRec
    BY <1>1, <2>1, <2>4
  <2>6. c \in PortalRec /\ c.gateways = g /\ c.facts = portals[o].facts
    <3>1. w[o] \in PortalRec
      BY <2>5
    <3>2. /\ Committed(w[o], g, name) \in PortalRec
          /\ Committed(w[o], g, name).gateways = g /\ Committed(w[o], g, name).facts = w[o].facts
      <4> HIDE DEF w, o, c
      <4> QED BY <3>1, <1>4
    <3>3. c = Committed(w[o], g, name)
      OBVIOUS
    <3> HIDE DEF w, o, c
    <3> QED BY <2>5, <3>2, <3>3
  <2>7. portals' = [w EXCEPT ![o] = c]
    BY <2>2
  <2>8. o \in NamedBy(fed)
    BY <2>1
  <2> HIDE DEF w, c, o
  <2>9. portals' \in [NamedBy(fed) -> PortalRec] /\ portals'[o] = c
        /\ \A a \in NamedBy(fed) : a # o => portals'[a] = portals[a]
    <3>1. \A a \in NamedBy(fed) : w[a] \in PortalRec
      BY <1>1, <2>4
    <3> HIDE DEF PortalRec
    <3> QED BY <2>4, <2>6, <2>7, <2>8, <3>1
  <2> QED BY <1>1, <1>3, <2>3, <2>6, <2>8, <2>9 DEF o
<1> QED BY <1>2, <1>3

----------------------------------------------------------------------------
(* One line keeps the invariant.                                           *)

LEMMA FedMore ==
    ASSUME FoldInv, NEW l \in PortalLine, Feed(l)
    PROVE  /\ More(fed, l, fed') /\ fed' \in Seq(PortalLine) /\ feed' \in Feeds
           /\ \A a \in NamedBy(fed) \cup {""} : a \in NamedBy(fed') \cup {""}
<1>1. More(fed, l, fed') /\ feed' \in Feeds
  BY DEF FoldInv, FoldTypes, Feed, More
<1>2. fed' \in Seq(PortalLine)
  BY <1>1, Longer
<1>3. NamedBy(fed') = NamedBy(fed) \cup (IF l.says \in Naming THEN {l.addr} ELSE {})
  BY <1>1, NamedByMore
<1> QED BY <1>1, <1>2, <1>3

LEMMA InvParts ==
    ASSUME FoldInv
    PROVE  /\ fed \in Seq(PortalLine) /\ DOMAIN fed = 1..Len(fed)
           /\ portals \in [NamedBy(fed) -> PortalRec] /\ DOMAIN portals = NamedBy(fed)
           /\ SameFacts(portals, portals) /\ SameRounds(fed, portals, portals)
<1>1. fed \in Seq(PortalLine) /\ portals \in [NamedBy(fed) -> PortalRec]
  BY DEF FoldInv, FoldTypes, SeenIs
<1>2. DOMAIN fed = 1..Len(fed)
  <2> HIDE DEF PortalLine
  <2> QED BY <1>1
<1> QED BY <1>1, <1>2 DEF SameFacts, SameRounds

LEMMA NewLoginKeeps ==
    ASSUME FoldInv, NEW l \in PortalLine, NewLogin(l)
    PROVE  FoldInv'
<1>0. /\ l.says = "prelogin" /\ Feed(l) /\ pending' = NoFacts /\ current' = ""
      /\ round' = <<>> /\ roundOpen' = FALSE
      /\ portals' = portals /\ portalsSeen' = portalsSeen /\ roundCnt' = roundCnt /\ roundOwner' = roundOwner
  BY DEF NewLogin
<1>1. /\ More(fed, l, fed') /\ fed' \in Seq(PortalLine) /\ feed' \in Feeds
      /\ \A a \in NamedBy(fed) \cup {""} : a \in NamedBy(fed') \cup {""}
  BY <1>0, FedMore
<1>2. l.says \notin Naming /\ l.says # "fact" /\ l.says # "discover"
  BY <1>0 DEF Naming
<1>3. /\ portals \in [NamedBy(fed) -> PortalRec]
      /\ SameFacts(portals, portals) /\ SameRounds(fed, portals, portals)
  BY InvParts
<1>4. FoldTypes'
  <2>1. "" \in Value
    BY DEF Value
  <2>2. NoFacts \in [Fields -> Value]
    BY <2>1 DEF NoFacts
  <2>3. <<>> \in Seq(GatewayRec)
    OBVIOUS
  <2> HIDE DEF GatewayRec
  <2> QED BY <1>0, <1>1, <2>2, <2>3 DEF FoldInv, FoldTypes
<1>5. SeenIs(fed', portals', portalsSeen')
  BY <1>0, <1>1, <1>2, <1>3, SeenStays DEF FoldInv
<1>6. CurrentIs(fed', current')
  BY <1>0, <1>1, CurrentMore DEF FoldInv
<1>7. FactsAre(fed', portals) /\ PendingIs(fed', NoFacts)
  <2>1. FactsAre(fed, portals) /\ PendingIs(fed, pending)
    BY DEF FoldInv
  <2>2. /\ FactsAre(fed', portals)
        /\ PendingIs(fed', IF l.says = "prelogin" THEN NoFacts ELSE pending)
    BY <1>1, <1>2, <1>3, <2>1, SayNothing
  <2> QED BY <1>0, <2>2
<1>8. RoundsAre(fed', portals)
  <2>1. NoneEnds(fed, l)
    BY <1>0 DEF NoneEnds, EndsNow
  <2> QED BY <1>1, <1>3, <2>1, RoundsSame DEF FoldInv
<1>9. RoundIs(fed', round', roundOwner', roundOpen')
  <2>1. RoundIs(fed', <<>>, roundOwner', FALSE)
    BY <1>0, <1>1, <1>2, NoneOpens
  <2> QED BY <1>0, <2>1
<1> QED BY <1>0, <1>4, <1>5, <1>6, <1>7, <1>8, <1>9 DEF FoldInv

\* A line that leaves the round and the portals' names.
LEMMA RoundUntouched ==
    ASSUME FoldInv, NEW l \in PortalLine, More(fed, l, fed'),
           l.says \notin {"prelogin", "discover", "chosen"}, l.says \notin OfGateway
    PROVE  NoneEnds(fed, l) /\ RoundIs(fed', round, roundOwner, roundOpen)
<1>1. NoneEnds(fed, l)
  BY DEF NoneEnds, EndsNow
<1>2. RoundIs(fed, round, roundOwner, roundOpen) /\ roundOpen \in BOOLEAN
  BY DEF FoldInv, FoldTypes
<1>3. RoundIs(fed', round, roundOwner, roundOpen)
  <2>1. RoundReads(l, round, round, roundOpen)
    BY DEF RoundReads
  <2> QED BY <1>2, <2>1, RoundStays
<1> QED BY <1>1, <1>3

LEMMA FactKeeps ==
    ASSUME FoldInv, NEW l \in PortalLine, Fact(l)
    PROVE  FoldInv'
<1>0. /\ l.says = "fact" /\ Feed(l) /\ portalsSeen' = portalsSeen /\ current' = current
      /\ round' = round /\ roundCnt' = roundCnt /\ roundOwner' = roundOwner /\ roundOpen' = roundOpen
  BY DEF Fact, roundState
<1>1. /\ More(fed, l, fed') /\ fed' \in Seq(PortalLine) /\ feed' \in Feeds
      /\ \A a \in NamedBy(fed) \cup {""} : a \in NamedBy(fed') \cup {""}
  BY <1>0, FedMore
<1>2. l.says \notin Naming /\ l.says # "prelogin" /\ l.says \notin OfGateway
      /\ l.says \notin {"prelogin", "discover", "chosen"}
  BY <1>0 DEF Naming, OfGateway
<1>3. /\ portals \in [NamedBy(fed) -> PortalRec] /\ DOMAIN portals = NamedBy(fed)
      /\ SameRounds(fed, portals, portals) /\ fed \in Seq(PortalLine)
  BY InvParts
<1>4. /\ FactsAre(fed, portals) /\ PendingIs(fed, pending) /\ RoundsAre(fed, portals)
      /\ CurrentIs(fed, current) /\ pending \in [Fields -> Value] /\ SeenIs(fed, portals, portalsSeen)
  BY DEF FoldInv, FoldTypes
<1>5. /\ current = "" <=> NamingNow(fed) = {}
      /\ NamingNow(fed) # {} => current = fed[LastOf(NamingNow(fed))].addr
      /\ current # "" => current \in NamedBy(fed)
  BY <1>3, <1>4, CurrentNamed
<1>6. /\ pending' \in [Fields -> Value] /\ portals' \in [NamedBy(fed) -> PortalRec]
      /\ FactsAre(fed', portals') /\ PendingIs(fed', pending') /\ SameRounds(fed, portals, portals')
  <2>1. CASE current = ""
    <3>1. pending' = SetFact(pending, l.field, l.value) /\ portals' = portals
      BY <2>1 DEF Fact
    <3>2. pending' \in [Fields -> Value]
      BY <1>0, <1>4, <3>1, SetFactIs
    <3>3. FactsAre(fed', portals) /\ PendingIs(fed', SetFact(pending, l.field, l.value))
      BY <1>0, <1>1, <1>4, <1>5, <2>1, FactHeld
    <3> QED BY <1>3, <3>1, <3>2, <3>3
  <2>2. CASE current # ""
    <3> DEFINE c == current
               facts == SetFact(portals[c].facts, l.field, l.value)
               q == portals'
               p == portals
    <3>1. pending' = pending /\ q = [p EXCEPT ![c].facts = facts]
      BY <2>2 DEF Fact
    <3>2. p[c] \in PortalRec /\ c \in NamedBy(fed)
      BY <1>3, <1>5, <2>2
    <3>3. p[c].facts \in [Fields -> Value]
      BY <3>2 DEF PortalRec
    <3>4. facts \in [Fields -> Value]
      BY <1>0, <3>3, SetFactIs
    <3>5. [p[c] EXCEPT !.facts = facts] \in PortalRec /\ [p[c] EXCEPT !.facts = facts].facts = facts
          /\ [p[c] EXCEPT !.facts = facts].gateways = p[c].gateways
      <4> HIDE DEF facts, p, c, q
      <4> QED BY <3>2, <3>4 DEF PortalRec
    <3>6. p \in [NamedBy(fed) -> PortalRec] /\ DOMAIN p = NamedBy(fed)
      BY <1>3
    <3> HIDE DEF c, facts, q, p
    <3>7. /\ q \in [NamedBy(fed) -> PortalRec] /\ DOMAIN q = DOMAIN p
          /\ q[c] = [p[c] EXCEPT !.facts = facts] /\ \A a \in DOMAIN p : a # c => q[a] = p[a]
      <4> HIDE DEF PortalRec
      <4> QED BY <3>1, <3>2, <3>5, <3>6
    <3>8. q[c].facts = facts /\ q[c].gateways = p[c].gateways
      BY <3>5, <3>7
    <3>9. SameRounds(fed, p, q)
      BY <3>7, <3>8 DEF SameRounds
    <3>10. FactsAre(fed', q) /\ PendingIs(fed', pending)
      <4>1. NamingNow(fed) # {} /\ c = fed[LastOf(NamingNow(fed))].addr
        BY <1>5, <2>2 DEF c
      <4>2. FactsAre(fed, p) /\ PendingIs(fed, pending)
        BY <1>4 DEF p
      <4>3. TellsOf(p, q, c, l)
        <5>1. q[c].facts = SetFact(p[c].facts, l.field, l.value)
          BY <3>8 DEF facts, p, c
        <5>2. c \in DOMAIN p /\ \A a \in DOMAIN p : a # c => q[a].facts = p[a].facts
          BY <3>2, <3>6, <3>7
        <5> QED BY <3>3, <3>7, <5>1, <5>2 DEF TellsOf
      <4>4. NamedNow(fed, c)
        BY <4>1 DEF NamedNow
      <4> QED BY <1>0, <1>1, <4>2, <4>3, <4>4, FactTold
    <3> QED BY <1>4, <3>1, <3>7, <3>9, <3>10 DEF q, p
  <2> QED BY <2>1, <2>2
<1>7. FoldTypes'
  BY <1>0, <1>1, <1>6 DEF FoldInv, FoldTypes
<1>8. SeenIs(fed', portals', portalsSeen')
  BY <1>0, <1>1, <1>2, <1>4, <1>6, SeenStays
<1>9. CurrentIs(fed', current')
  BY <1>0, <1>1, <1>2, <1>4, CurrentMore
<1>10. NoneEnds(fed, l) /\ RoundIs(fed', round, roundOwner, roundOpen)
  BY <1>1, <1>2, RoundUntouched
<1>11. RoundsAre(fed', portals')
  BY <1>1, <1>4, <1>6, <1>10, RoundsSame
<1> QED BY <1>0, <1>6, <1>7, <1>8, <1>9, <1>10, <1>11 DEF FoldInv

\* The record of a portal that a line names.
LEMMA NamedInIs ==
    ASSUME NEW p \in PortalRec, NEW l \in PortalLine, pending \in [Fields -> Value],
           Len(fed') \in Nat
    PROVE  /\ NamedIn(p, l) \in PortalRec /\ NamedIn(p, l).gateways = p.gateways
           /\ \A f \in Fields : NamedIn(p, l).facts[f] =
                                 IF pending[f] # "" THEN pending[f] ELSE p.facts[f]
<1> DEFINE facts == [f \in Fields |-> IF pending[f] # "" THEN pending[f] ELSE p.facts[f]]
           m == Len(fed')
           first == IF p.first = 0 THEN m ELSE p.first
<1>1. /\ p.facts \in [Fields -> Value] /\ p.first \in Nat
  BY DEF PortalRec
<1>2. facts \in [Fields -> Value]
  <2>1. \A f \in Fields : facts[f] \in Value
    BY <1>1
  <2> QED BY <2>1
<1>3. first \in Nat /\ m \in Nat
  BY <1>1
<1>4. WithHeld(p) = [p EXCEPT !.facts = facts, !.first = first, !.last = m]
  BY DEF WithHeld
<1>5. \A f \in Fields : facts[f] = IF pending[f] # "" THEN pending[f] ELSE p.facts[f]
  OBVIOUS
<1> HIDE DEF facts, m, first
<1>6. /\ WithHeld(p) \in PortalRec /\ WithHeld(p).gateways = p.gateways
      /\ WithHeld(p).facts = facts
  BY <1>2, <1>3, <1>4 DEF PortalRec
<1> DEFINE w == WithHeld(p)
<1> HIDE DEF w
<1> DEFINE user == IF l.value # "" THEN l.value ELSE w.user
           success == w.success \/ l.says = "completed"
           r == NamedIn(p, l)
<1>7. w \in PortalRec
  BY <1>6 DEF w
<1>8. user \in Value /\ success \in BOOLEAN
  BY <1>7, FedLineIs DEF PortalRec
<1>9. r = [w EXCEPT !.user = user, !.success = success]
  BY <1>7 DEF NamedIn, w, PortalRec
<1> HIDE DEF user, success, r
<1>10. r \in PortalRec /\ r.gateways = w.gateways /\ r.facts = w.facts
  BY <1>7, <1>8, <1>9 DEF PortalRec
<1> QED BY <1>5, <1>6, <1>10 DEF w, r

LEMMA NamePortalKeeps ==
    ASSUME FoldInv, NEW l \in PortalLine, NamePortal(l)
    PROVE  FoldInv'
<1> DEFINE a == l.addr
<1>0. /\ l.says \in Naming /\ Feed(l) /\ current' = a /\ pending' = NoFacts /\ Register(a)
      /\ round' = round /\ roundCnt' = roundCnt /\ roundOwner' = roundOwner /\ roundOpen' = roundOpen
  BY DEF NamePortal, roundState
<1>1. /\ More(fed, l, fed') /\ fed' \in Seq(PortalLine) /\ feed' \in Feeds
      /\ \A b \in NamedBy(fed) \cup {""} : b \in NamedBy(fed') \cup {""}
  BY <1>0, FedMore
<1>2. l.says # "fact" /\ l.says \notin {"prelogin", "discover", "chosen"} /\ l.says \notin OfGateway
  BY <1>0 DEF Naming, OfGateway
<1>3. /\ portals \in [NamedBy(fed) -> PortalRec] /\ DOMAIN portals = NamedBy(fed)
      /\ fed \in Seq(PortalLine)
  BY InvParts
<1>4. /\ FactsAre(fed, portals) /\ PendingIs(fed, pending) /\ RoundsAre(fed, portals)
      /\ CurrentIs(fed, current) /\ pending \in [Fields -> Value] /\ SeenIs(fed, portals, portalsSeen)
  BY DEF FoldInv, FoldTypes
<1> DEFINE N == NamedBy(fed)
           w == With(a)
           p == w[a]
           r == NamedIn(p, l)
           q == portals'
<1>5. q = [w EXCEPT ![a] = r]
  BY DEF NamePortal
<1>6. /\ DOMAIN w = N \cup {a} /\ (\A b \in N : w[b] = portals[b]) /\ (a \notin N => p = NewPortal)
      /\ w = [b \in DOMAIN w |-> w[b]]
  BY <1>3, WithIs
<1>7. p \in PortalRec
  BY <1>3, <1>6, NewPortalIs
<1>8. /\ r \in PortalRec /\ r.gateways = p.gateways
      /\ \A f \in Fields : r.facts[f] = IF pending[f] # "" THEN pending[f] ELSE p.facts[f]
  <2>1. Len(fed') \in Nat
    <3>1. Len(fed') = Len(fed) + 1 /\ Len(fed) \in Nat
      BY <1>1, Longer
    <3> QED BY <3>1
  <2> HIDE DEF p
  <2> QED BY <1>4, <1>7, <2>1, NamedInIs
<1> HIDE DEF N, w, p, r, q
<1>9. /\ q \in [N \cup {a} -> PortalRec] /\ q[a] = r /\ \A b \in N : b # a => q[b] = portals[b]
  <2>1. \A b \in N \cup {a} : w[b] \in PortalRec
    BY <1>3, <1>6, <1>7 DEF p, N
  <2> HIDE DEF PortalRec, a
  <2> QED BY <1>5, <1>6, <1>8, <2>1
<1>10. TakesHeld(portals, q, pending, a)
  <2>1. DOMAIN q = DOMAIN portals \cup {a}
    BY <1>3, <1>9 DEF N
  <2>2. \A b \in DOMAIN portals : b # a => q[b].facts = portals[b].facts
    BY <1>3, <1>9 DEF N
  <2>3. ASSUME NEW f \in Fields
        PROVE  q[a].facts[f] = IF pending[f] # "" THEN pending[f]
                               ELSE IF a \in DOMAIN portals THEN portals[a].facts[f] ELSE ""
    <3>1. q[a].facts[f] = IF pending[f] # "" THEN pending[f] ELSE p.facts[f]
      BY <1>8, <1>9
    <3>2. a \in DOMAIN portals => p = portals[a]
      BY <1>3, <1>6 DEF p, N
    <3>3. a \notin DOMAIN portals => p.facts[f] = ""
      <4>1. NewPortal.facts[f] = ""
        BY DEF NewPortal, NoFacts
      <4>2. a \notin DOMAIN portals => p = NewPortal
        BY <1>3, <1>6 DEF N
      <4> QED BY <4>1, <4>2
    <3> QED BY <3>1, <3>2, <3>3
  <2> QED BY <2>1, <2>2, <2>3 DEF TakesHeld
<1>11. FactsAre(fed', q) /\ PendingIs(fed', NoFacts)
  BY <1>0, <1>1, <1>3, <1>4, <1>10, FactsNamed DEF a
<1>12. SameRounds(fed, portals, q)
  <2>1. \A b \in N : b # a => NamesOf(q[b].gateways) = NamesOf(portals[b].gateways)
    BY <1>9
  <2>2. a \in N => NamesOf(q[a].gateways) = NamesOf(portals[a].gateways)
    BY <1>6, <1>8, <1>9 DEF p
  <2>3. a \notin N => NamesOf(q[a].gateways) = {}
    <3>1. a \notin N => q[a].gateways = <<>>
      BY <1>6, <1>8, <1>9, NewPortalIs
    <3> QED BY <3>1 DEF NamesOf
  <2>4. \A b \in DOMAIN q : b \in N \/ (b = a /\ a \notin N)
    BY <1>9
  <2> HIDE DEF a
  <2> QED BY <1>3, <2>1, <2>2, <2>3, <2>4 DEF SameRounds, N
<1>13. NoneEnds(fed, l) /\ RoundIs(fed', round, roundOwner, roundOpen)
  BY <1>1, <1>2, RoundUntouched
<1>14. RoundsAre(fed', q)
  BY <1>1, <1>4, <1>12, <1>13, RoundsSame
<1>15. SeenIs(fed', q, portalsSeen')
  <2>1. portalsSeen' = IF a \in DOMAIN portals THEN portalsSeen ELSE Append(portalsSeen, a)
    BY <1>0 DEF Register
  <2>2. q \in [NamedBy(fed) \cup {l.addr} -> PortalRec]
    BY <1>9 DEF N
  <2> QED BY <1>0, <1>1, <1>4, <2>1, <2>2, SeenNamed
<1>16. CurrentIs(fed', current')
  BY <1>0, <1>1, <1>4, CurrentMore
<1>17. FoldTypes'
  <2>1. "" \in Value
    BY DEF Value
  <2>2. NoFacts \in [Fields -> Value]
    BY <2>1 DEF NoFacts
  <2> QED BY <1>0, <1>1, <2>2 DEF FoldInv, FoldTypes
<1> QED BY <1>0, <1>11, <1>13, <1>14, <1>15, <1>16, <1>17 DEF FoldInv, q

LEMMA DescribedIs ==
    ASSUME NEW g \in GatewayRec, NEW l \in PortalLine
    PROVE  Described(g, l) \in GatewayRec /\ Described(g, l).fqdn = g.fqdn
<1>1. l.value \in Value /\ "manual-only" \in Value
  BY FedLineIs DEF Value
<1>2. g \in [fqdn : Value, name : Value, manual : BOOLEAN, excluded : Value, selected : BOOLEAN]
  BY DEF GatewayRec
<1> DEFINE v == l.value
           s == l.says
           n == l.n
<1>3. v \in Value
  BY <1>1
<1>4. Described(g, l) =
        CASE s = "one" -> [g EXCEPT !.manual = @ \/ n = 1]
          [] s = "manual only" -> [g EXCEPT !.excluded = "manual-only"]
          [] s \in {"description", "weight"} -> [g EXCEPT !.name = v]
          [] s = "address" -> [g EXCEPT !.name = IF @ = "" THEN v ELSE @]
          [] OTHER -> g
  BY DEF Described
<1> HIDE DEF v, s, n
<1>5. CASE s = "one"
  BY <1>2, <1>4, <1>5 DEF GatewayRec
<1>6. CASE s = "manual only"
  BY <1>1, <1>2, <1>4, <1>6 DEF GatewayRec
<1>7. CASE s = "description" \/ s = "weight"
  BY <1>2, <1>3, <1>4, <1>7 DEF GatewayRec
<1>8. CASE s = "address"
  BY <1>2, <1>3, <1>4, <1>8 DEF GatewayRec
<1>9. CASE s \notin {"one", "manual only", "description", "weight", "address"}
  BY <1>2, <1>4, <1>9 DEF GatewayRec
<1> QED BY <1>5, <1>6, <1>7, <1>8, <1>9

LEMMA RoundWithIs ==
    ASSUME round \in Seq(GatewayRec), NEW a \in Value
    PROVE  RoundWith(a) \in Seq(GatewayRec) /\ NamesOf(RoundWith(a)) = NamesOf(round) \cup {a}
<1> DEFINE g == NewPortalGateway(a)
           m == Len(round)
<1>1. "" \in Value
  BY DEF Value
<1>2. g \in GatewayRec /\ g.fqdn = a
  BY <1>1 DEF NewPortalGateway, GatewayRec
<1>3. m \in Nat /\ DOMAIN round = 1..m
  <2> HIDE DEF GatewayRec
  <2> QED OBVIOUS
<1>4. CASE \E k \in DOMAIN round : round[k].fqdn = a
  <2>1. RoundWith(a) = round
    BY <1>4 DEF RoundWith
  <2> QED BY <1>4, <2>1 DEF NamesOf
<1>5. CASE ~\E k \in DOMAIN round : round[k].fqdn = a
  <2>1. RoundWith(a) = Append(round, g)
    BY <1>5 DEF RoundWith
  <2> HIDE DEF g
  <2> DEFINE r == Append(round, g)
  <2>2. /\ r \in Seq(GatewayRec) /\ DOMAIN r = 1..m + 1 /\ r[m + 1] = g
        /\ \A k \in 1..m : r[k] = round[k]
    BY <1>2, <1>3
  <2> HIDE DEF r, m
  <2>3. 1..m + 1 = (1..m) \cup {m + 1}
    BY <1>3
  <2>4. NamesOf(r) = NamesOf(round) \cup {g.fqdn}
    BY <1>3, <2>2, <2>3 DEF NamesOf
  <2> QED BY <1>2, <2>1, <2>2, <2>4 DEF r
<1> QED BY <1>4, <1>5

LEMMA DescribeGatewayRound ==
    ASSUME FoldInv, NEW l \in PortalLine, DescribeGateway(l)
    PROVE  /\ round' \in Seq(GatewayRec)
           /\ ~roundOpen => round' = round
           /\ roundOpen => NamesOf(round') = NamesOf(round) \cup {l.addr}
<1>0. round \in Seq(GatewayRec)
  BY DEF FoldInv, FoldTypes
<1>1. CASE ~roundOpen
  BY <1>0, <1>1 DEF DescribeGateway
<1>2. CASE roundOpen
  <2> DEFINE w == RoundWith(l.addr)
             r == round'
             m == Len(w)
  <2>1. r = [k \in DOMAIN w |-> IF w[k].fqdn = l.addr THEN Described(w[k], l) ELSE w[k]]
    BY <1>2 DEF DescribeGateway
  <2>2. w \in Seq(GatewayRec) /\ NamesOf(w) = NamesOf(round) \cup {l.addr}
    BY <1>0, FedLineIs, RoundWithIs
  <2> HIDE DEF w, r
  <2>3. m \in Nat /\ DOMAIN w = 1..m
    BY <2>2
  <2>4. \A k \in 1..m : w[k] \in GatewayRec
    BY <2>2, ElementOfSeq
  <2> HIDE DEF m
  <2>5. \A k \in 1..m : r[k] = IF w[k].fqdn = l.addr THEN Described(w[k], l) ELSE w[k]
    BY <2>1, <2>3
  <2>6. \A k \in 1..m : r[k] \in GatewayRec /\ r[k].fqdn = w[k].fqdn
    BY <2>4, <2>5, DescribedIs
  <2>7. DOMAIN r = 1..m /\ r = [k \in 1..m |-> r[k]]
    BY <2>1, <2>3
  <2>8. r \in Seq(GatewayRec)
    BY <2>3, <2>6, <2>7, SeqIs
  <2>9. NamesOf(r) = NamesOf(w)
    BY <2>3, <2>6, <2>7 DEF NamesOf
  <2> QED BY <1>2, <2>2, <2>8, <2>9 DEF r
<1> QED BY <1>1, <1>2

LEMMA ExcludeByRegionRound ==
    ASSUME FoldInv, NEW l \in PortalLine, ExcludeByRegion(l)
    PROVE  /\ round' \in Seq(GatewayRec)
           /\ ~roundOpen => round' = round
           /\ NamesOf(round') = NamesOf(round)
<1>0. round \in Seq(GatewayRec)
  BY DEF FoldInv, FoldTypes
<1>1. CASE ~(roundOpen /\ l.n < Len(round))
  BY <1>0, <1>1 DEF ExcludeByRegion
<1>2. CASE roundOpen /\ l.n < Len(round)
  <2> DEFINE r == round'
             m == Len(round)
             i == l.n + 1
  <2>1. r = [round EXCEPT ![i].excluded = "region"]
    BY <1>2 DEF ExcludeByRegion
  <2>2. m \in Nat /\ DOMAIN round = 1..m /\ l.n \in Nat /\ l.n < m
    <3>1. l.n \in Nat
      BY FedLineIs
    <3> HIDE DEF GatewayRec
    <3> QED BY <1>0, <1>2, <3>1
  <2>3. i \in 1..m
    BY <2>2
  <2>4. \A k \in 1..m : round[k] \in GatewayRec
    BY <1>0, ElementOfSeq
  <2>5. "region" \in Value
    BY DEF Value
  <2> HIDE DEF r, m, i
  <2>6. /\ [round[i] EXCEPT !.excluded = "region"] \in GatewayRec
        /\ [round[i] EXCEPT !.excluded = "region"].fqdn = round[i].fqdn
    BY <2>3, <2>4, <2>5 DEF GatewayRec
  <2>7. DOMAIN r = 1..m /\ r[i] = [round[i] EXCEPT !.excluded = "region"]
        /\ r = [k \in 1..m |-> r[k]] /\ \A k \in 1..m : k # i => r[k] = round[k]
    BY <2>1, <2>2, <2>3
  <2>8. \A k \in 1..m : r[k] \in GatewayRec /\ r[k].fqdn = round[k].fqdn
    BY <2>4, <2>6, <2>7
  <2>9. r \in Seq(GatewayRec)
    BY <2>2, <2>7, <2>8, SeqIs
  <2>10. NamesOf(r) = NamesOf(round)
    BY <2>2, <2>7, <2>8 DEF NamesOf
  <2> QED BY <1>2, <2>9, <2>10 DEF r
<1> QED BY <1>1, <1>2

LEMMA RoundRead ==
    ASSUME FoldInv, NEW l, More(fed, l, fed'), l.says \notin {"prelogin", "discover", "chosen"},
           NEW h, RoundReads(l, round, h, roundOpen)
    PROVE  RoundIs(fed', h, roundOwner, roundOpen)
<1>1. RoundIs(fed, round, roundOwner, roundOpen) /\ roundOpen \in BOOLEAN
  BY DEF FoldInv, FoldTypes
<1> QED BY <1>1, RoundStays

\* The lines of a round.
LEMMA RoundLineKeeps ==
    ASSUME FoldInv, NEW l \in PortalLine, DescribeGateway(l) \/ ExcludeByRegion(l)
    PROVE  FoldInv'
<1>0. /\ l.says \in OfGateway \/ l.says = "region mismatch"
      /\ Feed(l) /\ portals' = portals /\ portalsSeen' = portalsSeen /\ current' = current
      /\ pending' = pending
      /\ roundCnt' = roundCnt /\ roundOwner' = roundOwner /\ roundOpen' = roundOpen
  BY DEF DescribeGateway, ExcludeByRegion
<1>1. /\ More(fed, l, fed') /\ fed' \in Seq(PortalLine) /\ feed' \in Feeds
      /\ \A b \in NamedBy(fed) \cup {""} : b \in NamedBy(fed') \cup {""}
  BY <1>0, FedMore
<1>2. l.says # "fact" /\ l.says # "prelogin" /\ l.says \notin Naming
      /\ l.says \notin {"prelogin", "discover", "chosen"}
  BY <1>0 DEF Naming, OfGateway
<1>3. /\ portals \in [NamedBy(fed) -> PortalRec]
      /\ SameFacts(portals, portals) /\ SameRounds(fed, portals, portals)
  BY InvParts
<1>4. /\ FactsAre(fed, portals) /\ PendingIs(fed, pending) /\ RoundsAre(fed, portals)
      /\ CurrentIs(fed, current) /\ SeenIs(fed, portals, portalsSeen)
      /\ RoundIs(fed, round, roundOwner, roundOpen) /\ roundOpen \in BOOLEAN
  BY DEF FoldInv, FoldTypes
<1>5. /\ round' \in Seq(GatewayRec)
      /\ ~roundOpen => round' = round
      /\ roundOpen => NamesOf(round') = NamesOf(round) \cup (IF l.says \in OfGateway THEN {l.addr} ELSE {})
  <2>1. CASE DescribeGateway(l)
    <3>1. l.says \in OfGateway
      BY <2>1 DEF DescribeGateway
    <3> QED BY <2>1, <3>1, DescribeGatewayRound
  <2>2. CASE ExcludeByRegion(l)
    <3>1. l.says \notin OfGateway
      BY <2>2 DEF ExcludeByRegion, OfGateway
    <3> QED BY <2>2, <3>1, ExcludeByRegionRound
  <2> QED BY <2>1, <2>2
<1>6. RoundIs(fed', round', roundOwner, roundOpen)
  <2>1. RoundReads(l, round, round', roundOpen)
    BY <1>5 DEF RoundReads
  <2> QED BY <1>1, <1>2, <2>1, RoundRead
<1>7. NoneEnds(fed, l)
  BY <1>2 DEF NoneEnds, EndsNow
<1>8. RoundsAre(fed', portals)
  BY <1>1, <1>3, <1>4, <1>7, RoundsSame
<1>9. FactsAre(fed', portals) /\ PendingIs(fed', pending)
  <2>1. /\ FactsAre(fed', portals)
        /\ PendingIs(fed', IF l.says = "prelogin" THEN NoFacts ELSE pending)
    BY <1>1, <1>2, <1>3, <1>4, SayNothing
  <2> QED BY <1>2, <2>1
<1>10. SeenIs(fed', portals, portalsSeen)
  BY <1>1, <1>2, <1>3, <1>4, SeenStays
<1>11. CurrentIs(fed', current)
  BY <1>1, <1>2, <1>4, CurrentMore
<1>12. FoldTypes'
  BY <1>0, <1>1, <1>5 DEF FoldInv, FoldTypes
<1> QED BY <1>0, <1>6, <1>8, <1>9, <1>10, <1>11, <1>12 DEF FoldInv

LEMMA HappenedIs ==
    ASSUME NEW p \in PortalRec, NEW l \in PortalLine
    PROVE  /\ Happened(p, l) \in PortalRec /\ Happened(p, l).facts = p.facts
           /\ Happened(p, l).gateways = p.gateways
<1>1. l.value \in Value
  BY FedLineIs
<1> DEFINE v == l.value
           s == l.says
<1>2. v \in Value
  BY <1>1
<1>3. Happened(p, l) =
        CASE s = "tunnel" -> [p EXCEPT !.tunnels = @ + 1]
          [] s = "hip" -> [p EXCEPT !.hips = @ + 1]
          [] s = "reply" -> [p EXCEPT !.reply = v]
          [] OTHER -> [p EXCEPT !.user = IF @ = "" THEN v ELSE @]
  BY DEF Happened
<1> HIDE DEF v, s
<1>4. CASE s = "tunnel"
  BY <1>2, <1>3, <1>4 DEF PortalRec
<1>5. CASE s = "hip"
  BY <1>2, <1>3, <1>5 DEF PortalRec
<1>6. CASE s = "reply"
  BY <1>2, <1>3, <1>6 DEF PortalRec
<1>7. CASE s \notin {"tunnel", "hip", "reply"}
  BY <1>2, <1>3, <1>7 DEF PortalRec
<1> QED BY <1>4, <1>5, <1>6, <1>7

LEMMA PortalOutcomeKeeps ==
    ASSUME FoldInv, NEW l \in PortalLine, PortalOutcome(l)
    PROVE  FoldInv'
<1>0. /\ l.says \in {"tunnel", "hip", "reply", "user"}
      /\ Feed(l) /\ portalsSeen' = portalsSeen /\ current' = current /\ pending' = pending
      /\ round' = round /\ roundCnt' = roundCnt /\ roundOwner' = roundOwner /\ roundOpen' = roundOpen
  BY DEF PortalOutcome, roundState
<1>1. /\ More(fed, l, fed') /\ fed' \in Seq(PortalLine) /\ feed' \in Feeds
      /\ \A b \in NamedBy(fed) \cup {""} : b \in NamedBy(fed') \cup {""}
  BY <1>0, FedMore
<1>2. l.says # "fact" /\ l.says # "prelogin" /\ l.says \notin Naming /\ l.says \notin OfGateway
      /\ l.says \notin {"prelogin", "discover", "chosen"}
  BY <1>0 DEF Naming, OfGateway
<1>3. /\ portals \in [NamedBy(fed) -> PortalRec] /\ DOMAIN portals = NamedBy(fed)
      /\ SameFacts(portals, portals) /\ SameRounds(fed, portals, portals) /\ fed \in Seq(PortalLine)
  BY InvParts
<1>4. /\ FactsAre(fed, portals) /\ PendingIs(fed, pending) /\ RoundsAre(fed, portals)
      /\ CurrentIs(fed, current) /\ SeenIs(fed, portals, portalsSeen)
  BY DEF FoldInv, FoldTypes
<1>5. /\ portals' \in [NamedBy(fed) -> PortalRec]
      /\ SameFacts(portals, portals') /\ SameRounds(fed, portals, portals')
  <2>1. CASE current = ""
    <3>1. portals' = portals
      BY <2>1 DEF PortalOutcome
    <3> QED BY <1>3, <3>1
  <2>2. CASE current # ""
    <3> DEFINE c == current
               p == portals
               q == portals'
               h == Happened(p[c], l)
    <3>1. q = [p EXCEPT ![c] = h]
      BY <2>2 DEF PortalOutcome
    <3>2. c \in NamedBy(fed)
      BY <1>3, <1>4, <2>2, CurrentNamed
    <3>3. p \in [NamedBy(fed) -> PortalRec] /\ DOMAIN p = NamedBy(fed)
      BY <1>3
    <3>4. p[c] \in PortalRec
      BY <3>2, <3>3
    <3> HIDE DEF c, p, q
    <3>5. h \in PortalRec /\ h.facts = p[c].facts /\ h.gateways = p[c].gateways
      BY <3>4, HappenedIs
    <3> HIDE DEF h
    <3>6. /\ q \in [NamedBy(fed) -> PortalRec] /\ DOMAIN q = DOMAIN p
          /\ q[c] = h /\ \A a \in DOMAIN p : a # c => q[a] = p[a]
      <4> HIDE DEF PortalRec
      <4> QED BY <3>1, <3>2, <3>3, <3>5
    <3>7. SameFacts(p, q) /\ SameRounds(fed, p, q)
      BY <3>5, <3>6 DEF SameFacts, SameRounds
    <3> QED BY <3>6, <3>7 DEF p, q
  <2> QED BY <2>1, <2>2
<1>6. NoneEnds(fed, l) /\ RoundIs(fed', round, roundOwner, roundOpen)
  BY <1>1, <1>2, RoundUntouched
<1>7. RoundsAre(fed', portals')
  BY <1>1, <1>4, <1>5, <1>6, RoundsSame
<1>8. FactsAre(fed', portals') /\ PendingIs(fed', pending)
  <2>1. /\ FactsAre(fed', portals')
        /\ PendingIs(fed', IF l.says = "prelogin" THEN NoFacts ELSE pending)
    BY <1>1, <1>2, <1>4, <1>5, SayNothing
  <2> QED BY <1>2, <2>1
<1>9. SeenIs(fed', portals', portalsSeen)
  BY <1>1, <1>2, <1>4, <1>5, SeenStays
<1>10. CurrentIs(fed', current)
  BY <1>1, <1>2, <1>4, CurrentMore
<1>11. FoldTypes'
  BY <1>0, <1>1 DEF FoldInv, FoldTypes
<1> QED BY <1>0, <1>6, <1>7, <1>8, <1>9, <1>10, <1>11 DEF FoldInv

----------------------------------------------------------------------------
(* The end of a round.                                                     *)

\* The gateways that are committed are the open round's.
LEMMA CommitKeeps ==
    ASSUME FoldInv, NEW l \in PortalLine, More(fed, l, fed'), l.says \in {"chosen", "discover"},
           NEW d \in 1..Len(fed), OpenAt(fed, d, round, roundOwner),
           NEW g \in Seq(GatewayRec), NamesOf(g) = NamesOf(round), NEW name,
           CommitPortalRound(g, name)
    PROVE  /\ SeenIs(fed', portals', portalsSeen') /\ FactsAre(fed', portals')
           /\ RoundsAre(fed', portals')
           /\ Counts(fed, d, Len(fed) + 1) <=> Commits(g)
<1> DEFINE own == Owner
<1>1. /\ SeenIs(fed, portals, portalsSeen) /\ CurrentIs(fed, current) /\ roundCnt \in Nat
      /\ roundOwner \in NamedBy(fed) \cup {""} /\ FactsAre(fed, portals) /\ PendingIs(fed, pending)
      /\ RoundsAre(fed, portals)
  BY DEF FoldInv, FoldTypes
<1>2. /\ fed \in Seq(PortalLine) /\ portals \in [NamedBy(fed) -> PortalRec]
      /\ DOMAIN portals = NamedBy(fed)
      /\ SameFacts(portals, portals) /\ SameRounds(fed, portals, portals)
  BY InvParts
<1>3. own = IF roundOwner # "" THEN roundOwner ELSE current
  BY DEF Owner
<1>4. own \in NamedBy(fed) \cup {""}
  BY <1>1, <1>2, <1>3, CurrentNamed
<1>5. /\ portalsSeen' = portalsSeen /\ portals' \in [NamedBy(fed) -> PortalRec]
      /\ ~Commits(g) => portals' = portals
      /\ Commits(g) => /\ portals'[own].gateways = g
                       /\ \A a \in DOMAIN portals : a # own => portals'[a] = portals[a]
                       /\ portals'[own].facts = portals[own].facts
                       /\ own \in NamedBy(fed)
  BY <1>1, <1>4, CommitDone
<1>6. OpenAt(fed, d, g, roundOwner)
  BY DEF OpenAt
<1>7. /\ Counts(fed, d, Len(fed) + 1) <=> own # "" /\ g # <<>>
      /\ own # "" => RoundPortalAt(fed, d, Len(fed) + 1) = {own}
  BY <1>1, <1>2, <1>3, <1>6, EndsOpen
<1>8. Counts(fed, d, Len(fed) + 1) <=> Commits(g)
  BY <1>7 DEF Commits
<1>9. l.says \notin Naming /\ l.says # "fact" /\ l.says # "prelogin"
  BY DEF Naming
<1>10. SeenIs(fed', portals', portalsSeen')
  BY <1>1, <1>5, <1>9, SeenStays
<1>11. SameFacts(portals, portals')
  BY <1>2, <1>5 DEF SameFacts
<1>12. FactsAre(fed', portals')
  BY <1>1, <1>9, <1>11, SayNothing
<1>13. EndsNow(fed, l, d) <=> Commits(g)
  BY <1>6, <1>8 DEF EndsNow, OpenAt
<1>14. RoundsAre(fed', portals')
  <2>1. CASE Commits(g)
    <3>1. own # ""
      BY <2>1 DEF Commits
    <3>2. NamesOf(portals'[own].gateways) = AddrsOf(fed, d, Len(fed) + 1)
      BY <1>5, <1>6, <2>1 DEF OpenAt, AddrsOf
    <3>3. \A a \in DOMAIN portals : a # own => portals'[a].gateways = portals[a].gateways
      BY <1>5, <2>1
    <3>4. DOMAIN portals' = DOMAIN portals
      BY <1>2, <1>5
    <3>5. EndsNow(fed, l, d) /\ RoundPortalAt(fed, d, Len(fed) + 1) = {own}
      BY <1>7, <1>13, <2>1, <3>1
    <3>6. GivenTo(fed, d, portals, portals', own)
      BY <3>2, <3>3, <3>4 DEF GivenTo
    <3> HIDE DEF own
    <3> QED BY <1>1, <3>5, <3>6, RoundsEnded
  <2>2. CASE ~Commits(g)
    <3>1. portals' = portals
      BY <1>5, <2>2
    <3>2. NoneEnds(fed, l)
      <4>1. ASSUME NEW x \in 1..Len(fed), EndsNow(fed, l, x)
            PROVE  x = d
        <5>1. OpenFrom(fed, x) /\ OpenFrom(fed, d)
          BY <1>6, <4>1 DEF EndsNow, OpenAt
        <5> QED BY <1>2, <5>1, OpenOnce
      <4> QED BY <1>13, <2>2, <4>1 DEF NoneEnds
    <3> QED BY <1>1, <1>2, <3>1, <3>2, RoundsSame
  <2> QED BY <2>1, <2>2
<1> QED BY <1>8, <1>10, <1>12, <1>14

LEMMA SaidNothing ==
    ASSUME FoldInv, NEW l \in PortalLine, More(fed, l, fed'), l.says \in {"chosen", "discover"}
    PROVE  /\ FactsAre(fed', portals) /\ PendingIs(fed', pending) /\ CurrentIs(fed', current)
           /\ SeenIs(fed', portals, portalsSeen)
           /\ NoneEnds(fed, l) => RoundsAre(fed', portals)
<1>1. l.says # "fact" /\ l.says # "prelogin" /\ l.says \notin Naming
  BY DEF Naming
<1>2. /\ portals \in [NamedBy(fed) -> PortalRec]
      /\ SameFacts(portals, portals) /\ SameRounds(fed, portals, portals)
  BY InvParts
<1>3. /\ FactsAre(fed, portals) /\ PendingIs(fed, pending) /\ RoundsAre(fed, portals)
      /\ CurrentIs(fed, current) /\ SeenIs(fed, portals, portalsSeen)
  BY DEF FoldInv
<1>4. FactsAre(fed', portals) /\ PendingIs(fed', pending)
  <2>1. /\ FactsAre(fed', portals)
        /\ PendingIs(fed', IF l.says = "prelogin" THEN NoFacts ELSE pending)
    BY <1>1, <1>2, <1>3, SayNothing
  <2> QED BY <1>1, <2>1
<1>5. CurrentIs(fed', current)
  BY <1>1, <1>3, CurrentMore
<1>6. SeenIs(fed', portals, portalsSeen)
  BY <1>1, <1>2, <1>3, SeenStays
<1>7. NoneEnds(fed, l) => RoundsAre(fed', portals)
  BY <1>2, <1>3, RoundsSame
<1> QED BY <1>4, <1>5, <1>6, <1>7

\* No round is open, or one is.
LEMMA OpenOrNot ==
    ASSUME FoldInv
    PROVE  /\ roundOpen => \E d \in 1..Len(fed) : OpenAt(fed, d, round, roundOwner)
           /\ ~roundOpen => round = <<>> /\ \A d \in 1..Len(fed) : ~OpenFrom(fed, d)
           /\ round \in Seq(GatewayRec)
<1>1. RoundIs(fed, round, roundOwner, roundOpen) /\ round \in Seq(GatewayRec)
  BY DEF FoldInv, FoldTypes
<1>2. DOMAIN fed = 1..Len(fed)
  BY InvParts
<1> QED BY <1>1, <1>2 DEF RoundIs

LEMMA DiscoverKeeps ==
    ASSUME FoldInv, NEW l \in PortalLine, Discover(l)
    PROVE  FoldInv'
<1>0. /\ l.says = "discover" /\ Feed(l) /\ CommitPortalRound(round, "") /\ current' = current
      /\ pending' = pending /\ round' = <<>> /\ roundOwner' = current /\ roundOpen' = TRUE
      /\ roundCnt' = l.n
  BY DEF Discover
<1>1. /\ More(fed, l, fed') /\ fed' \in Seq(PortalLine) /\ feed' \in Feeds
      /\ \A b \in NamedBy(fed) \cup {""} : b \in NamedBy(fed') \cup {""}
  BY <1>0, FedMore
<1>2. /\ FactsAre(fed', portals) /\ PendingIs(fed', pending) /\ CurrentIs(fed', current)
      /\ SeenIs(fed', portals, portalsSeen)
      /\ NoneEnds(fed, l) => RoundsAre(fed', portals)
  BY <1>0, <1>1, SaidNothing
<1>3. /\ SeenIs(fed', portals', portalsSeen') /\ FactsAre(fed', portals')
      /\ RoundsAre(fed', portals')
  <2>1. CASE roundOpen
    <3>1. PICK d \in 1..Len(fed) : OpenAt(fed, d, round, roundOwner)
      BY <2>1, OpenOrNot
    <3>2. round \in Seq(GatewayRec) /\ NamesOf(round) = NamesOf(round)
      BY OpenOrNot
    <3> QED BY <1>0, <1>1, <3>1, <3>2, CommitKeeps
  <2>2. CASE ~roundOpen
    <3>1. round = <<>> /\ \A d \in 1..Len(fed) : ~OpenFrom(fed, d)
      BY <2>2, OpenOrNot
    <3>2. portals' = portals /\ portalsSeen' = portalsSeen
      BY <1>0, <3>1 DEF CommitPortalRound, Commits
    <3>3. NoneEnds(fed, l)
      BY <3>1 DEF NoneEnds, EndsNow
    <3> QED BY <1>2, <3>2, <3>3
  <2> QED BY <2>1, <2>2
<1>4. RoundIs(fed', <<>>, current, TRUE)
  BY <1>0, <1>1, OpensNow DEF FoldInv
<1>5. FoldTypes'
  <2>1. <<>> \in Seq(GatewayRec)
    OBVIOUS
  <2>2. current \in NamedBy(fed) \cup {""}
    <3>1. CurrentIs(fed, current) /\ fed \in Seq(PortalLine)
      BY DEF FoldInv, FoldTypes
    <3> QED BY <3>1, CurrentNamed
  <2>3. current \in NamedBy(fed') \cup {""}
    BY <1>1, <2>2
  <2>4. l.n \in Nat
    BY FedLineIs
  <2>5. pending \in [Fields -> Value]
    BY DEF FoldInv, FoldTypes
  <2> HIDE DEF GatewayRec
  <2> QED BY <1>0, <1>1, <2>1, <2>3, <2>4, <2>5 DEF FoldTypes
<1> QED BY <1>0, <1>2, <1>3, <1>4, <1>5 DEF FoldInv

LEMMA MarkedIs ==
    ASSUME NEW g \in Seq(GatewayRec), NEW value
    PROVE  Marked(g, value) \in Seq(GatewayRec) /\ NamesOf(Marked(g, value)) = NamesOf(g)
<1> DEFINE m == Len(g)
           h == Marked(g, value)
<1>1. m \in Nat /\ DOMAIN g = 1..m
  <2> HIDE DEF GatewayRec
  <2> QED OBVIOUS
<1>2. \A k \in 1..m : g[k] \in GatewayRec
  BY ElementOfSeq
<1>3. ASSUME NEW r \in GatewayRec
      PROVE  /\ [r EXCEPT !.selected = r.name = value] \in GatewayRec
             /\ [r EXCEPT !.selected = r.name = value].fqdn = r.fqdn
  <2>1. (r.name = value) \in BOOLEAN
    OBVIOUS
  <2> DEFINE b == r.name = value
  <2> HIDE DEF b
  <2> QED BY <1>3, <2>1 DEF GatewayRec, b
<1>8. h = [k \in DOMAIN g |-> [g[k] EXCEPT !.selected = g[k].name = value]]
  BY DEF Marked
<1> HIDE DEF m, h
<1>4. \A k \in 1..m : h[k] = [g[k] EXCEPT !.selected = g[k].name = value]
  BY <1>1, <1>8
<1>5. \A k \in 1..m : h[k] \in GatewayRec /\ h[k].fqdn = g[k].fqdn
  BY <1>2, <1>3, <1>4
<1>6. DOMAIN h = 1..m /\ h = [k \in 1..m |-> h[k]]
  BY <1>1, <1>8
<1>7. h \in Seq(GatewayRec)
  BY <1>1, <1>5, <1>6, SeqIs
<1> QED BY <1>1, <1>5, <1>6, <1>7 DEF NamesOf, h

LEMMA ChooseGatewayKeeps ==
    ASSUME FoldInv, NEW l \in PortalLine, ChooseGateway(l)
    PROVE  FoldInv'
<1> DEFINE marked == Marked(round, l.value)
<1>0. /\ l.says = "chosen" /\ Feed(l) /\ current' = current /\ pending' = pending
      /\ roundCnt' = roundCnt /\ roundOwner' = roundOwner
      /\ ~roundOpen => /\ portals' = portals /\ portalsSeen' = portalsSeen
                       /\ round' = round /\ roundOpen' = roundOpen
      /\ roundOpen => /\ CommitPortalRound(marked, l.value)
                      /\ round' = IF Commits(marked) THEN <<>> ELSE marked
                      /\ roundOpen' = ~Commits(marked)
  BY DEF ChooseGateway
<1>1. /\ More(fed, l, fed') /\ fed' \in Seq(PortalLine) /\ feed' \in Feeds
      /\ \A b \in NamedBy(fed) \cup {""} : b \in NamedBy(fed') \cup {""}
  BY <1>0, FedMore
<1>2. /\ FactsAre(fed', portals) /\ PendingIs(fed', pending) /\ CurrentIs(fed', current)
      /\ SeenIs(fed', portals, portalsSeen)
      /\ NoneEnds(fed, l) => RoundsAre(fed', portals)
  BY <1>0, <1>1, SaidNothing
<1>3. marked \in Seq(GatewayRec) /\ NamesOf(marked) = NamesOf(round)
  BY OpenOrNot, MarkedIs
<1>4. fed \in Seq(PortalLine)
  BY InvParts
<1> HIDE DEF marked
<1>5. /\ SeenIs(fed', portals', portalsSeen') /\ FactsAre(fed', portals')
      /\ RoundsAre(fed', portals')
      /\ round' \in Seq(GatewayRec) /\ roundOpen' \in BOOLEAN
      /\ RoundIs(fed', round', roundOwner, roundOpen')
  <2>1. CASE roundOpen
    <3>1. PICK d \in 1..Len(fed) : OpenAt(fed, d, round, roundOwner)
      BY <2>1, OpenOrNot
    <3>2. /\ SeenIs(fed', portals', portalsSeen') /\ FactsAre(fed', portals')
          /\ RoundsAre(fed', portals')
          /\ Counts(fed, d, Len(fed) + 1) <=> Commits(marked)
      BY <1>0, <1>1, <1>3, <2>1, <3>1, CommitKeeps
    <3>3. CASE Commits(marked)
      <4>1. round' = <<>> /\ roundOpen' = FALSE
        BY <1>0, <2>1, <3>3
      <4>2. \A x \in 1..Len(fed) : OpenFrom(fed, x) => x = d
        <5>1. OpenFrom(fed, d)
          BY <3>1 DEF OpenAt
        <5> QED BY <1>4, <5>1, OpenOnce
      <4>3. \A x \in 1..Len(fed) :
               ~OpenFrom(fed, x) \/ (l.says = "chosen" /\ Counts(fed, x, Len(fed) + 1))
        BY <1>0, <3>2, <3>3, <4>2
      <4>4. RoundIs(fed', <<>>, roundOwner, FALSE)
        BY <1>0, <1>1, <4>3, NoneOpens
      <4>5. <<>> \in Seq(GatewayRec)
        OBVIOUS
      <4> HIDE DEF GatewayRec
      <4> QED BY <3>2, <4>1, <4>4, <4>5
    <3>4. CASE ~Commits(marked)
      <4>1. round' = marked /\ roundOpen' = TRUE
        BY <1>0, <2>1, <3>4
      <4>2. NamesOf(marked) = NamesOf(round) \cup (IF l.says \in OfGateway THEN {l.addr} ELSE {})
        BY <1>0, <1>3 DEF OfGateway
      <4>3. d \in 1..Len(fed') /\ OpenAt(fed', d, marked, roundOwner)
        BY <1>0, <1>1, <3>1, <3>2, <3>4, <4>2, OpenStays
      <4>4. DOMAIN fed' = 1..Len(fed')
        BY <1>1, Longer
      <4>5. RoundIs(fed', marked, roundOwner, TRUE)
        BY <4>3, <4>4 DEF RoundIs
      <4> QED BY <1>3, <3>2, <4>1, <4>5
    <3> QED BY <3>3, <3>4
  <2>2. CASE ~roundOpen
    <3>1. round = <<>> /\ round \in Seq(GatewayRec) /\ \A d \in 1..Len(fed) : ~OpenFrom(fed, d)
      BY <2>2, OpenOrNot
    <3>2. NoneEnds(fed, l)
      BY <3>1 DEF NoneEnds, EndsNow
    <3>3. RoundIs(fed', <<>>, roundOwner, FALSE)
      BY <1>0, <1>1, <3>1, NoneOpens
    <3>4. portals' = portals /\ portalsSeen' = portalsSeen /\ round' = round /\ roundOpen' = roundOpen
      BY <1>0, <2>2
    <3>5. roundOpen \in BOOLEAN
      BY DEF FoldInv, FoldTypes
    <3>6. roundOpen' = FALSE
      BY <2>2, <3>4, <3>5
    <3> QED BY <1>2, <3>1, <3>2, <3>3, <3>4, <3>6
  <2> QED BY <2>1, <2>2
<1>6. FoldTypes'
  BY <1>0, <1>1, <1>5 DEF FoldInv, FoldTypes
<1> QED BY <1>0, <1>2, <1>5, <1>6 DEF FoldInv

----------------------------------------------------------------------------
(* The invariant.                                                          *)

LEMMA NextLinesAre == FoldTypes => NextLines \in SUBSET PortalLine
<1> SUFFICES ASSUME FoldTypes
             PROVE  NextLines \in SUBSET PortalLine
  OBVIOUS
<1>1. feed \in [start : Seq(PortalLine), lines : SUBSET PortalLine]
  BY PortalsAssumption DEF FoldTypes
<1>2. feed.start \in Seq(PortalLine) /\ feed.lines \in SUBSET PortalLine
  <2> HIDE DEF PortalLine
  <2> QED BY <1>1
<1>3. Len(fed) \in Nat
  <2>1. fed \in Seq(PortalLine)
    BY DEF FoldTypes
  <2> HIDE DEF PortalLine
  <2> QED BY <2>1
<1>4. Len(fed) < Len(feed.start) => feed.start[Len(fed) + 1] \in PortalLine
  <2> DEFINE s == feed.start
             k == Len(fed) + 1
  <2>1. s \in Seq(PortalLine) /\ Len(s) \in Nat
    <3> HIDE DEF PortalLine
    <3> QED BY <1>2
  <2>2. Len(fed) < Len(s) => k \in 1..Len(s)
    BY <1>3, <2>1
  <2> HIDE DEF s, k
  <2>3. Len(fed) < Len(s) => s[k] \in PortalLine
    BY <2>1, <2>2, ElementOfSeq
  <2> QED BY <2>3 DEF s, k
<1> QED BY <1>2, <1>4 DEF NextLines

LEMMA FoldInitially == FoldInit => FoldInv
<1> SUFFICES ASSUME FoldInit
             PROVE  FoldInv
  OBVIOUS
<1>0. /\ feed \in Feeds /\ fed = <<>> /\ portals = <<>> /\ portalsSeen = <<>> /\ current = ""
      /\ pending = NoFacts /\ round = <<>> /\ roundCnt = 0 /\ roundOwner = "" /\ roundOpen = FALSE
  BY DEF FoldInit
<1>1. DOMAIN <<>> = {} /\ Len(<<>>) = 0
  OBVIOUS
<1>2. \A S : Lines(<<>>, S) = {}
  BY <1>1 DEF Lines
<1>3. NamingNow(<<>>) = {} /\ NamedBy(<<>>) = {} /\ \A f : HeldOf(<<>>, f) = {}
  BY <1>2 DEF NamingNow, NamedBy, HeldOf
<1>4. FoldTypes
  <2>1. "" \in Value
    BY DEF Value
  <2>2. NoFacts \in [Fields -> Value]
    BY <2>1 DEF NoFacts
  <2>3. <<>> \in Seq(GatewayRec) /\ <<>> \in Seq(PortalLine)
    OBVIOUS
  <2> HIDE DEF GatewayRec, PortalLine
  <2> QED BY <1>0, <2>2, <2>3 DEF FoldTypes
<1>5. SeenIs(fed, portals, portalsSeen)
  <2>1. <<>> \in [{} -> PortalRec] /\ <<>> \in Seq({})
    BY <1>1
  <2> QED BY <1>0, <1>1, <1>3, <2>1 DEF SeenIs
<1>6. CurrentIs(fed, current)
  BY <1>0, <1>3 DEF CurrentIs
<1>7. PendingIs(fed, pending)
  BY <1>0, <1>3 DEF PendingIs, SaidLast, NoFacts
<1>8. FactsAre(fed, portals) /\ RoundsAre(fed, portals)
  BY <1>0, <1>1 DEF FactsAre, RoundsAre
<1>9. RoundIs(fed, round, roundOwner, roundOpen)
  BY <1>0, <1>1 DEF RoundIs
<1> QED BY <1>4, <1>5, <1>6, <1>7, <1>8, <1>9 DEF FoldInv

LEMMA FoldStep == FoldInv /\ [FoldNext]_foldVars => FoldInv'
<1> SUFFICES ASSUME FoldInv, [FoldNext]_foldVars
             PROVE  FoldInv'
  OBVIOUS
<1>1. CASE FoldNext
  <2>1. PICK l \in NextLines : FeedLine(l)
    BY <1>1 DEF FoldNext
  <2>2. l \in PortalLine
    BY <2>1, NextLinesAre DEF FoldInv
  <2>3. \/ NewLogin(l) \/ Fact(l) \/ NamePortal(l) \/ Discover(l) \/ DescribeGateway(l)
        \/ ExcludeByRegion(l) \/ ChooseGateway(l) \/ PortalOutcome(l)
    BY <2>1 DEF FeedLine
  <2> QED BY <2>2, <2>3, NewLoginKeeps, FactKeeps, NamePortalKeeps, DiscoverKeeps, RoundLineKeeps,
             ChooseGatewayKeeps, PortalOutcomeKeeps
<1>2. CASE UNCHANGED foldVars
  BY <1>2 DEF foldVars, FoldInv, FoldTypes
<1> QED BY <1>1, <1>2

LEMMA FoldInvHolds == FoldSpec => []FoldInv
BY FoldInitially, FoldStep, PTL DEF FoldSpec

----------------------------------------------------------------------------
(* The portals that are reported.                                          *)

Preceding == {x \in (DOMAIN portalsSeen) \X (DOMAIN portalsSeen) : Precedes(x[1], x[2])}

LEMMA PrecedingOrders ==
    ASSUME FoldInv
    PROVE  /\ Len(portalsSeen) \in Nat /\ DOMAIN portalsSeen = 1..Len(portalsSeen)
           /\ \A k \in DOMAIN portalsSeen : portalsSeen[k] \in DOMAIN portals
           /\ Orders(1..Len(portalsSeen), Preceding)
<1> DEFINE n == Len(portalsSeen)
           D == 1..n
           R == Preceding
           s == [i \in D |-> IF PortalOf(i).success THEN 0 ELSE 1]
           t == [i \in D |-> PortalOf(i).last]
<1>1. /\ portalsSeen \in Seq(NamedBy(fed)) /\ portals \in [NamedBy(fed) -> PortalRec]
  BY DEF FoldInv, SeenIs
<1>2. n \in Nat /\ DOMAIN portalsSeen = D
  BY <1>1
<1>3. \A i \in D : portalsSeen[i] \in NamedBy(fed)
  BY <1>1, ElementOfSeq
<1>4. \A i \in D : PortalOf(i) \in PortalRec
  BY <1>1, <1>3 DEF PortalOf
<1>5. \A i \in D : PortalOf(i).success \in BOOLEAN /\ PortalOf(i).last \in Nat
  BY <1>4 DEF PortalRec
<1>6. \A i \in D : s[i] \in Nat /\ t[i] \in Nat /\ i \in Nat
  BY <1>2, <1>5
<1>7. \A i, j \in D : <<i, j>> \in R <=> Precedes(i, j)
  BY <1>2 DEF Preceding
<1>8. ASSUME NEW i \in D, NEW j \in D
      PROVE  Precedes(i, j) <=> IF s[i] # s[j] THEN s[i] < s[j]
                                ELSE IF t[i] # t[j] THEN t[i] > t[j] ELSE i < j
  <2>1. PortalOf(i).success \in BOOLEAN /\ PortalOf(j).success \in BOOLEAN
    BY <1>5
  <2>2. /\ s[i] = IF PortalOf(i).success THEN 0 ELSE 1
        /\ s[j] = IF PortalOf(j).success THEN 0 ELSE 1
        /\ t[i] = PortalOf(i).last /\ t[j] = PortalOf(j).last
    OBVIOUS
  <2>3. t[i] \in Nat /\ t[j] \in Nat /\ i \in Nat /\ j \in Nat
    BY <1>6
  <2> DEFINE a == PortalOf(i).success
             b == PortalOf(j).success
             u == PortalOf(i).last
             v == PortalOf(j).last
  <2>4. Precedes(i, j) <=> \/ a /\ ~b
                           \/ a = b /\ u > v
                           \/ a = b /\ u = v /\ i < j
    BY DEF Precedes
  <2> HIDE DEF D, s, t, a, b, u, v
  <2>5. a \in BOOLEAN /\ b \in BOOLEAN /\ s[i] = (IF a THEN 0 ELSE 1) /\ s[j] = (IF b THEN 0 ELSE 1)
        /\ t[i] = u /\ t[j] = v
    BY <2>1, <2>2 DEF a, b, u, v
  <2>6. CASE a = TRUE /\ b = TRUE
    BY <2>3, <2>4, <2>5, <2>6
  <2>7. CASE a = TRUE /\ b = FALSE
    <3>1. s[i] = 0 /\ s[j] = 1
      BY <2>5, <2>7
    <3>2. s[i] # s[j] /\ s[i] < s[j]
      BY <3>1
    <3>3. Precedes(i, j)
      BY <2>4, <2>7
    <3> QED BY <3>2, <3>3
  <2>8. CASE a = FALSE /\ b = TRUE
    <3>1. s[i] = 1 /\ s[j] = 0
      BY <2>5, <2>8
    <3>2. s[i] # s[j] /\ ~(s[i] < s[j])
      BY <3>1
    <3>3. ~Precedes(i, j)
      BY <2>4, <2>8
    <3> QED BY <3>2, <3>3
  <2>9. CASE a = FALSE /\ b = FALSE
    BY <2>3, <2>4, <2>5, <2>9
  <2> QED BY <2>5, <2>6, <2>7, <2>8, <2>9
<1> HIDE DEF D, R, s, t
<1>9. \A i, j \in D : <<i, j>> \in R <=> IF s[i] # s[j] THEN s[i] < s[j]
                                         ELSE IF t[i] # t[j] THEN t[i] > t[j] ELSE i < j
  BY <1>7, <1>8
<1>10. \A i \in D : <<i, i>> \notin R
  BY <1>6, <1>9
<1>11. ASSUME NEW i \in D, NEW j \in D, NEW k \in D, <<i, j>> \in R, <<j, k>> \in R
       PROVE  <<i, k>> \in R
  <2>1. /\ s[i] \in Nat /\ t[i] \in Nat /\ i \in Nat
        /\ s[j] \in Nat /\ t[j] \in Nat /\ j \in Nat
        /\ s[k] \in Nat /\ t[k] \in Nat /\ k \in Nat
    BY <1>6
  <2>2. IF s[i] # s[j] THEN s[i] < s[j] ELSE IF t[i] # t[j] THEN t[i] > t[j] ELSE i < j
    BY <1>9, <1>11
  <2>3. IF s[j] # s[k] THEN s[j] < s[k] ELSE IF t[j] # t[k] THEN t[j] > t[k] ELSE j < k
    BY <1>9, <1>11
  <2>4. IF s[i] # s[k] THEN s[i] < s[k] ELSE IF t[i] # t[k] THEN t[i] > t[k] ELSE i < k
    BY <2>1, <2>2, <2>3
  <2> QED BY <1>9, <2>4
<1>12. ASSUME NEW i \in D, NEW j \in D, i # j
       PROVE  <<i, j>> \in R \/ <<j, i>> \in R
  <2>1. /\ s[i] \in Nat /\ t[i] \in Nat /\ i \in Nat
        /\ s[j] \in Nat /\ t[j] \in Nat /\ j \in Nat
    BY <1>6
  <2>2. \/ IF s[i] # s[j] THEN s[i] < s[j] ELSE IF t[i] # t[j] THEN t[i] > t[j] ELSE i < j
        \/ IF s[j] # s[i] THEN s[j] < s[i] ELSE IF t[j] # t[i] THEN t[j] > t[i] ELSE j < i
    BY <1>12, <2>1
  <2> QED BY <1>9, <2>2
<1>13. Orders(D, R)
  BY <1>10, <1>11, <1>12 DEF Orders
<1> QED BY <1>1, <1>2, <1>3, <1>13 DEF D, R

LEMMA RankedIsOne ==
    ASSUME FoldInv
    PROVE  LET D == DOMAIN portalsSeen IN
           /\ \A k \in D : Ranked(k) \in D
           /\ \A i \in D : \E k \in D : Ranked(k) = i
           /\ \A j, k \in D : Ranked(j) = Ranked(k) => j = k
<1> DEFINE n == Len(portalsSeen)
           D == 1..n
           R == Preceding
<1>1. n \in Nat /\ DOMAIN portalsSeen = D /\ Orders(1..n, R)
  BY PrecedingOrders
<1>2. ASSUME NEW i \in D
      PROVE  PlaceIn(D, R, i) = Cardinality({j \in DOMAIN portalsSeen : Precedes(j, i)})
  <2>1. {j \in D : <<j, i>> \in R} = {j \in DOMAIN portalsSeen : Precedes(j, i)}
    BY <1>1 DEF Preceding
  <2> HIDE DEF D, R
  <2> QED BY <2>1 DEF PlaceIn
<1>3. \A k : PlaceAt(n, R, k) = CHOOSE i \in D : PlaceIn(D, R, i) = k - 1
  BY DEF PlaceAt
<1>4. \A k : Ranked(k) = PlaceAt(n, R, k)
  <2> HIDE DEF D, R
  <2> QED BY <1>1, <1>2, <1>3 DEF Ranked
<1>5. /\ \A k \in D : PlaceAt(n, R, k) \in D
      /\ \A i \in D : \E k \in D : PlaceAt(n, R, k) = i
      /\ \A j, k \in D : PlaceAt(n, R, j) = PlaceAt(n, R, k) => j = k
  <2> HIDE DEF n, R
  <2> QED BY <1>1, PlaceAtIs
<1> HIDE DEF D, R, n
<1> QED BY <1>1, <1>4, <1>5

LEMMA OwnIsKept ==
    ASSUME FoldInv
    PROVE  PortalsKeepTheirOwn
<1> DEFINE D == DOMAIN portalsSeen
           r == PortalResult
           at(k) == portalsSeen[Ranked(k)]
<1>1. /\ \A k \in D : Ranked(k) \in D
      /\ \A i \in D : \E k \in D : Ranked(k) = i
      /\ \A j, k \in D : Ranked(j) = Ranked(k) => j = k
  BY RankedIsOne
<1>2. /\ NamedBy(fed) = {portalsSeen[k] : k \in D}
      /\ \A j, k \in D : portalsSeen[j] = portalsSeen[k] => j = k
      /\ DOMAIN portals = NamedBy(fed)
  BY DEF FoldInv, SeenIs
<1>3. DOMAIN r = D /\ \A k \in D : r[k].address = at(k) /\ r[k].portal = portals[at(k)]
  BY DEF PortalResult, PortalOf
<1> HIDE DEF D, r
<1>4. {r[k].address : k \in DOMAIN r} = NamedBy(fed)
  <2>1. \A k \in D : r[k].address \in NamedBy(fed)
    BY <1>1, <1>2, <1>3
  <2>2. \A a \in NamedBy(fed) : \E k \in D : r[k].address = a
    <3> SUFFICES ASSUME NEW a \in NamedBy(fed)
                 PROVE  \E k \in D : r[k].address = a
      OBVIOUS
    <3>1. PICK i \in D : portalsSeen[i] = a
      BY <1>2
    <3>2. PICK k \in D : Ranked(k) = i
      BY <1>1
    <3> QED BY <1>3, <3>1, <3>2
  <2> QED BY <1>3, <2>1, <2>2
<1>5. IsInjective([k \in DOMAIN r |-> r[k].address])
  <2>1. ASSUME NEW j \in D, NEW k \in D, r[j].address = r[k].address
        PROVE  j = k
    <3>1. portalsSeen[Ranked(j)] = portalsSeen[Ranked(k)] /\ Ranked(j) \in D /\ Ranked(k) \in D
      BY <1>1, <1>3, <2>1
    <3> QED BY <1>1, <1>2, <3>1
  <2> QED BY <1>3, <2>1 DEF IsInjective
<1>6. ASSUME NEW k \in DOMAIN r
      PROVE  /\ FactsOfOwnLogin(fed, r[k].address, r[k].portal.facts)
             /\ RoundOfOwnPortal(fed, r[k].address, r[k].portal.gateways)
  <2>1. k \in D /\ at(k) \in DOMAIN portals
    BY <1>1, <1>2, <1>3
  <2>2. r[k].address = at(k) /\ r[k].portal = portals[at(k)]
    BY <1>3, <2>1
  <2>3. FactsAre(fed, portals) /\ RoundsAre(fed, portals)
    BY DEF FoldInv
  <2> HIDE DEF at
  <2>4. /\ FactsOfOwnLogin(fed, at(k), portals[at(k)].facts)
        /\ RoundOfOwnPortal(fed, at(k), portals[at(k)].gateways)
    BY <2>1, <2>3 DEF FactsAre, RoundsAre
  <2> QED BY <2>2, <2>4
<1> QED BY <1>4, <1>5, <1>6 DEF PortalsKeepTheirOwn, NamedBy, r

\* Of every log, however long: each portal that is named is reported once, with the
\* facts of its own logins and the gateways of its own newest round (portalFold.feed,
\* commitRound, result in backend/internal/parser/gpportal.go).
THEOREM PortalsAreKept == FoldSpec => []PortalsKeepTheirOwn
BY FoldInvHolds, OwnIsKept, PTL


----------------------------------------------------------------------------
(* The gateways of a collection (Gateways).                                *)

\* A list of gateways is what the lines at some places make it.
ListIs(text, places, gateways, portal) ==
    /\ gateways \in Seq(Gateway)
    /\ \A k \in DOMAIN gateways : gateways[k].portal = portal
    /\ \A j, k \in DOMAIN gateways : gateways[j].fqdn = gateways[k].fqdn => j = k
    /\ AllOfRound(text, places, {gateways[k] : k \in DOMAIN gateways})

\* The round that is open after n lines.
OpensAt(text, n, start) ==
    /\ start \in RoundStarts(text) /\ start <= n
    /\ \A r \in RoundStarts(text) : r <= start \/ r > n
OpenListIs(text, n, start, gateways, portal, tcp) ==
    /\ OpensAt(text, n, start) /\ portal = PortalOfRound(text, start)
    /\ ListIs(text, start+1..n, gateways, portal)
    /\ tcp \subseteq NumbersAt(text, start+1..n, {"tcp"})

\* The newest rounds of those that begin before one.
NewestOf(text, rounds, p, s) == s \in rounds /\ s \in RoundsOf(text, p) /\ \A r \in RoundsOf(text, p) \cap rounds : r <= s
NewestAre(text, rounds, com) ==
    /\ \A p \in DOMAIN com : \E s \in rounds :
          NewestOf(text, rounds, p, s) /\ ListIs(text, LinesOfRound(text, s), com[p], p)
    /\ \A s \in rounds : NamesGateways(text, s) => PortalOfRound(text, s) \in DOMAIN com

GatewayTypes ==
    /\ lines \in Seq(Statement) /\ seen \in 0..Len(lines)
    /\ portalOrder \in Seq(DOMAIN committed)
    /\ DOMAIN committed = {portalOrder[k] : k \in DOMAIN portalOrder}
    /\ lastTCP \in SUBSET Nat

GatewayInv ==
    /\ GatewayTypes
    /\ curPortal = PortalOfRound(lines, seen)
    /\ selection = <<>> =>
          \E start \in RoundStarts(lines) :
              /\ OpenListIs(lines, seen, start, order, roundPortal, lastTCP)
              /\ NewestAre(lines, {r \in RoundStarts(lines) : r < start}, committed)

HasElements(t, m, seqs) ==
    \A x : (\E k \in DOMAIN t : t[k] = x) <=> \E i \in 1..m : \E j \in DOMAIN seqs[i] : seqs[i][j] = x

\* The elements of a sequence of sequences, one after the other.
LEMMA FlattenIs ==
    ASSUME NEW A, NEW m \in Nat, NEW seqs, DOMAIN seqs = 1..m, Len(seqs) = m, m = 0 => seqs = <<>>,
           \A k \in 1..m : seqs[k] \in Seq(A)
    PROVE  FlattenSeq(seqs) \in Seq(A) /\ HasElements(FlattenSeq(seqs), m, seqs)
<1> DEFINE R(g) == g = [i \in 1..m |-> IF i = 1 THEN seqs[i] ELSE g[i-1] \o seqs[i]]
           flat == CHOOSE g : R(g)
           step == [k \in 1..m |-> [t \in Seq(A) |-> t \o seqs[k]]]
           In(t, x) == \E j \in DOMAIN t : t[j] = x
<1>1. FlattenSeq(seqs) = IF m = 0 THEN seqs ELSE flat[m]
  BY DEF FlattenSeq
<1>2. CASE m = 0
  <2>1. FlattenSeq(seqs) = <<>> /\ DOMAIN <<>> = {} /\ 1..m = {} /\ <<>> \in Seq(A)
    BY <1>1, <1>2
  <2>2. HasElements(<<>>, m, seqs)
    BY <2>1 DEF HasElements
  <2> QED BY <2>1, <2>2
<1>3. CASE m # 0
  <2>1. step \in [1..m -> [Seq(A) -> Seq(A)]] /\ \A k \in 1..m : \A t \in Seq(A) : step[k][t] = t \o seqs[k]
    OBVIOUS
  <2>2. <<>> \in Seq(A)
    OBVIOUS
  <2> HIDE DEF step
  <2>3. PICK h : Iterates(Seq(A), <<>>, m, step, h)
    BY <2>1, <2>2, IterationExists
  <2>4. h \in [0..m -> Seq(A)] /\ h[0] = <<>> /\ \A k \in 1..m : h[k] = step[k][h[k-1]]
    BY <2>3 DEF Iterates
  <2>5. \A k \in 1..m : k - 1 \in 0..m /\ k \in 0..m
    OBVIOUS
  <2>6. \A k \in 1..m : h[k] = h[k-1] \o seqs[k]
    BY <2>1, <2>4, <2>5
  <2>7. \E g : R(g)
    <3> DEFINE g == [i \in 1..m |-> h[i]]
    <3>1. ASSUME NEW i \in 1..m
          PROVE  g[i] = IF i = 1 THEN seqs[i] ELSE g[i-1] \o seqs[i]
      <4>1. CASE i = 1
        <5>1. h[1] = h[0] \o seqs[1]
          BY <2>6, <4>1
        <5>2. <<>> \o seqs[1] = seqs[1]
          BY <4>1
        <5> QED BY <2>4, <4>1, <5>1, <5>2
      <4>2. CASE i # 1
        <5>1. i - 1 \in 1..m
          BY <4>2
        <5> QED BY <2>6, <4>2, <5>1
      <4> QED BY <4>1, <4>2
    <3>2. g = [i \in 1..m |-> g[i]]
      OBVIOUS
    <3> HIDE DEF g
    <3>3. g = [i \in 1..m |-> IF i = 1 THEN seqs[i] ELSE g[i-1] \o seqs[i]]
      BY <3>1, <3>2
    <3> QED BY <3>3
  <2>8. R(flat)
    <3> HIDE DEF R
    <3> QED BY <2>7
  <2> HIDE DEF flat
  <2>9. \A i \in 1..m : flat[i] = IF i = 1 THEN seqs[i] ELSE flat[i-1] \o seqs[i]
    BY <2>8
  <2> DEFINE S == {k \in 0..m : k = 0 \/ /\ flat[k] \in Seq(A)
                                         /\ \A x : In(flat[k], x) <=> \E i \in 1..k : In(seqs[i], x)}
  <2>10. 0 \in S
    OBVIOUS
  <2>11. ASSUME NEW k \in 1..m, k - 1 \in S
         PROVE  k \in S
    <3>1. CASE k = 1
      <4>1. flat[1] = seqs[1] /\ \A i : i \in 1..1 <=> i = 1
        BY <2>9, <3>1
      <4> HIDE DEF In
      <4> QED BY <3>1, <4>1
    <3>2. CASE k # 1
      <4>1. k - 1 \in 1..m /\ k - 1 # 0
        BY <3>2
      <4>2. flat[k-1] \in Seq(A) /\ \A x : In(flat[k-1], x) <=> \E i \in 1..k-1 : In(seqs[i], x)
        <5> HIDE DEF In
        <5> QED BY <2>11, <4>1
      <4>3. flat[k] = flat[k-1] \o seqs[k]
        BY <2>9, <3>2
      <4>4. seqs[k] \in Seq(A)
        OBVIOUS
      <4> DEFINE t == flat[k-1]
                 u == seqs[k]
      <4> HIDE DEF t, u
      <4>5. ASSUME t \in Seq(A), u \in Seq(A)
            PROVE  t \o u \in Seq(A) /\ \A x : In(t \o u, x) <=> In(t, x) \/ In(u, x)
        <5>1. /\ t \o u \in Seq(A) /\ DOMAIN (t \o u) = 1..Len(t) + Len(u)
              /\ DOMAIN t = 1..Len(t) /\ DOMAIN u = 1..Len(u) /\ Len(t) \in Nat /\ Len(u) \in Nat
          BY <4>5
        <5>2. \A j \in 1..Len(t) : (t \o u)[j] = t[j] /\ j \in 1..Len(t) + Len(u)
          BY <4>5
        <5>3. \A j \in 1..Len(u) : (t \o u)[Len(t) + j] = u[j] /\ Len(t) + j \in 1..Len(t) + Len(u)
          BY <4>5
        <5>4. \A j \in 1..Len(t) + Len(u) : j \in 1..Len(t) \/ \E l \in 1..Len(u) : j = Len(t) + l
          <6> SUFFICES ASSUME NEW j \in 1..Len(t) + Len(u), j \notin 1..Len(t)
                       PROVE  \E l \in 1..Len(u) : j = Len(t) + l
            OBVIOUS
          <6>1. j - Len(t) \in 1..Len(u) /\ j = Len(t) + (j - Len(t))
            BY <5>1
          <6> QED BY <6>1
        <5>5. ASSUME NEW x, In(t, x) \/ In(u, x)
              PROVE  In(t \o u, x)
          BY <5>1, <5>2, <5>3, <5>5
        <5>6. ASSUME NEW x, NEW j \in DOMAIN (t \o u), (t \o u)[j] = x
              PROVE  In(t, x) \/ In(u, x)
          <6>1. CASE j \in 1..Len(t)
            BY <5>1, <5>2, <5>6, <6>1
          <6>2. CASE j \notin 1..Len(t)
            <7>1. PICK l \in 1..Len(u) : j = Len(t) + l
              BY <5>1, <5>4, <6>2
            <7> QED BY <5>1, <5>3, <5>6, <7>1
          <6> QED BY <6>1, <6>2
        <5> QED BY <5>1, <5>5, <5>6
      <4>6. \A x : (\E i \in 1..k : In(seqs[i], x)) <=> (\E i \in 1..k-1 : In(seqs[i], x)) \/ In(seqs[k], x)
        <5> HIDE DEF In
        <5>1. \A i : i \in 1..k <=> i \in 1..k-1 \/ i = k
          OBVIOUS
        <5> QED BY <5>1
      <4> HIDE DEF In
      <4>7. flat[k] \in Seq(A) /\ \A x : In(flat[k], x) <=> \E i \in 1..k : In(seqs[i], x)
        BY <4>2, <4>3, <4>4, <4>5, <4>6 DEF t, u
      <4> QED BY <4>7
    <3> QED BY <3>1, <3>2
  <2> HIDE DEF S
  <2>12. \A k \in 1..m : k - 1 \in S => k \in S
    BY <2>11
  <2>13. \A k \in 0..m : k \in S
    BY <2>10, <2>12, AllUpto
  <2>14. m \in S /\ m # 0
    BY <1>3, <2>13
  <2>15. flat[m] \in Seq(A) /\ \A x : In(flat[m], x) <=> \E i \in 1..m : In(seqs[i], x)
    <3> HIDE DEF In
    <3> QED BY <2>14 DEF S
  <2>16. FlattenSeq(seqs) = flat[m]
    BY <1>1, <1>3
  <2>17. HasElements(flat[m], m, seqs)
    BY <2>15 DEF HasElements
  <2> QED BY <2>15, <2>16, <2>17
<1> QED BY <1>2, <1>3
LEMMA LinesOfAgeIs ==
    ASSUME NEW tar \in Seq(LogMember), NEW age
    PROVE  LinesOfAge(tar, age) \in Seq(Statement)
<1> DEFINE m == Len(tar)
           s == [k \in DOMAIN tar |-> IF tar[k].log # "other" /\ Age(tar[k]) = age
                                      THEN tar[k].lines ELSE <<>>]
<1>1. m \in Nat /\ DOMAIN tar = 1..m /\ \A k \in 1..m : tar[k] \in LogMember
  OBVIOUS
<1>2. \A k \in 1..m : tar[k].lines \in Seq(Statement)
  BY <1>1 DEF LogMember
<1>3. DOMAIN s = 1..m /\ \A k \in 1..m : s[k] \in Seq(Statement)
  BY <1>1, <1>2
<1>4. Len(s) = m /\ (m = 0 => s = <<>>)
  <2>1. s \in Seq(Seq(Statement))
    <3>1. s = [k \in 1..m |-> s[k]]
      BY <1>1
    <3> HIDE DEF s, m
    <3> QED BY <1>1, <1>3, <3>1, SeqIs
  <2> HIDE DEF s
  <2> QED BY <1>1, <1>3, <2>1
<1>5. LinesOfAge(tar, age) = FlattenSeq(s)
  BY DEF LinesOfAge
<1> HIDE DEF s, m
<1> QED BY <1>1, <1>3, <1>4, <1>5, FlattenIs

LEMMA ReadOrderIs ==
    ASSUME NEW tar \in Seq(LogMember)
    PROVE  ReadOrder(tar) \in Seq(Statement)
<1> DEFINE ages == Ascending({Age(tar[k]) : k \in DOMAIN tar})
           m == Len(ages)
           s == [k \in DOMAIN ages |-> LinesOfAge(tar, ages[Len(ages) + 1 - k])]
<1>1. /\ {Age(tar[k]) : k \in DOMAIN tar} \in SUBSET Nat
      /\ IsFiniteSet({Age(tar[k]) : k \in DOMAIN tar})
  <2>1. \A k \in DOMAIN tar : Age(tar[k]) \in Nat
    <3> TAKE k \in DOMAIN tar
    <3>1. tar[k] \in LogMember
      OBVIOUS
    <3>2. tar[k].rotation \in Nat
      BY <3>1 DEF LogMember
    <3> QED BY <3>2 DEF Age
  <2>2. DOMAIN tar = 1..Len(tar) /\ Len(tar) \in Nat
    OBVIOUS
  <2>3. IsFiniteSet(DOMAIN tar)
    <3>1. 1 \in Int /\ Len(tar) \in Int
      BY <2>2
    <3>2. IsFiniteSet(1..Len(tar))
      BY <3>1, FS_Interval
    <3> QED BY <2>2, <3>2
  <2> DEFINE S == {Age(tar[k]) : k \in DOMAIN tar}
             f == [k \in DOMAIN tar |-> Age(tar[k])]
  <2>4. f \in Surjection(DOMAIN tar, S)
    <3>1. f \in [DOMAIN tar -> S] /\ \A x \in S : \E k \in DOMAIN tar : f[k] = x
      OBVIOUS
    <3> HIDE DEF f, S
    <3> QED BY <3>1, Fun_IsSurj
  <2>5. IsFiniteSet(S)
    <3> HIDE DEF f, S
    <3> QED BY <2>3, <2>4, FS_Surjection
  <2> QED BY <2>1, <2>5
<1>2. m \in Nat /\ DOMAIN ages = 1..m
  <2> DEFINE S == {Age(tar[k]) : k \in DOMAIN tar}
  <2> HIDE DEF S
  <2>1. /\ Cardinality(S) \in Nat /\ Len(Ascending(S)) = Cardinality(S)
        /\ DOMAIN Ascending(S) = 1..Cardinality(S)
    BY <1>1, AscendingIs DEF S
  <2> QED BY <2>1 DEF S
<1>3. DOMAIN s = 1..m /\ \A k \in 1..m : s[k] \in Seq(Statement)
  <2>1. \A k \in 1..m : s[k] = LinesOfAge(tar, ages[Len(ages) + 1 - k])
    BY <1>2
  <2> QED BY <1>2, <2>1, LinesOfAgeIs
<1>4. Len(s) = m /\ (m = 0 => s = <<>>)
  <2>1. s \in Seq(Seq(Statement))
    <3>1. s = [k \in 1..m |-> s[k]]
      BY <1>2
    <3> HIDE DEF s, m
    <3> QED BY <1>2, <1>3, <3>1, SeqIs
  <2> HIDE DEF s
  <2> QED BY <1>2, <1>3, <2>1
<1>5. ReadOrder(tar) = FlattenSeq(s)
  BY DEF ReadOrder
<1> HIDE DEF s, m
<1> QED BY <1>2, <1>3, <1>4, <1>5, FlattenIs

LEMMA StatementIs ==
    ASSUME NEW l \in Statement
    PROVE  /\ l.portal \in Names \cup {""} /\ l.fqdn \in Names \cup {""}
           /\ l.name \in Names \cup {""} /\ l.n \in Int /\ l.scores \in Seq(Scoring)
           /\ l.says \in {"entry", "priority"} => l.fqdn \in Names
           /\ l.says = "tcp" => l.n \in Nat
  BY DEF Statement

----------------------------------------------------------------------------
(* What the lines at some places say, and at more.                         *)

LEMMA LatestIs ==
    ASSUME NEW m \in Nat, NEW T \in SUBSET (0..m), T # {}
    PROVE  Latest(T) \in T /\ \A x \in T : x <= Latest(T)
<1>1. \E x \in T : \A y \in T : y <= x
  BY GreatestNumber
<1> QED BY <1>1 DEF Latest

LEMMA SaysMore ==
    ASSUME NEW text, NEW P, NEW Q, P \subseteq Q
    PROVE  /\ \A what : Saying(text, P, what) \subseteq Saying(text, Q, what)
           /\ NamedAt(text, P) \subseteq NamedAt(text, Q)
           /\ ScoresAt(text, P) \subseteq ScoresAt(text, Q)
           /\ \A f : NamesAt(text, P, f) \subseteq NamesAt(text, Q, f)
           /\ \A what : NumbersAt(text, P, what) \subseteq NumbersAt(text, Q, what)
<1>1. \A what : Saying(text, P, what) \subseteq Saying(text, Q, what)
  BY DEF Saying
<1>2. NamedAt(text, P) \subseteq NamedAt(text, Q)
  BY <1>1 DEF NamedAt
<1>3. ScoresAt(text, P) \subseteq ScoresAt(text, Q)
  BY <1>1 DEF ScoresAt
<1>4. \A f : NamesAt(text, P, f) \subseteq NamesAt(text, Q, f)
  BY <1>1 DEF NamesAt
<1>5. \A what : NumbersAt(text, P, what) \subseteq NumbersAt(text, Q, what)
  BY <1>1 DEF NumbersAt
<1> QED BY <1>1, <1>2, <1>3, <1>4, <1>5

\* The scores of one gateway.
ScoresOf(text, P, f) == {s \in ScoresAt(text, P) : s.name \in NamesAt(text, P, f)}

LEMMA OfRoundIs ==
    ASSUME NEW text, NEW P, NEW g
    PROVE  OfRound(text, P, g) <=>
              /\ g.fqdn \in NamedAt(text, P) \cup {s.name : s \in ScoresOf(text, P, g.fqdn)}
              /\ g.name \in NamesAt(text, P, g.fqdn) \cup {""}
              /\ g.tcp \subseteq NumbersAt(text, P, {"tcp"}) \cup {s.tcp : s \in ScoresOf(text, P, g.fqdn)}
              /\ g.priority \subseteq NumbersAt(text, P, {"priority", "mismatch"})
                                          \cup {s.priority : s \in ScoresOf(text, P, g.fqdn)}
              /\ g.ssl \subseteq {s.ssl : s \in ScoresOf(text, P, g.fqdn)}
              /\ g.weight \subseteq {s.weight : s \in ScoresOf(text, P, g.fqdn)}
  BY DEF OfRound, ScoresOf

LEMMA OfRoundMore ==
    ASSUME NEW text, NEW P, NEW Q, P \subseteq Q, NEW g, OfRound(text, P, g)
    PROVE  OfRound(text, Q, g)
<1>1. /\ NamedAt(text, P) \subseteq NamedAt(text, Q)
      /\ NamesAt(text, P, g.fqdn) \subseteq NamesAt(text, Q, g.fqdn)
      /\ \A what : NumbersAt(text, P, what) \subseteq NumbersAt(text, Q, what)
  BY SaysMore
<1>2. ScoresOf(text, P, g.fqdn) \subseteq ScoresOf(text, Q, g.fqdn)
  BY <1>1, SaysMore DEF ScoresOf
<1>3. \A what : NumbersAt(text, P, what) \subseteq NumbersAt(text, Q, what)
  BY <1>1
<1> DEFINE u == ScoresOf(text, P, g.fqdn)
           v == ScoresOf(text, Q, g.fqdn)
<1>4. /\ {s.name : s \in u} \subseteq {s.name : s \in v} /\ {s.tcp : s \in u} \subseteq {s.tcp : s \in v}
      /\ {s.priority : s \in u} \subseteq {s.priority : s \in v}
      /\ {s.ssl : s \in u} \subseteq {s.ssl : s \in v} /\ {s.weight : s \in u} \subseteq {s.weight : s \in v}
  <2> HIDE DEF u, v
  <2> QED BY <1>2 DEF u, v
<1>5. /\ g.fqdn \in NamedAt(text, P) \cup {s.name : s \in u}
      /\ g.name \in NamesAt(text, P, g.fqdn) \cup {""}
      /\ g.tcp \subseteq NumbersAt(text, P, {"tcp"}) \cup {s.tcp : s \in u}
      /\ g.priority \subseteq NumbersAt(text, P, {"priority", "mismatch"}) \cup {s.priority : s \in u}
      /\ g.ssl \subseteq {s.ssl : s \in u} /\ g.weight \subseteq {s.weight : s \in u}
  BY OfRoundIs
<1> HIDE DEF u, v
<1>6. /\ g.fqdn \in NamedAt(text, Q) \cup {s.name : s \in v}
      /\ g.name \in NamesAt(text, Q, g.fqdn) \cup {""}
      /\ g.tcp \subseteq NumbersAt(text, Q, {"tcp"}) \cup {s.tcp : s \in v}
      /\ g.priority \subseteq NumbersAt(text, Q, {"priority", "mismatch"}) \cup {s.priority : s \in v}
      /\ g.ssl \subseteq {s.ssl : s \in v} /\ g.weight \subseteq {s.weight : s \in v}
  BY <1>1, <1>3, <1>4, <1>5
<1> QED BY <1>6, OfRoundIs DEF v

LEMMA OneMorePlace ==
    ASSUME NEW text, NEW P, NEW m
    PROVE  /\ NamedAt(text, P \cup {m}) = NamedAt(text, P)
                 \cup (IF text[m].says \in {"entry", "priority"} THEN {text[m].fqdn} ELSE {})
           /\ ScoresAt(text, P \cup {m}) = ScoresAt(text, P)
                 \cup (IF text[m].says = "scores"
                       THEN {text[m].scores[i] : i \in DOMAIN text[m].scores} ELSE {})
           /\ text[m].says = "entry" => text[m].name \in NamesAt(text, P \cup {m}, text[m].fqdn)
           /\ \A what : text[m].says \in what => text[m].n \in NumbersAt(text, P \cup {m}, what)
<1> DEFINE Q == P \cup {m}
<1>1. \A what : Saying(text, Q, what) = Saying(text, P, what) \cup (IF text[m].says \in what THEN {m} ELSE {})
  BY DEF Saying
<1> HIDE DEF Q
<1>2. NamedAt(text, Q) = NamedAt(text, P)
          \cup (IF text[m].says \in {"entry", "priority"} THEN {text[m].fqdn} ELSE {})
  <2> DEFINE S == Saying(text, P, {"entry", "priority"})
             T == Saying(text, Q, {"entry", "priority"})
  <2>1. T = S \cup (IF text[m].says \in {"entry", "priority"} THEN {m} ELSE {})
    BY <1>1
  <2>2. NamedAt(text, Q) = {text[k].fqdn : k \in T} /\ NamedAt(text, P) = {text[k].fqdn : k \in S}
    BY DEF NamedAt
  <2> HIDE DEF S, T
  <2> QED BY <2>1, <2>2
<1>3. ScoresAt(text, Q) = ScoresAt(text, P)
          \cup (IF text[m].says = "scores"
                THEN {text[m].scores[i] : i \in DOMAIN text[m].scores} ELSE {})
  <2> DEFINE S == Saying(text, P, {"scores"})
             T == Saying(text, Q, {"scores"})
             of(k) == {text[k].scores[i] : i \in DOMAIN text[k].scores}
  <2>1. T = S \cup (IF text[m].says = "scores" THEN {m} ELSE {})
    BY <1>1
  <2>2. ScoresAt(text, Q) = UNION {of(k) : k \in T} /\ ScoresAt(text, P) = UNION {of(k) : k \in S}
    BY DEF ScoresAt
  <2>3. of(m) = {text[m].scores[i] : i \in DOMAIN text[m].scores}
    OBVIOUS
  <2> HIDE DEF S, T, of
  <2> DEFINE US == UNION {of(k) : k \in S}
             UT == UNION {of(k) : k \in T}
  <2>4. CASE text[m].says = "scores"
    <3>1. T = S \cup {m}
      BY <2>1, <2>4
    <3>2. UT = US \cup of(m)
      <4>1. \A x : x \in UT <=> \E k \in T : x \in of(k)
        OBVIOUS
      <4>2. \A x : x \in US <=> \E k \in S : x \in of(k)
        OBVIOUS
      <4> HIDE DEF US, UT
      <4>3. \A x : x \in UT <=> x \in US \/ x \in of(m)
        BY <3>1, <4>1, <4>2
      <4> QED BY <4>3
    <3> QED BY <2>2, <2>3, <2>4, <3>2
  <2>5. CASE text[m].says # "scores"
    BY <2>1, <2>2, <2>5
  <2> QED BY <2>4, <2>5
<1>4. text[m].says = "entry" => text[m].name \in NamesAt(text, Q, text[m].fqdn)
  <2>1. text[m].says = "entry" => m \in Saying(text, Q, {"entry"})
    BY <1>1
  <2> QED BY <2>1 DEF NamesAt
<1>5. \A what : text[m].says \in what => text[m].n \in NumbersAt(text, Q, what)
  <2>1. \A what : text[m].says \in what => m \in Saying(text, Q, what)
    BY <1>1
  <2> QED BY <2>1 DEF NumbersAt
<1> QED BY <1>2, <1>3, <1>4, <1>5 DEF Q

\* A list of gateways, place by place.
NamedOnce(gs) == \A j, k \in DOMAIN gs : gs[j].fqdn = gs[k].fqdn => j = k
EachOfRound(text, P, gs, portal) ==
    \A k \in DOMAIN gs : gs[k].portal = portal /\ OfRound(text, P, gs[k])
CoversNamed(text, P, gs) == \A f \in NamedAt(text, P) : \E k \in DOMAIN gs : gs[k].fqdn = f
Scores1(text, P, gs, s) == \E k \in DOMAIN gs : s.name \in NamesAt(text, P, gs[k].fqdn)
CoversScores(text, P, gs) == \A s \in ScoresAt(text, P) : Scores1(text, P, gs, s)

LEMMA ListParts ==
    ASSUME NEW text, NEW P, NEW gs, NEW portal
    PROVE  ListIs(text, P, gs, portal) <=>
              /\ gs \in Seq(Gateway) /\ NamedOnce(gs) /\ EachOfRound(text, P, gs, portal)
              /\ CoversNamed(text, P, gs) /\ CoversScores(text, P, gs)
<1> DEFINE G == {gs[k] : k \in DOMAIN gs}
<1>1. (\A g \in G : OfRound(text, P, g)) <=> \A k \in DOMAIN gs : OfRound(text, P, gs[k])
  OBVIOUS
<1>2. NamedOnce(gs) => \A g, h \in G : g.fqdn = h.fqdn => g = h
  BY DEF NamedOnce
<1>3. (\A f \in NamedAt(text, P) : \E g \in G : g.fqdn = f) <=> CoversNamed(text, P, gs)
  BY DEF CoversNamed
<1>4. (\A s \in ScoresAt(text, P) : \E g \in G : s.name \in NamesAt(text, P, g.fqdn))
          <=> CoversScores(text, P, gs)
  BY DEF CoversScores, Scores1
<1> HIDE DEF G
<1>5. AllOfRound(text, P, G) <=>
          /\ \A g \in G : OfRound(text, P, g)
          /\ \A g, h \in G : g.fqdn = h.fqdn => g = h
          /\ \A f \in NamedAt(text, P) : \E g \in G : g.fqdn = f
          /\ \A s \in ScoresAt(text, P) : \E g \in G : s.name \in NamesAt(text, P, g.fqdn)
  BY DEF AllOfRound
<1>6. ListIs(text, P, gs, portal) <=>
          /\ gs \in Seq(Gateway) /\ \A k \in DOMAIN gs : gs[k].portal = portal
          /\ NamedOnce(gs) /\ AllOfRound(text, P, G)
  BY DEF ListIs, NamedOnce, G
<1> QED BY <1>1, <1>2, <1>3, <1>4, <1>5, <1>6 DEF EachOfRound

\* A line that neither names gateways nor scores them.
LEMMA ListStays ==
    ASSUME NEW text, NEW P, NEW m, NEW gs, NEW portal, ListIs(text, P, gs, portal),
           text[m].says \notin {"entry", "priority", "scores"}
    PROVE  ListIs(text, P \cup {m}, gs, portal)
<1> DEFINE Q == P \cup {m}
<1>1. NamedAt(text, Q) = NamedAt(text, P) /\ ScoresAt(text, Q) = ScoresAt(text, P)
  <2>1. text[m].says \notin {"entry", "priority"} /\ text[m].says # "scores"
    OBVIOUS
  <2>2. /\ NamedAt(text, P \cup {m}) = NamedAt(text, P)
              \cup (IF text[m].says \in {"entry", "priority"} THEN {text[m].fqdn} ELSE {})
        /\ ScoresAt(text, P \cup {m}) = ScoresAt(text, P)
              \cup (IF text[m].says = "scores"
                    THEN {text[m].scores[i] : i \in DOMAIN text[m].scores} ELSE {})
    BY OneMorePlace
  <2> QED BY <2>1, <2>2
<1>2. P \subseteq Q
  OBVIOUS
<1>3. \A f : NamesAt(text, P, f) \subseteq NamesAt(text, Q, f)
  BY <1>2, SaysMore
<1>4. \A g : OfRound(text, P, g) => OfRound(text, Q, g)
  BY <1>2, OfRoundMore
<1> HIDE DEF Q
<1>5. /\ gs \in Seq(Gateway) /\ NamedOnce(gs) /\ EachOfRound(text, P, gs, portal)
      /\ CoversNamed(text, P, gs) /\ CoversScores(text, P, gs)
  BY ListParts
<1>6. EachOfRound(text, Q, gs, portal)
  BY <1>4, <1>5 DEF EachOfRound
<1>7. CoversNamed(text, Q, gs)
  BY <1>1, <1>5 DEF CoversNamed
<1>8. CoversScores(text, Q, gs)
  BY <1>1, <1>3, <1>5 DEF CoversScores, Scores1
<1>9. ListIs(text, Q, gs, portal)
  BY <1>5, <1>6, <1>7, <1>8, ListParts
<1> QED BY <1>9 DEF Q

LEMMA NewGatewayIs ==
    ASSUME NEW f \in Names, roundPortal \in Names \cup {""}
    PROVE  /\ NewGateway(f) \in Gateway
           /\ NewGateway(f).fqdn = f /\ NewGateway(f).name = "" /\ NewGateway(f).portal = roundPortal
           /\ NewGateway(f).tcp = {} /\ NewGateway(f).priority = {}
           /\ NewGateway(f).ssl = {} /\ NewGateway(f).weight = {}
  BY DEF NewGateway, Gateway

LEMMA AppendIs ==
    ASSUME NEW S, NEW s \in Seq(S), NEW x \in S
    PROVE  /\ Append(s, x) \in Seq(S)
           /\ \A k \in DOMAIN s : k \in DOMAIN Append(s, x) /\ Append(s, x)[k] = s[k]
           /\ \A k \in DOMAIN Append(s, x) :
                 k \in DOMAIN s \/ (k = Len(s) + 1 /\ Append(s, x)[k] = x)
           /\ Len(s) + 1 \in DOMAIN Append(s, x) /\ Append(s, x)[Len(s) + 1] = x
           /\ Len(s) + 1 \notin DOMAIN s
  OBVIOUS

LEMMA ListingIs ==
    ASSUME NEW gs \in Seq(Gateway), NamedOnce(gs), NEW f \in Names, roundPortal \in Names \cup {""}
    PROVE  LET all == Listing(gs, f) IN
           /\ all \in Seq(Gateway) /\ NamedOnce(all)
           /\ \A k \in DOMAIN gs : k \in DOMAIN all /\ all[k] = gs[k]
           /\ \A k \in DOMAIN all : k \in DOMAIN gs \/ all[k] = NewGateway(f)
           /\ \E k \in DOMAIN all : all[k].fqdn = f
<1> DEFINE g == NewGateway(f)
           new == Append(gs, g)
           m == Len(gs) + 1
<1>1. g \in Gateway /\ g.fqdn = f
  BY NewGatewayIs
<1> HIDE DEF g
<1>2. CASE IsListed(gs, f)
  <2>1. Listing(gs, f) = gs
    BY <1>2 DEF Listing
  <2>2. \E k \in DOMAIN gs : gs[k].fqdn = f
    BY <1>2 DEF IsListed
  <2> QED BY <2>1, <2>2
<1>3. CASE ~IsListed(gs, f)
  <2>1. Listing(gs, f) = new
    BY <1>3 DEF Listing, g
  <2>2. \A k \in DOMAIN gs : gs[k].fqdn # f
    BY <1>3 DEF IsListed
  <2>3. /\ new \in Seq(Gateway) /\ m \in DOMAIN new /\ new[m] = g
        /\ \A k \in DOMAIN gs : k \in DOMAIN new /\ new[k] = gs[k]
        /\ \A k \in DOMAIN new : k \in DOMAIN gs \/ (k = m /\ new[k] = g)
    BY <1>1, AppendIs
  <2> HIDE DEF new, m
  <2>4. NamedOnce(new)
    BY <1>1, <2>2, <2>3 DEF NamedOnce
  <2> QED BY <1>1, <2>1, <2>3, <2>4 DEF g
<1> QED BY <1>2, <1>3

LEMMA NewOfRound ==
    ASSUME NEW text, NEW Q, NEW f \in Names, roundPortal \in Names \cup {""},
           f \in NamedAt(text, Q) \/ \E s \in ScoresAt(text, Q) : s.name = f
    PROVE  OfRound(text, Q, NewGateway(f))
<1> DEFINE g == NewGateway(f)
           own == ScoresOf(text, Q, f)
<1>1. g.fqdn = f /\ g.name = "" /\ g.tcp = {} /\ g.priority = {} /\ g.ssl = {} /\ g.weight = {}
  BY NewGatewayIs
<1>2. f \in NamesAt(text, Q, f)
  BY DEF NamesAt
<1>3. f \in NamedAt(text, Q) \cup {s.name : s \in own}
  BY <1>2 DEF ScoresOf
<1> HIDE DEF g, own
<1>4. /\ g.fqdn \in NamedAt(text, Q) \cup {s.name : s \in own}
      /\ g.name \in NamesAt(text, Q, g.fqdn) \cup {""}
      /\ g.tcp \subseteq NumbersAt(text, Q, {"tcp"}) \cup {s.tcp : s \in own}
      /\ g.priority \subseteq NumbersAt(text, Q, {"priority", "mismatch"}) \cup {s.priority : s \in own}
      /\ g.ssl \subseteq {s.ssl : s \in own} /\ g.weight \subseteq {s.weight : s \in own}
  BY <1>1, <1>3
<1> QED BY <1>1, <1>4, OfRoundIs DEF g, own

\* A list whose gateways change in place.
Renewed(all, r) ==
    /\ r = [k \in DOMAIN all |-> r[k]]
    /\ \A k \in DOMAIN all : /\ r[k] \in Gateway /\ r[k].fqdn = all[k].fqdn
                             /\ r[k].portal = all[k].portal

LEMMA RenewedIs ==
    ASSUME NEW all \in Seq(Gateway), NamedOnce(all), NEW r, Renewed(all, r)
    PROVE  r \in Seq(Gateway) /\ NamedOnce(r) /\ DOMAIN r = DOMAIN all
<1> DEFINE n == Len(all)
<1>1. n \in Nat /\ DOMAIN all = 1..n
  BY LenProperties
<1>2. r = [k \in 1..n |-> r[k]] /\ \A k \in 1..n : r[k] \in Gateway
  BY <1>1 DEF Renewed
<1>3. r \in Seq(Gateway)
  <2> HIDE DEF n
  <2> QED BY <1>1, <1>2, SeqIs
<1>4. DOMAIN r = DOMAIN all
  BY DEF Renewed
<1>5. \A k \in DOMAIN all : r[k].fqdn = all[k].fqdn
  BY DEF Renewed
<1>6. NamedOnce(r)
  BY <1>4, <1>5 DEF NamedOnce
<1> QED BY <1>3, <1>4, <1>6

\* What a line says of its gateway.
LEMMA DetailedIs ==
    ASSUME NEW text, NEW P, NEW m, NEW g \in Gateway, text[m] \in Statement,
           text[m].says \in {"entry", "priority"}, text[m].fqdn = g.fqdn,
           lastTCP \in SUBSET Nat, lastTCP \subseteq NumbersAt(text, P \cup {m}, {"tcp"}),
           OfRound(text, P \cup {m}, g)
    PROVE  LET d == Detailed(g, text[m]) IN
           /\ d \in Gateway /\ d.fqdn = g.fqdn /\ d.portal = g.portal
           /\ OfRound(text, P \cup {m}, d)
<1> DEFINE Q == P \cup {m}
           l == text[m]
           d == Detailed(g, l)
           own == ScoresOf(text, Q, g.fqdn)
<1>1. l.name \in Names \cup {""} /\ l.n \in Int
  BY StatementIs
<1>2. l.says = "entry" => l.name \in NamesAt(text, Q, g.fqdn)
  BY OneMorePlace
<1>3. l.says = "priority" => l.n \in NumbersAt(text, Q, {"priority", "mismatch"})
  <2>1. l.says = "priority" => l.says \in {"priority", "mismatch"}
    OBVIOUS
  <2> QED BY <2>1, OneMorePlace
<1>4. /\ g.fqdn \in NamedAt(text, Q) \cup {s.name : s \in own}
      /\ g.name \in NamesAt(text, Q, g.fqdn) \cup {""}
      /\ g.tcp \subseteq NumbersAt(text, Q, {"tcp"}) \cup {s.tcp : s \in own}
      /\ g.priority \subseteq NumbersAt(text, Q, {"priority", "mismatch"}) \cup {s.priority : s \in own}
      /\ g.ssl \subseteq {s.ssl : s \in own} /\ g.weight \subseteq {s.weight : s \in own}
  BY OfRoundIs
<1> HIDE DEF own
<1>5. CASE l.says = "entry"
  <2>1. d = [g EXCEPT !.name = l.name]
    BY <1>5 DEF Detailed
  <2>2. d \in Gateway
    BY <1>1, <2>1 DEF Gateway
  <2>3. /\ d.fqdn = g.fqdn /\ d.portal = g.portal /\ d.name = l.name /\ d.tcp = g.tcp
        /\ d.priority = g.priority /\ d.ssl = g.ssl /\ d.weight = g.weight
    BY <2>1 DEF Gateway
  <2> HIDE DEF d, Q, l
  <2>4. OfRound(text, Q, d)
    BY <1>2, <1>4, <1>5, <2>3, OfRoundIs DEF own
  <2> QED BY <2>2, <2>3, <2>4 DEF d, Q, l
<1>6. CASE l.says = "priority"
  <2>1. d = [g EXCEPT !.priority = {l.n}, !.match = {TRUE},
                      !.tcp = IF lastTCP = {} THEN @ ELSE lastTCP]
    BY <1>6 DEF Detailed
  <2>2. d \in Gateway
    <3> DEFINE p == {l.n}
               y == {TRUE}
               t == IF lastTCP = {} THEN g.tcp ELSE lastTCP
    <3>1. p \in SUBSET Int /\ y \in SUBSET BOOLEAN
      BY <1>1
    <3>2. t \in SUBSET Nat
      BY DEF Gateway
    <3>3. d = [g EXCEPT !.priority = p, !.match = y, !.tcp = t]
      BY <2>1
    <3> HIDE DEF p, y, t, d
    <3> QED BY <3>1, <3>2, <3>3 DEF Gateway
  <2>3. /\ d.fqdn = g.fqdn /\ d.portal = g.portal /\ d.name = g.name
        /\ d.tcp = (IF lastTCP = {} THEN g.tcp ELSE lastTCP)
        /\ d.priority = {l.n} /\ d.ssl = g.ssl /\ d.weight = g.weight
    BY <2>1 DEF Gateway
  <2>4. lastTCP \subseteq NumbersAt(text, Q, {"tcp"})
    OBVIOUS
  <2> HIDE DEF d, Q, l
  <2>5. d.tcp \subseteq NumbersAt(text, Q, {"tcp"}) \cup {s.tcp : s \in own}
    BY <1>4, <2>3, <2>4
  <2>6. d.priority \subseteq NumbersAt(text, Q, {"priority", "mismatch"}) \cup {s.priority : s \in own}
    BY <1>3, <1>6, <2>3
  <2>7. OfRound(text, Q, d)
    BY <1>4, <2>3, <2>5, <2>6, OfRoundIs DEF own
  <2> QED BY <2>2, <2>3, <2>7 DEF d, Q, l
<1> QED BY <1>5, <1>6

LEMMA DetailedByIs ==
    ASSUME NEW text, NEW P, NEW m, text[m] \in Statement, text[m].says \in {"entry", "priority"},
           ListIs(text, P, order, roundPortal), roundPortal \in Names \cup {""},
           lastTCP \in SUBSET Nat, lastTCP \subseteq NumbersAt(text, P, {"tcp"})
    PROVE  ListIs(text, P \cup {m}, DetailedBy(order, text[m]), roundPortal)
<1> DEFINE Q == P \cup {m}
           l == text[m]
           f == l.fqdn
           all == Listing(order, f)
           r == DetailedBy(order, l)
<1>1. /\ order \in Seq(Gateway) /\ NamedOnce(order) /\ EachOfRound(text, P, order, roundPortal)
      /\ CoversNamed(text, P, order) /\ CoversScores(text, P, order)
  BY ListParts
<1>2. f \in Names
  BY StatementIs
<1>3. NamedAt(text, Q) = NamedAt(text, P) \cup {f} /\ ScoresAt(text, Q) = ScoresAt(text, P)
  <2>1. l.says # "scores" /\ l.says \in {"entry", "priority"}
    OBVIOUS
  <2>2. /\ NamedAt(text, P \cup {m}) = NamedAt(text, P)
              \cup (IF l.says \in {"entry", "priority"} THEN {l.fqdn} ELSE {})
        /\ ScoresAt(text, P \cup {m}) = ScoresAt(text, P)
              \cup (IF l.says = "scores"
                    THEN {l.scores[i] : i \in DOMAIN l.scores} ELSE {})
    BY OneMorePlace
  <2> HIDE DEF l
  <2> QED BY <2>1, <2>2
<1>4. P \subseteq Q
  OBVIOUS
<1>5. lastTCP \subseteq NumbersAt(text, Q, {"tcp"})
  BY <1>4, SaysMore
<1>6. /\ all \in Seq(Gateway) /\ NamedOnce(all)
      /\ \A k \in DOMAIN order : k \in DOMAIN all /\ all[k] = order[k]
      /\ \A k \in DOMAIN all : k \in DOMAIN order \/ all[k] = NewGateway(f)
      /\ \E k \in DOMAIN all : all[k].fqdn = f
  BY <1>1, <1>2, ListingIs
<1>7. r = [k \in DOMAIN all |-> IF all[k].fqdn = f THEN Detailed(all[k], l) ELSE all[k]]
  BY DEF DetailedBy
<1>8. ASSUME NEW k \in DOMAIN all
      PROVE  all[k] \in Gateway /\ all[k].portal = roundPortal /\ OfRound(text, Q, all[k])
  <2>1. all[k] \in Gateway
    <3> HIDE DEF all
    <3>1. all \in Seq(Gateway) /\ DOMAIN all = 1..Len(all)
      BY <1>6, LenProperties
    <3> QED BY <3>1, ElementOfSeq
  <2>2. CASE k \in DOMAIN order
    <3>1. all[k] = order[k] /\ order[k].portal = roundPortal /\ OfRound(text, P, order[k])
      BY <1>1, <1>6, <2>2 DEF EachOfRound
    <3> QED BY <1>4, <2>1, <3>1, OfRoundMore
  <2>3. CASE all[k] = NewGateway(f)
    <3>1. f \in NamedAt(text, Q)
      BY <1>3
    <3> HIDE DEF all, f, Q
    <3>2. NewGateway(f).portal = roundPortal
      BY <1>2, NewGatewayIs
    <3>3. OfRound(text, Q, NewGateway(f))
      BY <1>2, <3>1, NewOfRound
    <3> QED BY <2>1, <2>3, <3>2, <3>3
  <2> QED BY <1>6, <2>2, <2>3
<1>9. ASSUME NEW k \in DOMAIN all
      PROVE  /\ r[k] \in Gateway /\ r[k].fqdn = all[k].fqdn /\ r[k].portal = all[k].portal
             /\ OfRound(text, Q, r[k])
  <2>1. CASE all[k].fqdn = f
    <3>1. r[k] = Detailed(all[k], l)
      BY <1>7, <2>1
    <3> DEFINE g == all[k]
    <3>2. g \in Gateway /\ OfRound(text, P \cup {m}, g) /\ text[m].fqdn = g.fqdn
      BY <1>8, <2>1
    <3> HIDE DEF g, all, r
    <3>3. LET d == Detailed(g, text[m]) IN
          d \in Gateway /\ d.fqdn = g.fqdn /\ d.portal = g.portal /\ OfRound(text, P \cup {m}, d)
      BY <1>5, <3>2, DetailedIs
    <3> QED BY <3>1, <3>3 DEF g
  <2>2. CASE all[k].fqdn # f
    <3>1. r[k] = all[k]
      BY <1>7, <2>2
    <3> QED BY <1>8, <3>1
  <2> QED BY <2>1, <2>2
<1>10. DOMAIN r = DOMAIN all /\ r = [k \in DOMAIN all |-> r[k]]
  BY <1>7
<1> HIDE DEF r, all, f, Q
<1>11. Renewed(all, r)
  BY <1>9, <1>10 DEF Renewed
<1>12. r \in Seq(Gateway) /\ NamedOnce(r)
  BY <1>6, <1>11, RenewedIs
<1>13. EachOfRound(text, Q, r, roundPortal)
  BY <1>8, <1>9, <1>10 DEF EachOfRound
<1>14. CoversNamed(text, Q, r)
  <2>1. ASSUME NEW x \in NamedAt(text, Q)
        PROVE  \E k \in DOMAIN r : r[k].fqdn = x
    <3>1. CASE x = f
      BY <1>6, <1>9, <1>10, <3>1
    <3>2. CASE x \in NamedAt(text, P)
      <4>1. PICK k \in DOMAIN order : order[k].fqdn = x
        BY <1>1, <3>2 DEF CoversNamed
      <4>2. k \in DOMAIN all /\ r[k].fqdn = order[k].fqdn
        BY <1>6, <1>9
      <4> QED BY <1>10, <4>1, <4>2
    <3> QED BY <1>3, <3>1, <3>2
  <2> QED BY <2>1 DEF CoversNamed
<1>15. CoversScores(text, Q, r)
  <2>1. \A g : NamesAt(text, P, g) \subseteq NamesAt(text, Q, g)
    BY <1>4, SaysMore
  <2>2. ASSUME NEW s \in ScoresAt(text, Q)
        PROVE  \E k \in DOMAIN r : s.name \in NamesAt(text, Q, r[k].fqdn)
    <3>1. PICK k \in DOMAIN order : s.name \in NamesAt(text, P, order[k].fqdn)
      BY <1>1, <1>3 DEF CoversScores, Scores1
    <3>2. k \in DOMAIN all /\ r[k].fqdn = order[k].fqdn
      BY <1>6, <1>9
    <3> QED BY <1>10, <2>1, <3>1, <3>2
  <2> QED BY <2>2 DEF CoversScores, Scores1
<1>16. ListIs(text, Q, r, roundPortal)
  BY <1>12, <1>13, <1>14, <1>15, ListParts
<1> QED BY <1>16 DEF Q, r

LEMMA RenewedList ==
    ASSUME NEW text, NEW Q, NEW gs, NEW portal, ListIs(text, Q, gs, portal), NEW r, Renewed(gs, r),
           \A k \in DOMAIN gs : OfRound(text, Q, r[k])
    PROVE  ListIs(text, Q, r, portal)
<1>1. /\ gs \in Seq(Gateway) /\ NamedOnce(gs) /\ EachOfRound(text, Q, gs, portal)
      /\ CoversNamed(text, Q, gs) /\ CoversScores(text, Q, gs)
  BY ListParts
<1>2. r \in Seq(Gateway) /\ NamedOnce(r) /\ DOMAIN r = DOMAIN gs
  BY <1>1, RenewedIs
<1>3. \A k \in DOMAIN gs : r[k].fqdn = gs[k].fqdn /\ r[k].portal = gs[k].portal
  BY DEF Renewed
<1>4. EachOfRound(text, Q, r, portal)
  BY <1>1, <1>2, <1>3 DEF EachOfRound
<1>5. CoversNamed(text, Q, r)
  BY <1>1, <1>2, <1>3 DEF CoversNamed
<1>6. CoversScores(text, Q, r)
  BY <1>1, <1>2, <1>3 DEF CoversScores, Scores1
<1> QED BY <1>2, <1>4, <1>5, <1>6, ListParts

\* A mismatch changes the priority of the last gateway, to a number it states.
LEMMA MismatchedIs ==
    ASSUME NEW text, NEW P, NEW m, text[m] \in Statement, text[m].says = "mismatch",
           ListIs(text, P, order, roundPortal)
    PROVE  ListIs(text, P \cup {m},
                  [k \in DOMAIN order |-> IF k = Len(order) THEN Mismatched(order[k], text[m].n)
                                          ELSE order[k]], roundPortal)
<1> DEFINE Q == P \cup {m}
           n == text[m].n
           r == [k \in DOMAIN order |-> IF k = Len(order) THEN Mismatched(order[k], n) ELSE order[k]]
<1>1. ListIs(text, Q, order, roundPortal)
  <2>1. text[m].says \notin {"entry", "priority", "scores"}
    OBVIOUS
  <2> QED BY <2>1, ListStays
<1>2. n \in Int /\ n \in NumbersAt(text, Q, {"priority", "mismatch"})
  <2>1. text[m].says \in {"priority", "mismatch"}
    OBVIOUS
  <2> QED BY <2>1, StatementIs, OneMorePlace
<1>3. ASSUME NEW g \in Gateway, OfRound(text, Q, g)
      PROVE  LET d == Mismatched(g, n) IN
             d \in Gateway /\ d.fqdn = g.fqdn /\ d.portal = g.portal /\ OfRound(text, Q, d)
  <2> DEFINE d == Mismatched(g, n)
             p == {n}
             y == {FALSE}
             own == ScoresOf(text, Q, g.fqdn)
  <2>1. p \in SUBSET Int /\ y \in SUBSET BOOLEAN /\ d = [g EXCEPT !.match = y, !.priority = p]
    BY <1>2 DEF Mismatched
  <2>2. /\ g.fqdn \in NamedAt(text, Q) \cup {s.name : s \in own}
        /\ g.name \in NamesAt(text, Q, g.fqdn) \cup {""}
        /\ g.tcp \subseteq NumbersAt(text, Q, {"tcp"}) \cup {s.tcp : s \in own}
        /\ g.ssl \subseteq {s.ssl : s \in own} /\ g.weight \subseteq {s.weight : s \in own}
    BY <1>3, OfRoundIs
  <2>3. p \subseteq NumbersAt(text, Q, {"priority", "mismatch"}) \cup {s.priority : s \in own}
    BY <1>2
  <2> HIDE DEF d, p, y, own, Q, n
  <2>4. d \in Gateway
    BY <2>1 DEF Gateway
  <2>5. /\ d.fqdn = g.fqdn /\ d.portal = g.portal /\ d.name = g.name /\ d.tcp = g.tcp
        /\ d.priority = p /\ d.ssl = g.ssl /\ d.weight = g.weight
    BY <2>1 DEF Gateway
  <2>6. OfRound(text, Q, d)
    BY <2>2, <2>3, <2>5, OfRoundIs DEF own
  <2> QED BY <2>4, <2>5, <2>6 DEF d
<1>4. /\ order \in Seq(Gateway) /\ EachOfRound(text, Q, order, roundPortal)
  BY <1>1, ListParts
<1>5. ASSUME NEW k \in DOMAIN order
      PROVE  /\ r[k] \in Gateway /\ r[k].fqdn = order[k].fqdn /\ r[k].portal = order[k].portal
             /\ OfRound(text, Q, r[k])
  <2> DEFINE g == order[k]
  <2>1. g \in Gateway /\ OfRound(text, Q, g)
    <3>1. DOMAIN order = 1..Len(order)
      BY <1>4, LenProperties
    <3>2. order[k] \in Gateway
      BY <1>4, <3>1, ElementOfSeq
    <3> QED BY <1>4, <3>2 DEF EachOfRound
  <2>2. r[k] = IF k = Len(order) THEN Mismatched(g, n) ELSE g
    OBVIOUS
  <2> HIDE DEF Q, n, r
  <2>3. CASE k = Len(order)
    BY <1>3, <2>1, <2>2, <2>3
  <2>4. CASE k # Len(order)
    BY <2>1, <2>2, <2>4
  <2> QED BY <2>3, <2>4
<1>6. r = [k \in DOMAIN order |-> r[k]]
  OBVIOUS
<1> HIDE DEF Q, n, r
<1>7. Renewed(order, r) /\ \A k \in DOMAIN order : OfRound(text, Q, r[k])
  BY <1>5, <1>6 DEF Renewed
<1>8. ListIs(text, Q, r, roundPortal)
  BY <1>1, <1>7, RenewedList
<1> QED BY <1>8 DEF Q, n, r

----------------------------------------------------------------------------
(* The scores of a compact line.                                           *)

LEMMA ScoringIs ==
    ASSUME NEW score \in Scoring
    PROVE  /\ score.name \in Names /\ score.name # ""
           /\ score.priority \in Int /\ score.tcp \in Nat /\ score.ssl \in Nat /\ score.weight \in Nat
<1>1. score.name \in Names
  BY DEF Scoring
<1>2. score.name # ""
  BY <1>1, GatewaysAssumption
<1> QED BY <1>1, <1>2 DEF Scoring

LEMMA ScoredGatewayIs ==
    ASSUME NEW score \in Scoring, order \in Seq(Gateway)
    PROVE  /\ ScoredGateway(score) \in Names
           /\ ListedUnder(score.name) = {} => ScoredGateway(score) = score.name
           /\ ListedUnder(score.name) # {} =>
                 \E k \in DOMAIN order :
                     order[k].name = score.name /\ ScoredGateway(score) = order[k].fqdn
<1> DEFINE u == ListedUnder(score.name)
           final == CHOOSE k \in u : \A l \in u : l <= k
<1>1. Len(order) \in Nat /\ DOMAIN order = 1..Len(order)
  BY LenProperties
<1>2. u \in SUBSET (0..Len(order)) /\ u \subseteq DOMAIN order
  BY <1>1 DEF ListedUnder
<1>3. ScoredGateway(score) = IF u = {} THEN score.name ELSE order[final].fqdn
  BY DEF ScoredGateway
<1>4. score.name \in Names
  BY ScoringIs
<1>5. CASE u = {}
  BY <1>3, <1>4, <1>5
<1>6. CASE u # {}
  <2>1. \E k \in u : \A l \in u : l <= k
    <3> HIDE DEF u
    <3> QED BY <1>1, <1>2, <1>6, GreatestNumber
  <2>2. final \in u
    <3> HIDE DEF u
    <3> QED BY <2>1
  <2>3. final \in DOMAIN order /\ order[final].name = score.name
    <3> HIDE DEF final
    <3> QED BY <2>2 DEF ListedUnder
  <2> HIDE DEF final
  <2>4. order[final] \in Gateway
    BY <1>1, <2>3, ElementOfSeq
  <2>5. order[final].fqdn \in Names
    BY <2>4 DEF Gateway
  <2> QED BY <1>3, <1>6, <2>3, <2>5
<1> QED BY <1>5, <1>6

LEMMA ScoredAsIs ==
    ASSUME NEW g \in Gateway, NEW score \in Scoring
    PROVE  LET d == ScoredAs(g, score) IN
           /\ d \in Gateway /\ d.fqdn = g.fqdn /\ d.portal = g.portal
           /\ d.name = (IF ListedUnder(score.name) # {} THEN g.name ELSE score.name)
           /\ d.priority = {score.priority} /\ d.tcp = {score.tcp}
           /\ d.ssl = {score.ssl} /\ d.weight = {score.weight}
<1> DEFINE d == ScoredAs(g, score)
           a == IF ListedUnder(score.name) # {} THEN g.name ELSE score.name
           p == {score.priority}
           t == {score.tcp}
           x == {score.ssl}
           w == {score.weight}
<1>1. d = [g EXCEPT !.name = a, !.priority = p, !.tcp = t, !.ssl = x, !.weight = w]
  BY DEF ScoredAs
<1>2. p \in SUBSET Int /\ t \in SUBSET Nat /\ x \in SUBSET Nat /\ w \in SUBSET Nat
  BY ScoringIs
<1>3. a \in Names \cup {""}
  <2>1. g.name \in Names \cup {""}
    BY DEF Gateway
  <2> QED BY <2>1, ScoringIs
<1> HIDE DEF d, a, p, t, x, w
<1>4. d \in Gateway
  BY <1>1, <1>2, <1>3 DEF Gateway
<1>5. /\ d.fqdn = g.fqdn /\ d.portal = g.portal /\ d.name = a
      /\ d.priority = p /\ d.tcp = t /\ d.ssl = x /\ d.weight = w
  BY <1>1 DEF Gateway
<1> QED BY <1>4, <1>5 DEF d, a, p, t, x, w

Lists == {gs \in Seq(Gateway) : NamedOnce(gs)}

LEMMA ScoredIs ==
    ASSUME NEW gs \in Lists, NEW score \in Scoring, order \in Seq(Gateway),
           roundPortal \in Names \cup {""}
    PROVE  LET f == ScoredGateway(score)
               all == Listing(gs, f)
               r == Scored(gs, score)
           IN  /\ f \in Names /\ r \in Lists /\ DOMAIN r = DOMAIN all
               /\ all \in Seq(Gateway)
               /\ \A k \in DOMAIN gs : k \in DOMAIN all /\ all[k] = gs[k]
               /\ \A k \in DOMAIN all : k \in DOMAIN gs \/ all[k] = NewGateway(f)
               /\ \E k \in DOMAIN all : all[k].fqdn = f
               /\ \A k \in DOMAIN all :
                     /\ all[k] \in Gateway
                     /\ r[k].fqdn = all[k].fqdn /\ r[k].portal = all[k].portal
                     /\ r[k] = IF all[k].fqdn = f THEN ScoredAs(all[k], score) ELSE all[k]
<1> DEFINE f == ScoredGateway(score)
           all == Listing(gs, f)
           r == Scored(gs, score)
<1>1. f \in Names
  BY ScoredGatewayIs
<1>2. r = [k \in DOMAIN all |-> IF all[k].fqdn = f THEN ScoredAs(all[k], score) ELSE all[k]]
  BY DEF Scored
<1>3. gs \in Seq(Gateway) /\ NamedOnce(gs)
  BY DEF Lists
<1> HIDE DEF f
<1>4. /\ all \in Seq(Gateway) /\ NamedOnce(all)
      /\ \A k \in DOMAIN gs : k \in DOMAIN all /\ all[k] = gs[k]
      /\ \A k \in DOMAIN all : k \in DOMAIN gs \/ all[k] = NewGateway(f)
      /\ \E k \in DOMAIN all : all[k].fqdn = f
  BY <1>1, <1>3, ListingIs
<1> HIDE DEF all, r
<1>5. ASSUME NEW k \in DOMAIN all
      PROVE  /\ all[k] \in Gateway /\ r[k] \in Gateway
             /\ r[k].fqdn = all[k].fqdn /\ r[k].portal = all[k].portal
             /\ r[k] = IF all[k].fqdn = f THEN ScoredAs(all[k], score) ELSE all[k]
  <2>1. all[k] \in Gateway
    <3>1. DOMAIN all = 1..Len(all)
      BY <1>4, LenProperties
    <3> QED BY <1>4, <3>1, ElementOfSeq
  <2>2. r[k] = IF all[k].fqdn = f THEN ScoredAs(all[k], score) ELSE all[k]
    BY <1>2
  <2> DEFINE g == all[k]
             d == ScoredAs(g, score)
  <2>3. d \in Gateway /\ d.fqdn = g.fqdn /\ d.portal = g.portal
    BY <2>1, ScoredAsIs
  <2> HIDE DEF d
  <2> QED BY <2>1, <2>2, <2>3 DEF d
<1>6. DOMAIN r = DOMAIN all /\ r = [k \in DOMAIN all |-> r[k]]
  BY <1>2
<1>7. Renewed(all, r)
  BY <1>5, <1>6 DEF Renewed
<1>8. r \in Lists
  BY <1>4, <1>7, RenewedIs DEF Lists
<1> QED BY <1>1, <1>4, <1>5, <1>6, <1>8 DEF f, all, r

\* The gateways of a round after some scores of a line.
ScoredSoFar(text, Q, gs, scores, n) ==
    /\ gs \in Lists /\ EachOfRound(text, Q, gs, roundPortal)
    /\ \A k \in DOMAIN order : \E j \in DOMAIN gs : gs[j].fqdn = order[k].fqdn
    /\ \A i \in 1..n : Scores1(text, Q, gs, scores[i])

LEMMA UptoIs == \A n \in Nat \ {0} : \A i \in 1..n : i = n \/ i \in 1..n-1
  OBVIOUS

LEMMA OneScore ==
    ASSUME NEW text, NEW Q, NEW gs, NEW scores, NEW n \in Nat \ {0},
           ScoredSoFar(text, Q, gs, scores, n - 1), scores[n] \in ScoresAt(text, Q),
           scores[n] \in Scoring, order \in Seq(Gateway), EachOfRound(text, Q, order, roundPortal),
           roundPortal \in Names \cup {""}
    PROVE  ScoredSoFar(text, Q, Scored(gs, scores[n]), scores, n)
<1> DEFINE score == scores[n]
           f == ScoredGateway(score)
           all == Listing(gs, f)
           r == Scored(gs, score)
<1>1. /\ gs \in Lists /\ EachOfRound(text, Q, gs, roundPortal)
      /\ \A k \in DOMAIN order : \E j \in DOMAIN gs : gs[j].fqdn = order[k].fqdn
      /\ \A i \in 1..n-1 : Scores1(text, Q, gs, scores[i])
  BY DEF ScoredSoFar
<1> HIDE DEF score
<1>2. score \in Scoring /\ score \in ScoresAt(text, Q)
  BY DEF score
<1>3. /\ f \in Names /\ r \in Lists /\ DOMAIN r = DOMAIN all
      /\ all \in Seq(Gateway)
      /\ \A k \in DOMAIN gs : k \in DOMAIN all /\ all[k] = gs[k]
      /\ \A k \in DOMAIN all : k \in DOMAIN gs \/ all[k] = NewGateway(f)
      /\ \E k \in DOMAIN all : all[k].fqdn = f
      /\ \A k \in DOMAIN all :
            /\ all[k] \in Gateway
            /\ r[k].fqdn = all[k].fqdn /\ r[k].portal = all[k].portal
            /\ r[k] = IF all[k].fqdn = f THEN ScoredAs(all[k], score) ELSE all[k]
  BY <1>1, <1>2, ScoredIs
<1>4. score.name \in NamesAt(text, Q, f)
  <2>1. CASE ListedUnder(score.name) = {}
    <3>1. f = score.name
      BY <1>2, <2>1, ScoredGatewayIs
    <3> QED BY <3>1 DEF NamesAt
  <2>2. CASE ListedUnder(score.name) # {}
    <3>1. PICK k \in DOMAIN order : order[k].name = score.name /\ f = order[k].fqdn
      BY <1>2, <2>2, ScoredGatewayIs
    <3>2. OfRound(text, Q, order[k])
      BY DEF EachOfRound
    <3> DEFINE g == order[k]
    <3>3. g.name \in NamesAt(text, Q, g.fqdn) \cup {""}
      BY <3>2, OfRoundIs
    <3>4. score.name # ""
      BY <1>2, ScoringIs
    <3> QED BY <3>1, <3>3, <3>4
  <2> QED BY <2>1, <2>2
<1> HIDE DEF f
<1>5. score \in ScoresOf(text, Q, f)
  BY <1>2, <1>4 DEF ScoresOf
<1>6. ListedUnder(score.name) = {} => f = score.name
  BY <1>2, ScoredGatewayIs DEF f
<1> HIDE DEF all, r
<1>7. ASSUME NEW k \in DOMAIN all
      PROVE  (all[k].portal = roundPortal /\ OfRound(text, Q, all[k])) \/ all[k] = NewGateway(f)
  BY <1>1, <1>3 DEF EachOfRound
<1>8. NewGateway(f).portal = roundPortal /\ NewGateway(f).fqdn = f /\ NewGateway(f).name = ""
  BY <1>3, NewGatewayIs
<1>9. ASSUME NEW k \in DOMAIN all
      PROVE  r[k].portal = roundPortal /\ OfRound(text, Q, r[k])
  <2>1. all[k].portal = roundPortal
    BY <1>7, <1>8
  <2>2. CASE all[k].fqdn # f
    <3>1. r[k] = all[k] /\ all[k] # NewGateway(f)
      BY <1>3, <1>8, <2>2
    <3> QED BY <1>7, <2>1, <3>1
  <2>3. CASE all[k].fqdn = f
    <3> DEFINE g == all[k]
               d == ScoredAs(g, score)
    <3>1. r[k] = d /\ g \in Gateway /\ g.fqdn = f
      BY <1>3, <2>3
    <3>2. /\ d.fqdn = g.fqdn /\ d.portal = g.portal
          /\ d.name = (IF ListedUnder(score.name) # {} THEN g.name ELSE score.name)
          /\ d.priority = {score.priority} /\ d.tcp = {score.tcp}
          /\ d.ssl = {score.ssl} /\ d.weight = {score.weight}
      BY <1>2, <3>1, ScoredAsIs
    <3>3. g.name \in NamesAt(text, Q, f) \cup {""}
      <4>1. OfRound(text, Q, g) => g.name \in NamesAt(text, Q, g.fqdn) \cup {""}
        BY OfRoundIs
      <4> QED BY <1>7, <1>8, <3>1, <4>1
    <3>4. f \in NamedAt(text, Q) \cup {s.name : s \in ScoresOf(text, Q, f)}
      <4>1. CASE all[k] = NewGateway(f)
        <5>1. k \notin DOMAIN gs => ListedUnder(score.name) = {}
          <6> SUFFICES ASSUME k \notin DOMAIN gs, ListedUnder(score.name) # {}
                       PROVE  FALSE
            OBVIOUS
          <6>1. PICK i \in DOMAIN order : f = order[i].fqdn
            BY <1>2, ScoredGatewayIs DEF f
          <6>2. PICK j \in DOMAIN gs : gs[j].fqdn = f
            BY <1>1, <6>1
          <6>3. j \in DOMAIN all /\ all[j].fqdn = f /\ j # k
            BY <1>3, <6>2
          <6>4. r[j].fqdn = r[k].fqdn /\ j \in DOMAIN r /\ k \in DOMAIN r
            BY <1>3, <3>1, <6>3
          <6> QED BY <1>3, <6>3, <6>4 DEF Lists, NamedOnce
        <5>2. CASE k \in DOMAIN gs
          <6>1. OfRound(text, Q, all[k])
            BY <1>1, <1>3, <5>2 DEF EachOfRound
          <6> DEFINE h == all[k]
          <6>2. h.fqdn \in NamedAt(text, Q) \cup {s.name : s \in ScoresOf(text, Q, h.fqdn)}
            BY <6>1, OfRoundIs
          <6> QED BY <3>1, <6>2
        <5>3. CASE k \notin DOMAIN gs
          <6>1. f = score.name
            BY <1>6, <5>1, <5>3
          <6> QED BY <1>5, <6>1
        <5> QED BY <5>2, <5>3
      <4>2. CASE OfRound(text, Q, all[k])
        <5> DEFINE h == all[k]
        <5>1. h.fqdn \in NamedAt(text, Q) \cup {s.name : s \in ScoresOf(text, Q, h.fqdn)}
          BY <4>2, OfRoundIs
        <5> QED BY <3>1, <5>1
      <4> QED BY <1>7, <4>1, <4>2
    <3> HIDE DEF g, d
    <3> DEFINE own == ScoresOf(text, Q, f)
    <3>5. /\ score.priority \in {s.priority : s \in own} /\ score.tcp \in {s.tcp : s \in own}
          /\ score.ssl \in {s.ssl : s \in own} /\ score.weight \in {s.weight : s \in own}
      BY <1>5
    <3>6. d.name \in NamesAt(text, Q, f) \cup {""}
      BY <1>4, <3>2, <3>3
    <3> HIDE DEF own
    <3>7. /\ d.fqdn \in NamedAt(text, Q) \cup {s.name : s \in own}
          /\ d.name \in NamesAt(text, Q, d.fqdn) \cup {""}
          /\ d.tcp \subseteq NumbersAt(text, Q, {"tcp"}) \cup {s.tcp : s \in own}
          /\ d.priority \subseteq NumbersAt(text, Q, {"priority", "mismatch"}) \cup {s.priority : s \in own}
          /\ d.ssl \subseteq {s.ssl : s \in own} /\ d.weight \subseteq {s.weight : s \in own}
      BY <3>1, <3>2, <3>4, <3>5, <3>6 DEF own
    <3>8. OfRound(text, Q, d)
      BY <3>1, <3>2, <3>7, OfRoundIs DEF own
    <3> QED BY <2>1, <3>1, <3>2, <3>8 DEF g
  <2> QED BY <2>2, <2>3
<1>10. EachOfRound(text, Q, r, roundPortal)
  BY <1>3, <1>9 DEF EachOfRound
<1>11. \A j \in DOMAIN gs : j \in DOMAIN r /\ r[j].fqdn = gs[j].fqdn
  BY <1>3
<1>12. \A k \in DOMAIN order : \E j \in DOMAIN r : r[j].fqdn = order[k].fqdn
  BY <1>1, <1>11
<1>13. ASSUME NEW i \in 1..n
       PROVE  Scores1(text, Q, r, scores[i])
  <2>1. CASE i = n
    <3>1. PICK k \in DOMAIN all : all[k].fqdn = f
      BY <1>3
    <3>2. k \in DOMAIN r /\ r[k].fqdn = f
      BY <1>3, <3>1
    <3> QED BY <1>4, <2>1, <3>2 DEF Scores1, score
  <2>2. CASE i \in 1..n-1
    <3>1. PICK k \in DOMAIN gs : scores[i].name \in NamesAt(text, Q, gs[k].fqdn)
      BY <1>1, <2>2 DEF Scores1
    <3> QED BY <1>11, <3>1 DEF Scores1
  <2>3. i = n \/ i \in 1..n-1
    BY UptoIs
  <2> QED BY <2>1, <2>2, <2>3
<1>14. ScoredSoFar(text, Q, r, scores, n)
  BY <1>3, <1>10, <1>12, <1>13 DEF ScoredSoFar
<1> QED BY <1>14 DEF r, score


LEMMA PlacesUpto ==
    \A n \in Nat :
        /\ 0 \in 0..n /\ n \in 0..n /\ \A i \in 1..0 : FALSE
        /\ \A k \in 1..n : k - 1 \in 0..n /\ k \in 0..n /\ k \in Nat \ {0}
        /\ \A k \in 0..n : k = 0 \/ k \in 1..n
  OBVIOUS

\* One score after the other.
LEMMA AllScores ==
    ASSUME NEW text, NEW Q, NEW scores \in Seq(Scoring),
           \A k \in DOMAIN scores : scores[k] \in ScoresAt(text, Q),
           order \in Lists, EachOfRound(text, Q, order, roundPortal), roundPortal \in Names \cup {""}
    PROVE  ScoredSoFar(text, Q, ScoredBy(scores), scores, Len(scores))
<1> DEFINE n == Len(scores)
           R(g) == g = [k \in 0..n |-> IF k = 0 THEN order ELSE Scored(g[k-1], scores[k])]
           result == CHOOSE g : R(g)
           step == [k \in 1..n |-> [x \in Lists |-> Scored(x, scores[k])]]
<1>1. n \in Nat /\ \A k \in 1..n : scores[k] \in Scoring /\ scores[k] \in ScoresAt(text, Q)
  <2>1. n \in Nat /\ DOMAIN scores = 1..n
    BY LenProperties
  <2>2. ASSUME NEW k \in 1..Len(scores)
        PROVE  scores[k] \in Scoring
    BY ElementOfSeq
  <2>3. \A k \in 1..n : scores[k] \in Scoring
    BY <2>2
  <2> HIDE DEF n
  <2> QED BY <2>1, <2>3
<1>2. ScoredBy(scores) = result[n]
  BY DEF ScoredBy
<1>3. order \in Seq(Gateway)
  BY DEF Lists
<1> HIDE DEF n
<1>4. ASSUME NEW k \in 1..n, NEW x \in Lists
      PROVE  Scored(x, scores[k]) \in Lists
  <2> DEFINE s == scores[k]
  <2>1. s \in Scoring
    BY <1>1
  <2> HIDE DEF s
  <2>2. Scored(x, s) \in Lists
    BY <1>3, <2>1, ScoredIs
  <2> QED BY <2>2 DEF s
<1>5. step \in [1..n -> [Lists -> Lists]]
  BY <1>4
<1>6. \A k \in 1..n : \A x \in Lists : step[k][x] = Scored(x, scores[k])
  OBVIOUS
<1> HIDE DEF step
<1>7. PICK g : Iterates(Lists, order, n, step, g)
  BY <1>1, <1>5, IterationExists
<1>8. g \in [0..n -> Lists] /\ g[0] = order /\ \A k \in 1..n : g[k] = step[k][g[k-1]]
  BY <1>7 DEF Iterates
<1>9. \A k \in 1..n : g[k] = Scored(g[k-1], scores[k])
  <2>1. \A k \in 1..n : g[k-1] \in Lists
    <3>1. \A k \in 1..n : k - 1 \in 0..n
      BY <1>1, PlacesUpto
    <3> QED BY <1>8, <3>1
  <2> QED BY <1>6, <1>8, <2>1
<1>10. R(g)
  <2>1. \A k \in 0..n : g[k] = IF k = 0 THEN order ELSE Scored(g[k-1], scores[k])
    <3>1. \A k \in 0..n : k = 0 \/ k \in 1..n
      BY <1>1, PlacesUpto
    <3> QED BY <1>8, <1>9, <3>1
  <2>2. g = [k \in 0..n |-> g[k]]
    BY <1>8
  <2> QED BY <2>1, <2>2
<1>11. R(result)
  <2> HIDE DEF R
  <2> QED BY <1>10
<1> HIDE DEF result
<1>12. \A k \in 0..n : result[k] = IF k = 0 THEN order ELSE Scored(result[k-1], scores[k])
  BY <1>11
<1> DEFINE S == {k \in 0..n : ScoredSoFar(text, Q, result[k], scores, k)}
<1>13. 0 \in S
  <2>1. 0 \in 0..n /\ \A i \in 1..0 : FALSE
    BY <1>1, PlacesUpto
  <2>2. result[0] = order
    BY <1>12, <2>1
  <2>3. ScoredSoFar(text, Q, order, scores, 0)
    BY <2>1 DEF ScoredSoFar
  <2> QED BY <2>1, <2>2, <2>3
<1>14. ASSUME NEW k \in 1..n, k - 1 \in S
       PROVE  k \in S
  <2>1. k \in 0..n /\ k \in Nat \ {0}
    BY <1>1, PlacesUpto
  <2>2. ScoredSoFar(text, Q, result[k-1], scores, k-1)
    BY <1>14
  <2>3. result[k] = Scored(result[k-1], scores[k])
    BY <1>12, <2>1
  <2> DEFINE gs == result[k-1]
  <2>4. ScoredSoFar(text, Q, gs, scores, k-1)
    BY <2>2
  <2> HIDE DEF gs
  <2>5. ScoredSoFar(text, Q, Scored(gs, scores[k]), scores, k)
    BY <1>1, <1>3, <2>1, <2>4, OneScore
  <2> QED BY <2>1, <2>3, <2>5 DEF gs
<1> HIDE DEF S
<1>15. \A k \in 0..n : k \in S
  BY <1>1, <1>13, <1>14, AllUpto
<1>16. n \in S
  BY <1>1, <1>15, PlacesUpto
<1> QED BY <1>2, <1>16 DEF S, n

LEMMA ScoredByIs ==
    ASSUME NEW text, NEW P, NEW m, text[m] \in Statement, text[m].says = "scores",
           ListIs(text, P, order, roundPortal), roundPortal \in Names \cup {""}
    PROVE  ListIs(text, P \cup {m}, ScoredBy(text[m].scores), roundPortal)
<1> DEFINE Q == P \cup {m}
           scores == text[m].scores
           r == ScoredBy(scores)
<1>1. scores \in Seq(Scoring)
  BY StatementIs
<1>2. /\ order \in Seq(Gateway) /\ NamedOnce(order) /\ EachOfRound(text, P, order, roundPortal)
      /\ CoversNamed(text, P, order) /\ CoversScores(text, P, order)
  BY ListParts
<1>3. P \subseteq Q
  OBVIOUS
<1>4. /\ NamedAt(text, Q) = NamedAt(text, P)
             \cup (IF text[m].says \in {"entry", "priority"} THEN {text[m].fqdn} ELSE {})
      /\ ScoresAt(text, Q) = ScoresAt(text, P)
             \cup (IF text[m].says = "scores"
                   THEN {text[m].scores[i] : i \in DOMAIN text[m].scores} ELSE {})
  BY OneMorePlace
<1>5. NamedAt(text, Q) = NamedAt(text, P)
  BY <1>4
<1>6. ScoresAt(text, Q) = ScoresAt(text, P) \cup {scores[i] : i \in DOMAIN scores}
  BY <1>4
<1> HIDE DEF Q, scores
<1>7. \A f : NamesAt(text, P, f) \subseteq NamesAt(text, Q, f)
  BY <1>3, SaysMore
<1>8. EachOfRound(text, Q, order, roundPortal)
  BY <1>2, <1>3, OfRoundMore DEF EachOfRound
<1>9. order \in Lists
  BY <1>2 DEF Lists
<1>10. \A k \in DOMAIN scores : scores[k] \in ScoresAt(text, Q)
  BY <1>6
<1>11. ScoredSoFar(text, Q, r, scores, Len(scores))
  BY <1>1, <1>8, <1>9, <1>10, AllScores
<1> HIDE DEF r
<1>12. /\ r \in Seq(Gateway) /\ NamedOnce(r) /\ EachOfRound(text, Q, r, roundPortal)
       /\ \A k \in DOMAIN order : \E j \in DOMAIN r : r[j].fqdn = order[k].fqdn
       /\ \A i \in 1..Len(scores) : Scores1(text, Q, r, scores[i])
  BY <1>11 DEF ScoredSoFar, Lists
<1>13. CoversNamed(text, Q, r)
  BY <1>2, <1>5, <1>12 DEF CoversNamed
<1>14. ASSUME NEW s \in ScoresAt(text, Q)
       PROVE  Scores1(text, Q, r, s)
  <2>1. CASE s \in ScoresAt(text, P)
    <3>1. PICK k \in DOMAIN order : s.name \in NamesAt(text, P, order[k].fqdn)
      BY <1>2, <2>1 DEF CoversScores, Scores1
    <3>2. PICK j \in DOMAIN r : r[j].fqdn = order[k].fqdn
      BY <1>12
    <3> QED BY <1>7, <3>1, <3>2 DEF Scores1
  <2>2. CASE \E i \in DOMAIN scores : s = scores[i]
    <3>1. DOMAIN scores = 1..Len(scores)
      BY <1>1, LenProperties
    <3> QED BY <1>12, <2>2, <3>1
  <2> QED BY <1>6, <2>1, <2>2
<1>15. CoversScores(text, Q, r)
  BY <1>14 DEF CoversScores
<1>16. ListIs(text, Q, r, roundPortal)
  BY <1>12, <1>13, <1>15, ListParts
<1> QED BY <1>16 DEF Q, r, scores

----------------------------------------------------------------------------
(* The rounds of a log.                                                    *)

LEMMA StatementsAre ==
    ASSUME NEW text \in Seq(Statement)
    PROVE  /\ Len(text) \in Nat /\ DOMAIN text = 1..Len(text)
           /\ \A k \in 1..Len(text) : text[k] \in Statement
<1>1. Len(text) \in Nat /\ DOMAIN text = 1..Len(text)
  BY LenProperties
<1>2. ASSUME NEW k \in 1..Len(text)
      PROVE  text[k] \in Statement
  BY ElementOfSeq
<1> QED BY <1>1, <1>2

LEMMA StartsAre ==
    ASSUME NEW text \in Seq(Statement)
    PROVE  /\ RoundStarts(text) \subseteq 0..Len(text)
           /\ \A k \in 1..Len(text) : k \in RoundStarts(text) <=> text[k].says = "list"
<1>1. Len(text) \in Nat /\ DOMAIN text = 1..Len(text)
  BY StatementsAre
<1> DEFINE n == Len(text)
<1> HIDE DEF n
<1>2. n \in Nat /\ RoundStarts(text) = {0} \cup {k \in 1..n : text[k].says = "list"}
  BY <1>1 DEF RoundStarts, n
<1>3. 0 \in 0..n /\ \A k \in 1..n : k \in 0..n /\ k # 0
  BY <1>2, PlacesUpto
<1> QED BY <1>2, <1>3 DEF n

LEMMA PlacesMore ==
    \A start, n \in Nat : start <= n =>
        /\ (start + 1)..(n + 1) = ((start + 1)..n) \cup {n + 1}
        /\ start <= n + 1 /\ start < n + 1
        /\ \A r \in Nat : r > n <=> r >= n + 1
  OBVIOUS

LEMMA NoPlaces == \A n \in Nat : (n + 1)..n = {}
  OBVIOUS

LEMMA NumbersOrder ==
    /\ \A n, m, k, s \in Nat :
          /\ ~(k <= n) /\ n <= m /\ k <= m /\ s <= n
                => n + 1 \in 1..m /\ n # m /\ n + 1 <= k /\ ~(n + 1 <= s) /\ ~(n + 1 > k)
          /\ k > s /\ k <= n => k \in (s + 1)..n
          /\ k <= n /\ s > n => s > k
          /\ n <= m \/ n > m
    /\ \A m \in Nat : \A k \in 0..m : k \in Nat /\ k <= m
    /\ \A m \in Nat : \A k \in 1..m : k \in Nat /\ k <= m
    /\ \A m, n, s \in Nat : n <= m => \A k \in (s + 1)..n : k \in 1..m /\ k > s /\ k <= n
  OBVIOUS

\* A line that does not begin a round belongs to the open one.
LEMMA StaysOpen ==
    ASSUME NEW text \in Seq(Statement), NEW n \in Nat, n < Len(text), NEW start,
           OpensAt(text, n, start), text[n + 1].says # "list"
    PROVE  OpensAt(text, n + 1, start)
<1>1. n + 1 \in 1..Len(text) /\ Len(text) \in Nat
  BY StatementsAre
<1>2. n + 1 \notin RoundStarts(text)
  BY <1>1, StartsAre
<1>3. RoundStarts(text) \subseteq 0..Len(text)
  BY StartsAre
<1>4. start \in RoundStarts(text) /\ start <= n /\ \A r \in RoundStarts(text) : r <= start \/ r > n
  BY DEF OpensAt
<1>5. start \in Nat /\ start <= n + 1
  BY <1>1, <1>3, <1>4
<1>6. ASSUME NEW r \in RoundStarts(text), r > n
      PROVE  r > n + 1
  <2>1. r \in Nat /\ r # n + 1
    BY <1>1, <1>2, <1>3
  <2> QED BY <1>6, <2>1
<1> QED BY <1>4, <1>5, <1>6 DEF OpensAt

LEMMA Opens ==
    ASSUME NEW text \in Seq(Statement), NEW n \in Nat, n < Len(text), text[n + 1].says = "list"
    PROVE  OpensAt(text, n + 1, n + 1)
<1>1. n + 1 \in 1..Len(text) /\ Len(text) \in Nat
  BY StatementsAre
<1>2. n + 1 \in RoundStarts(text) /\ RoundStarts(text) \subseteq 0..Len(text)
  BY <1>1, StartsAre
<1>3. ASSUME NEW r \in RoundStarts(text)
      PROVE  r <= n + 1 \/ r > n + 1
  <2>1. r \in Nat /\ n + 1 \in Nat
    BY <1>1, <1>2, NumbersOrder
  <2> QED BY <2>1, NumbersOrder
<1>4. n + 1 <= n + 1
  BY <1>1
<1> QED BY <1>2, <1>3, <1>4 DEF OpensAt

\* The lines of a round that is over.
LEMMA RoundOver ==
    ASSUME NEW text \in Seq(Statement), NEW n \in 0..Len(text), NEW start, OpensAt(text, n, start),
           n = Len(text) \/ text[n + 1].says = "list"
    PROVE  LinesOfRound(text, start) = (start + 1)..n
<1>1. Len(text) \in Nat /\ DOMAIN text = 1..Len(text) /\ n \in Nat /\ n <= Len(text)
  BY StatementsAre
<1>2. start \in RoundStarts(text) /\ start <= n /\ \A r \in RoundStarts(text) : r <= start \/ r > n
  BY DEF OpensAt
<1>3. RoundStarts(text) \subseteq 0..Len(text) /\ start \in Nat
  <2>1. RoundStarts(text) \subseteq 0..Len(text)
    BY StartsAre
  <2> QED BY <1>1, <1>2, <2>1, NumbersOrder
<1>4. ASSUME NEW k \in LinesOfRound(text, start)
      PROVE  k \in (start + 1)..n
  <2>1. k \in 1..Len(text) /\ k > start /\ \A s \in RoundStarts(text) : s <= start \/ s > k
    BY <1>1 DEF LinesOfRound
  <2>2. k \in Nat /\ k <= Len(text)
    BY <1>1, <2>1, NumbersOrder
  <2>3. k <= n
    <3> SUFFICES ASSUME ~(k <= n)
                 PROVE  FALSE
      OBVIOUS
    <3>1. n + 1 \in 1..Len(text) /\ n # Len(text) /\ ~(n + 1 <= start) /\ ~(n + 1 > k)
      BY <1>1, <1>2, <1>3, <2>2, NumbersOrder
    <3>2. n + 1 \in RoundStarts(text)
      BY <3>1, StartsAre
    <3> QED BY <2>1, <3>1, <3>2
  <2> QED BY <1>1, <1>3, <2>1, <2>2, <2>3, NumbersOrder
<1>5. ASSUME NEW k \in (start + 1)..n
      PROVE  k \in LinesOfRound(text, start)
  <2>1. k \in 1..Len(text) /\ k > start /\ k <= n
    BY <1>1, <1>3, NumbersOrder
  <2>2. ASSUME NEW s \in RoundStarts(text), s > n
        PROVE  s > k
    <3>1. s \in Nat /\ k \in Nat
      BY <1>1, <1>3, <2>1, NumbersOrder
    <3> QED BY <1>1, <2>1, <2>2, <3>1, NumbersOrder
  <2> QED BY <1>1, <1>2, <2>1, <2>2 DEF LinesOfRound
<1> QED BY <1>4, <1>5

\* The portal of the last pre-login.
LEMMA PortalFirst == \A text : PortalOfRound(text, 0) = ""
<1>1. \A text : SentBefore(text, 0) = {}
  <2>1. 1..0 = {}
    OBVIOUS
  <2> QED BY <2>1 DEF SentBefore
<1> QED BY <1>1 DEF PortalOfRound

LEMMA PortalNext ==
    ASSUME NEW text \in Seq(Statement), NEW n \in Nat, n < Len(text)
    PROVE  PortalOfRound(text, n + 1) =
              IF text[n + 1].says = "sent" THEN text[n + 1].portal ELSE PortalOfRound(text, n)
<1>1. 1..(n + 1) = (1..n) \cup {n + 1} /\ n + 1 \in 0..(n + 1) /\ n + 1 \in Nat
      /\ 1..(n + 1) \subseteq 0..(n + 1)
  OBVIOUS
<1>2. CASE text[n + 1].says = "sent"
  <2> DEFINE T == SentBefore(text, n + 1)
  <2>1. n + 1 \in T /\ T \in SUBSET (0..(n + 1))
    BY <1>1, <1>2 DEF SentBefore
  <2> HIDE DEF T
  <2>2. Latest(T) \in T /\ \A x \in T : x <= Latest(T)
    BY <1>1, <2>1, LatestIs
  <2>3. Latest(T) = n + 1
    <3>1. Latest(T) \in 0..(n + 1) /\ n + 1 <= Latest(T)
      BY <2>1, <2>2
    <3> QED BY <3>1
  <2> QED BY <1>2, <2>1, <2>3 DEF PortalOfRound, T
<1>3. CASE text[n + 1].says # "sent"
  <2>1. SentBefore(text, n + 1) = SentBefore(text, n)
    BY <1>1, <1>3 DEF SentBefore
  <2> QED BY <1>3, <2>1 DEF PortalOfRound
<1> QED BY <1>2, <1>3

LEMMA PortalIs ==
    ASSUME NEW text \in Seq(Statement), NEW n \in 0..Len(text)
    PROVE  PortalOfRound(text, n) \in Names \cup {""}
<1>1. Len(text) \in Nat /\ \A k \in 1..Len(text) : text[k] \in Statement
  BY StatementsAre
<1>2. CASE SentBefore(text, n) = {}
  BY <1>2 DEF PortalOfRound
<1>3. CASE SentBefore(text, n) # {}
  <2> DEFINE T == SentBefore(text, n)
  <2>1. T \in SUBSET (0..n) /\ T # {} /\ n \in Nat /\ T \subseteq 1..Len(text)
    <3>1. n \in Nat /\ 1..n \subseteq 0..n /\ 1..n \subseteq 1..Len(text)
      BY <1>1
    <3> QED BY <1>3, <3>1 DEF SentBefore
  <2>2. PortalOfRound(text, n) = text[Latest(T)].portal
    BY <1>3 DEF PortalOfRound
  <2> HIDE DEF T
  <2>3. Latest(T) \in T
    BY <2>1, LatestIs
  <2> DEFINE l == text[Latest(T)]
  <2>4. l \in Statement
    BY <1>1, <2>1, <2>3
  <2>5. PortalOfRound(text, n) = l.portal
    BY <2>2
  <2> HIDE DEF l
  <2>6. l.portal \in Names \cup {""}
    BY <2>4, StatementIs
  <2> QED BY <2>5, <2>6
<1> QED BY <1>2, <1>3

\* A round names gateways if its list has some.
LEMMA NamesSome ==
    ASSUME NEW text, NEW start, NEW gs, NEW portal, ListIs(text, LinesOfRound(text, start), gs, portal)
    PROVE  /\ NamesGateways(text, start) <=> gs # <<>>
           /\ gs # <<>> => \E k \in DOMAIN gs : TRUE
<1> DEFINE Q == LinesOfRound(text, start)
<1>1. /\ gs \in Seq(Gateway) /\ EachOfRound(text, Q, gs, portal)
      /\ CoversNamed(text, Q, gs) /\ CoversScores(text, Q, gs)
  BY ListParts
<1>2. NamesGateways(text, start) <=>
          (Saying(text, Q, {"entry", "priority"}) # {} \/ ScoresAt(text, Q) # {})
  BY DEF NamesGateways
<1> HIDE DEF Q
<1>3. CASE gs = <<>>
  <2>1. \A k \in DOMAIN gs : FALSE
    BY <1>3
  <2>2. NamedAt(text, Q) = {} /\ ScoresAt(text, Q) = {}
    BY <1>1, <2>1 DEF CoversNamed, CoversScores, Scores1
  <2>3. Saying(text, Q, {"entry", "priority"}) = {}
    BY <2>2 DEF NamedAt
  <2> QED BY <1>2, <1>3, <2>2, <2>3
<1>4. CASE gs # <<>>
  <2>1. 1 \in DOMAIN gs
    BY <1>1, <1>4
  <2>2. OfRound(text, Q, gs[1])
    BY <1>1, <2>1 DEF EachOfRound
  <2> DEFINE g == gs[1]
  <2>3. g.fqdn \in NamedAt(text, Q) \cup {s.name : s \in ScoresOf(text, Q, g.fqdn)}
    BY <2>2, OfRoundIs
  <2> HIDE DEF g
  <2>4. NamedAt(text, Q) # {} \/ ScoresAt(text, Q) # {}
    BY <2>3 DEF ScoresOf
  <2>5. NamedAt(text, Q) # {} => Saying(text, Q, {"entry", "priority"}) # {}
    BY DEF NamedAt
  <2> QED BY <1>2, <1>4, <2>1, <2>4, <2>5
<1> QED BY <1>3, <1>4

\* A round that is over, with a list, is its portal's newest; without, nothing changes.
LEMMA RoundsBefore ==
    ASSUME NEW text \in Seq(Statement), NEW n \in Nat, NEW start, OpensAt(text, n, start)
    PROVE  /\ start \in Nat
           /\ \A r \in RoundStarts(text) : r <= start <=> (r < start \/ r = start)
           /\ \A r \in RoundStarts(text) : r <= start <=> r < n + 1
           /\ n = Len(text) => \A r \in RoundStarts(text) : r <= start
<1>1. RoundStarts(text) \subseteq 0..Len(text) /\ Len(text) \in Nat
  BY StartsAre, StatementsAre
<1>2. start \in RoundStarts(text) /\ start <= n /\ \A r \in RoundStarts(text) : r <= start \/ r > n
  BY DEF OpensAt
<1>3. \A m \in Nat : \A k \in 0..m : k \in Nat /\ k <= m
  BY NumbersOrder
<1>4. start \in Nat
  BY <1>1, <1>2, <1>3
<1>5. ASSUME NEW r \in RoundStarts(text)
      PROVE  /\ r <= start <=> (r < start \/ r = start)
             /\ r <= start <=> r < n + 1
             /\ n = Len(text) => r <= start
  <2>1. r \in Nat /\ r <= Len(text) /\ (r <= start \/ r > n)
    BY <1>1, <1>2, <1>3
  <2> HIDE DEF OpensAt
  <2>2. \A a, b, c, l \in Nat :
            /\ a <= b <=> (a < b \/ a = b)
            /\ b <= c /\ (a <= b \/ a > c) => (a <= b <=> a < c + 1)
            /\ a <= l /\ (a <= b \/ a > c) /\ c = l => a <= b
    OBVIOUS
  <2> QED BY <1>1, <1>2, <1>4, <2>1, <2>2
<1> QED BY <1>4, <1>5

LEMMA NewestSkip ==
    ASSUME NEW text, NEW start, NEW com, NEW R, NEW T, T \subseteq RoundStarts(text), start \in T,
           R = {r \in RoundStarts(text) : r < start},
           \A r \in T : r \in R \/ r = start, R \subseteq T,
           NewestAre(text, R, com), ~NamesGateways(text, start)
    PROVE  NewestAre(text, T, com)
<1>1. ASSUME NEW p \in DOMAIN com
      PROVE  \E s \in T : NewestOf(text, T, p, s) /\ ListIs(text, LinesOfRound(text, s), com[p], p)
  <2>1. PICK s \in R : NewestOf(text, R, p, s) /\ ListIs(text, LinesOfRound(text, s), com[p], p)
    BY DEF NewestAre
  <2>2. start \notin RoundsOf(text, p)
    BY DEF RoundsOf
  <2>3. s \in T /\ NewestOf(text, T, p, s)
    BY <2>1, <2>2 DEF NewestOf
  <2> QED BY <2>1, <2>3
<1>2. ASSUME NEW s \in T, NamesGateways(text, s)
      PROVE  PortalOfRound(text, s) \in DOMAIN com
  BY <1>2 DEF NewestAre
<1> QED BY <1>1, <1>2 DEF NewestAre

LEMMA PutIs ==
    ASSUME NEW f, NEW x, NEW v
    PROVE  /\ DOMAIN Put(f, x, v) = DOMAIN f \cup {x} /\ Put(f, x, v)[x] = v
           /\ \A y \in DOMAIN f : y # x => Put(f, x, v)[y] = f[y]
  BY DEF Put

LEMMA NewestPut ==
    ASSUME NEW text, NEW start, NEW com, NEW R, NEW T, NEW gs, NEW portal,
           T \subseteq RoundStarts(text), start \in T,
           R = {r \in RoundStarts(text) : r < start}, \A r \in T : r <= start,
           \A r \in T : r \in R \/ r = start, R \subseteq T,
           NewestAre(text, R, com), NamesGateways(text, start),
           portal = PortalOfRound(text, start), ListIs(text, LinesOfRound(text, start), gs, portal)
    PROVE  NewestAre(text, T, Put(com, portal, gs))
<1> DEFINE new == Put(com, portal, gs)
<1>1. /\ DOMAIN new = DOMAIN com \cup {portal} /\ new[portal] = gs
      /\ \A y \in DOMAIN com : y # portal => new[y] = com[y]
  <2>1. /\ DOMAIN Put(com, portal, gs) = DOMAIN com \cup {portal} /\ Put(com, portal, gs)[portal] = gs
        /\ \A y \in DOMAIN com : y # portal => Put(com, portal, gs)[y] = com[y]
    BY DEF Put
  <2> QED BY <2>1
<1> HIDE DEF new
<1>2. ASSUME NEW p \in DOMAIN new
      PROVE  \E s \in T : NewestOf(text, T, p, s) /\ ListIs(text, LinesOfRound(text, s), new[p], p)
  <2>1. CASE p = portal
    <3>1. start \in RoundsOf(text, p)
      BY <2>1 DEF RoundsOf
    <3>2. NewestOf(text, T, p, start)
      BY <3>1 DEF NewestOf
    <3> QED BY <1>1, <2>1, <3>2
  <2>2. CASE p # portal
    <3>1. p \in DOMAIN com /\ new[p] = com[p]
      BY <1>1, <1>2, <2>2
    <3>2. PICK s \in R : NewestOf(text, R, p, s) /\ ListIs(text, LinesOfRound(text, s), com[p], p)
      BY <3>1 DEF NewestAre
    <3>3. start \notin RoundsOf(text, p)
      BY <2>2 DEF RoundsOf
    <3>4. s \in T /\ NewestOf(text, T, p, s)
      BY <3>2, <3>3 DEF NewestOf
    <3> QED BY <3>1, <3>2, <3>4
  <2> QED BY <2>1, <2>2
<1>3. ASSUME NEW s \in T, NamesGateways(text, s)
      PROVE  PortalOfRound(text, s) \in DOMAIN new
  BY <1>1, <1>3 DEF NewestAre
<1> QED BY <1>2, <1>3 DEF NewestAre, new

PortalsListed(known, com) ==
    known \in Seq(DOMAIN com) /\ DOMAIN com = {known[k] : k \in DOMAIN known}

LEMMA ListedMore ==
    ASSUME NEW known, NEW com, PortalsListed(known, com), NEW p, NEW gs
    PROVE  PortalsListed(IF p \in DOMAIN com THEN known ELSE Append(known, p), Put(com, p, gs))
<1> DEFINE D == DOMAIN com
           E == DOMAIN Put(com, p, gs)
           new == IF p \in D THEN known ELSE Append(known, p)
<1>1. E = D \cup {p}
  BY DEF Put
<1>2. known \in Seq(D) /\ D = {known[k] : k \in DOMAIN known}
  BY DEF PortalsListed
<1> HIDE DEF D, E
<1>3. CASE p \in D
  <2>1. new = known /\ E = D
    BY <1>1, <1>3
  <2> QED BY <1>2, <2>1 DEF PortalsListed, D, E
<1>4. CASE p \notin D
  <2>1. new = Append(known, p)
    BY <1>4
  <2>2. known \in Seq(E) /\ p \in E
    BY <1>1, <1>2
  <2>3. /\ Append(known, p) \in Seq(E)
        /\ \A k \in DOMAIN known : k \in DOMAIN Append(known, p) /\ Append(known, p)[k] = known[k]
        /\ \A k \in DOMAIN Append(known, p) :
              k \in DOMAIN known \/ (k = Len(known) + 1 /\ Append(known, p)[k] = p)
        /\ Len(known) + 1 \in DOMAIN Append(known, p) /\ Append(known, p)[Len(known) + 1] = p
    BY <2>2, AppendIs
  <2> DEFINE a == Append(known, p)
  <2> HIDE DEF a
  <2>4. E = {a[k] : k \in DOMAIN a}
    BY <1>1, <1>2, <2>3 DEF a
  <2> QED BY <2>1, <2>3, <2>4 DEF PortalsListed, D, E, a
<1> QED BY <1>3, <1>4 DEF D

\* commitRound, when the lines of the open round have all been read.
LEMMA RoundCommitted ==
    ASSUME lines \in Seq(Statement), seen \in 0..Len(lines), PortalsListed(portalOrder, committed),
           NEW start, OpenListIs(lines, seen, start, order, roundPortal, lastTCP),
           NewestAre(lines, {r \in RoundStarts(lines) : r < start}, committed),
           seen = Len(lines) \/ lines[seen + 1].says = "list", CommitRound
    PROVE  /\ NewestAre(lines, {r \in RoundStarts(lines) : r <= start}, committed')
           /\ PortalsListed(portalOrder', committed')
<1> DEFINE R == {r \in RoundStarts(lines) : r < start}
           T == {r \in RoundStarts(lines) : r <= start}
<1>1. /\ OpensAt(lines, seen, start) /\ roundPortal = PortalOfRound(lines, start)
      /\ ListIs(lines, start+1..seen, order, roundPortal)
  BY DEF OpenListIs
<1>2. LinesOfRound(lines, start) = start+1..seen
  BY <1>1, RoundOver
<1>3. ListIs(lines, LinesOfRound(lines, start), order, roundPortal)
  BY <1>1, <1>2
<1>4. NamesGateways(lines, start) <=> order # <<>>
  BY <1>3, NamesSome
<1>5. /\ start \in Nat /\ start \in RoundStarts(lines)
      /\ \A r \in RoundStarts(lines) : r <= start <=> (r < start \/ r = start)
  <2>1. seen \in Nat
    BY StatementsAre, NumbersOrder
  <2> QED BY <1>1, <2>1, RoundsBefore DEF OpensAt
<1>6. /\ T \subseteq RoundStarts(lines) /\ start \in T /\ \A r \in T : r <= start
      /\ \A r \in T : r \in R \/ r = start
      /\ R \subseteq T
  BY <1>5
<1>7. R = {r \in RoundStarts(lines) : r < start} /\ NewestAre(lines, R, committed)
  OBVIOUS
<1> HIDE DEF R, T
<1>8. CASE order = <<>>
  <2>1. committed' = committed /\ portalOrder' = portalOrder
    BY <1>8 DEF CommitRound, committedVars
  <2>2. NewestAre(lines, T, committed)
    BY <1>4, <1>6, <1>7, <1>8, NewestSkip
  <2> QED BY <2>1, <2>2 DEF T
<1>9. CASE order # <<>>
  <2>1. /\ committed' = Put(committed, roundPortal, order)
        /\ portalOrder' = IF roundPortal \in DOMAIN committed THEN portalOrder
                          ELSE Append(portalOrder, roundPortal)
    BY <1>9 DEF CommitRound
  <2>2. NewestAre(lines, T, Put(committed, roundPortal, order))
    BY <1>1, <1>3, <1>4, <1>6, <1>7, <1>9, NewestPut
  <2>3. PortalsListed(portalOrder', committed')
    BY <2>1, ListedMore
  <2> QED BY <2>1, <2>2, <2>3 DEF T
<1> QED BY <1>8, <1>9

----------------------------------------------------------------------------
(* The actions.                                                            *)

\* What a line that does not begin a round does to the open list.
GoesOn(text, m, gs, portal, tcp, gs2, tcp2) ==
    \A P \in SUBSET Int :
        /\ ListIs(text, P, gs, portal) /\ portal \in Names \cup {""}
        /\ tcp \in SUBSET Nat /\ tcp \subseteq NumbersAt(text, P, {"tcp"})
        => /\ ListIs(text, P \cup {m}, gs2, portal)
           /\ tcp2 \subseteq NumbersAt(text, P \cup {m}, {"tcp"})

LEMMA PortalStaysOr ==
    ASSUME NEW text \in Seq(Statement), NEW n \in 0..Len(text), NEW start, NEW gs, NEW portal, NEW tcp,
           OpenListIs(text, n, start, gs, portal, tcp)
    PROVE  n \in Nat /\ start \in Nat /\ start <= n /\ portal \in Names \cup {""}
<1>1. start \in RoundStarts(text) /\ start <= n /\ portal = PortalOfRound(text, start)
  BY DEF OpenListIs, OpensAt
<1>2. RoundStarts(text) \subseteq 0..Len(text) /\ Len(text) \in Nat
  BY StartsAre, StatementsAre
<1>3. start \in 0..Len(text)
  BY <1>1, <1>2
<1>4. n \in Nat /\ start \in Nat
  BY <1>2, <1>3, NumbersOrder
<1> QED BY <1>1, <1>3, <1>4, PortalIs

LEMMA ReadsOn ==
    ASSUME GatewayInv, seen < Len(lines), lines[seen + 1].says # "list",
           lines' = lines, selection' = selection, seen' = seen + 1,
           curPortal' = (IF lines[seen + 1].says = "sent" THEN lines[seen + 1].portal ELSE curPortal),
           roundPortal' = roundPortal, committed' = committed, portalOrder' = portalOrder,
           lastTCP' \in SUBSET Nat,
           GoesOn(lines, seen + 1, order, roundPortal, lastTCP, order', lastTCP')
    PROVE  GatewayInv'
<1>1. /\ lines \in Seq(Statement) /\ seen \in 0..Len(lines) /\ lastTCP \in SUBSET Nat
      /\ portalOrder \in Seq(DOMAIN committed)
      /\ DOMAIN committed = {portalOrder[k] : k \in DOMAIN portalOrder}
      /\ curPortal = PortalOfRound(lines, seen)
  BY DEF GatewayInv, GatewayTypes
<1>2. Len(lines) \in Nat /\ seen \in Nat
  <2>1. Len(lines) \in Nat
    BY <1>1, StatementsAre
  <2> QED BY <1>1, <2>1, NumbersOrder
<1>3. seen + 1 \in 0..Len(lines)
  BY <1>2
<1>4. curPortal' = PortalOfRound(lines, seen + 1)
  BY <1>1, <1>2, PortalNext
<1>5. ASSUME selection = <<>>
      PROVE  \E start \in RoundStarts(lines) :
                /\ OpenListIs(lines, seen + 1, start, order', roundPortal, lastTCP')
                /\ NewestAre(lines, {r \in RoundStarts(lines) : r < start}, committed)
  <2>1. PICK start \in RoundStarts(lines) :
            /\ OpenListIs(lines, seen, start, order, roundPortal, lastTCP)
            /\ NewestAre(lines, {r \in RoundStarts(lines) : r < start}, committed)
    BY <1>5 DEF GatewayInv
  <2>2. start \in Nat /\ start <= seen /\ roundPortal \in Names \cup {""}
    BY <1>1, <2>1, PortalStaysOr
  <2> DEFINE P == start+1..seen
  <2>3. /\ OpensAt(lines, seen, start) /\ roundPortal = PortalOfRound(lines, start)
        /\ ListIs(lines, P, order, roundPortal) /\ lastTCP \subseteq NumbersAt(lines, P, {"tcp"})
    BY <2>1 DEF OpenListIs
  <2>4. (start + 1)..(seen + 1) = P \cup {seen + 1}
    BY <1>2, <2>2, PlacesMore
  <2>5. P \in SUBSET Int
    OBVIOUS
  <2> HIDE DEF P
  <2>6. /\ ListIs(lines, P \cup {seen + 1}, order', roundPortal)
        /\ lastTCP' \subseteq NumbersAt(lines, P \cup {seen + 1}, {"tcp"})
    BY <1>1, <2>2, <2>3, <2>5 DEF GoesOn
  <2>7. OpensAt(lines, seen + 1, start)
    BY <1>1, <1>2, <2>3, StaysOpen
  <2>8. OpenListIs(lines, seen + 1, start, order', roundPortal, lastTCP')
    BY <2>3, <2>4, <2>6, <2>7 DEF OpenListIs
  <2> QED BY <2>1, <2>8
<1>6. GatewayTypes'
  BY <1>1, <1>3 DEF GatewayTypes
<1> QED BY <1>4, <1>5, <1>6 DEF GatewayInv

\* A line about something else leaves the list as it is.
LEMMA GoesOnSame ==
    ASSUME NEW text, NEW m, NEW gs, NEW portal, NEW tcp, NEW tcp2,
           text[m].says \notin {"entry", "priority", "scores"},
           tcp2 \subseteq tcp \/ (text[m].says = "tcp" /\ tcp2 = {text[m].n})
    PROVE  GoesOn(text, m, gs, portal, tcp, gs, tcp2)
<1>1. ASSUME NEW P \in SUBSET Int, ListIs(text, P, gs, portal),
             tcp \subseteq NumbersAt(text, P, {"tcp"})
      PROVE  /\ ListIs(text, P \cup {m}, gs, portal)
             /\ tcp2 \subseteq NumbersAt(text, P \cup {m}, {"tcp"})
  <2> DEFINE Q == P \cup {m}
  <2>1. ListIs(text, Q, gs, portal)
    BY <1>1, ListStays
  <2>2. text[m].says = "tcp" => text[m].n \in NumbersAt(text, Q, {"tcp"})
    <3>1. \A what : text[m].says \in what => text[m].n \in NumbersAt(text, P \cup {m}, what)
      BY OneMorePlace
    <3>2. text[m].says \in {"tcp"} => text[m].n \in NumbersAt(text, P \cup {m}, {"tcp"})
      BY <3>1
    <3> QED BY <3>2
  <2>3. NumbersAt(text, P, {"tcp"}) \subseteq NumbersAt(text, Q, {"tcp"})
    <3>1. P \subseteq Q
      OBVIOUS
    <3> HIDE DEF Q
    <3> QED BY <3>1, SaysMore
  <2> HIDE DEF Q
  <2>4. tcp2 \subseteq NumbersAt(text, Q, {"tcp"})
    BY <1>1, <2>2, <2>3
  <2> QED BY <2>1, <2>4 DEF Q
<1> QED BY <1>1 DEF GoesOn

LEMMA NumbersMore ==
    ASSUME NEW text, NEW P, NEW m, NEW tcp, tcp \subseteq NumbersAt(text, P, {"tcp"})
    PROVE  tcp \subseteq NumbersAt(text, P \cup {m}, {"tcp"})
<1> DEFINE Q == P \cup {m}
<1>1. P \subseteq Q
  OBVIOUS
<1> HIDE DEF Q
<1>2. NumbersAt(text, P, {"tcp"}) \subseteq NumbersAt(text, Q, {"tcp"})
  BY <1>1, SaysMore
<1> QED BY <1>2 DEF Q

LEMMA GoesOnDetailed ==
    ASSUME NEW text, NEW m, text[m] \in Statement, text[m].says \in {"entry", "priority"},
           NEW tcp2, tcp2 \subseteq lastTCP
    PROVE  GoesOn(text, m, order, roundPortal, lastTCP, DetailedBy(order, text[m]), tcp2)
<1>1. ASSUME NEW P \in SUBSET Int, ListIs(text, P, order, roundPortal),
             roundPortal \in Names \cup {""}, lastTCP \in SUBSET Nat,
             lastTCP \subseteq NumbersAt(text, P, {"tcp"})
      PROVE  /\ ListIs(text, P \cup {m}, DetailedBy(order, text[m]), roundPortal)
             /\ tcp2 \subseteq NumbersAt(text, P \cup {m}, {"tcp"})
  <2>1. tcp2 \subseteq NumbersAt(text, P, {"tcp"})
    BY <1>1
  <2> QED BY <1>1, <2>1, DetailedByIs, NumbersMore
<1> QED BY <1>1 DEF GoesOn

LEMMA GoesOnMismatched ==
    ASSUME NEW text, NEW m, text[m] \in Statement, text[m].says = "mismatch"
    PROVE  GoesOn(text, m, order, roundPortal, lastTCP,
                  [k \in DOMAIN order |-> IF k = Len(order) THEN Mismatched(order[k], text[m].n)
                                          ELSE order[k]], lastTCP)
<1> DEFINE r == [k \in DOMAIN order |-> IF k = Len(order) THEN Mismatched(order[k], text[m].n)
                                        ELSE order[k]]
<1>1. ASSUME NEW P \in SUBSET Int, ListIs(text, P, order, roundPortal),
             lastTCP \subseteq NumbersAt(text, P, {"tcp"})
      PROVE  /\ ListIs(text, P \cup {m}, r, roundPortal)
             /\ lastTCP \subseteq NumbersAt(text, P \cup {m}, {"tcp"})
  BY <1>1, MismatchedIs, NumbersMore
<1> HIDE DEF r
<1>2. GoesOn(text, m, order, roundPortal, lastTCP, r, lastTCP)
  BY <1>1 DEF GoesOn
<1> QED BY <1>2 DEF r

LEMMA GoesOnScored ==
    ASSUME NEW text, NEW m, text[m] \in Statement, text[m].says = "scores"
    PROVE  GoesOn(text, m, order, roundPortal, lastTCP, ScoredBy(text[m].scores), lastTCP)
<1> DEFINE r == ScoredBy(text[m].scores)
<1>1. ASSUME NEW P \in SUBSET Int, ListIs(text, P, order, roundPortal), roundPortal \in Names \cup {""},
             lastTCP \subseteq NumbersAt(text, P, {"tcp"})
      PROVE  /\ ListIs(text, P \cup {m}, r, roundPortal)
             /\ lastTCP \subseteq NumbersAt(text, P \cup {m}, {"tcp"})
  BY <1>1, ScoredByIs, NumbersMore
<1> HIDE DEF r
<1>2. GoesOn(text, m, order, roundPortal, lastTCP, r, lastTCP)
  BY <1>1 DEF GoesOn
<1> QED BY <1>2 DEF r

LEMMA HereIs ==
    ASSUME lines \in Seq(Statement), seen \in 0..Len(lines), seen < Len(lines)
    PROVE  lines[seen + 1] \in Statement /\ seen \in Nat /\ seen + 1 \in 1..Len(lines)
<1>1. Len(lines) \in Nat /\ \A k \in 1..Len(lines) : lines[k] \in Statement
  BY StatementsAre
<1>2. seen \in Nat
  BY <1>1, NumbersOrder
<1>3. seen + 1 \in 1..Len(lines)
  BY <1>1, <1>2
<1> QED BY <1>1, <1>2, <1>3

LEMMA NoLines ==
    ASSUME NEW text, NEW portal
    PROVE  ListIs(text, {}, <<>>, portal)
<1>1. \A k \in DOMAIN <<>> : FALSE
  OBVIOUS
<1>2. <<>> \in Seq(Gateway)
  OBVIOUS
<1>3. \A what : Saying(text, {}, what) = {}
  BY DEF Saying
<1>4. NamedAt(text, {}) = {} /\ ScoresAt(text, {}) = {}
  BY <1>3 DEF NamedAt, ScoresAt
<1>5. NamedOnce(<<>>) /\ EachOfRound(text, {}, <<>>, portal)
  BY <1>1 DEF NamedOnce, EachOfRound
<1>6. CoversNamed(text, {}, <<>>) /\ CoversScores(text, {}, <<>>)
  BY <1>4 DEF CoversNamed, CoversScores
<1> QED BY <1>2, <1>5, <1>6, ListParts

LEMMA NewRound ==
    ASSUME GatewayInv, ResetRound
    PROVE  GatewayInv'
<1>1. /\ lines \in Seq(Statement) /\ seen \in 0..Len(lines)
      /\ portalOrder \in Seq(DOMAIN committed)
      /\ DOMAIN committed = {portalOrder[k] : k \in DOMAIN portalOrder}
      /\ curPortal = PortalOfRound(lines, seen)
  BY DEF GatewayInv, GatewayTypes
<1>2. /\ seen < Len(lines) /\ lines[seen + 1].says = "list" /\ seen' = seen + 1
      /\ CommitRound /\ order' = <<>> /\ lastTCP' = {} /\ roundPortal' = curPortal
      /\ lines' = lines /\ curPortal' = curPortal /\ selection' = selection
  BY DEF ResetRound, Says
<1>3. seen \in Nat /\ seen + 1 \in 1..Len(lines)
  BY <1>1, <1>2, HereIs
<1>4. Len(lines) \in Nat /\ seen + 1 \in 0..Len(lines)
  <2>1. Len(lines) \in Nat
    BY <1>1, StatementsAre
  <2> QED BY <1>3, <2>1, PlacesUpto
<1>5. PortalOfRound(lines, seen + 1) = curPortal
  <2>1. lines[seen + 1].says # "sent"
    BY <1>2
  <2> QED BY <1>1, <1>2, <1>3, <2>1, PortalNext
<1>6. PortalsListed(portalOrder, committed)
  BY <1>1 DEF PortalsListed
<1>7. PortalsListed(portalOrder', committed')
  <2>1. CASE order = <<>>
    BY <1>2, <1>6, <2>1 DEF CommitRound, committedVars
  <2>2. CASE order # <<>>
    <3>1. /\ committed' = Put(committed, roundPortal, order)
          /\ portalOrder' = IF roundPortal \in DOMAIN committed THEN portalOrder
                            ELSE Append(portalOrder, roundPortal)
      BY <1>2, <2>2 DEF CommitRound
    <3> QED BY <1>6, <3>1, ListedMore
  <2> QED BY <2>1, <2>2
<1>8. ASSUME selection = <<>>
      PROVE  \E start \in RoundStarts(lines) :
                /\ OpenListIs(lines, seen + 1, start, <<>>, curPortal, {})
                /\ NewestAre(lines, {r \in RoundStarts(lines) : r < start}, committed')
  <2>1. PICK start \in RoundStarts(lines) :
            /\ OpenListIs(lines, seen, start, order, roundPortal, lastTCP)
            /\ NewestAre(lines, {r \in RoundStarts(lines) : r < start}, committed)
    BY <1>8 DEF GatewayInv
  <2>2. NewestAre(lines, {r \in RoundStarts(lines) : r <= start}, committed')
    BY <1>1, <1>2, <1>6, <2>1, RoundCommitted
  <2>3. OpensAt(lines, seen, start)
    BY <2>1 DEF OpenListIs
  <2>4. \A r \in RoundStarts(lines) : r <= start <=> r < seen + 1
    BY <1>1, <1>3, <2>3, RoundsBefore
  <2>5. {r \in RoundStarts(lines) : r <= start} = {r \in RoundStarts(lines) : r < seen + 1}
    BY <2>4
  <2>6. OpensAt(lines, seen + 1, seen + 1)
    BY <1>1, <1>2, <1>3, Opens
  <2>7. (seen + 1 + 1)..(seen + 1) = {}
    BY <1>3, NoPlaces
  <2>8. ListIs(lines, (seen + 1 + 1)..(seen + 1), <<>>, curPortal)
    BY <2>7, NoLines
  <2>9. OpenListIs(lines, seen + 1, seen + 1, <<>>, curPortal, {})
    BY <1>5, <2>6, <2>8 DEF OpenListIs
  <2>10. seen + 1 \in RoundStarts(lines)
    BY <2>6 DEF OpensAt
  <2> QED BY <2>2, <2>5, <2>9, <2>10
<1>9. GatewayTypes'
  BY <1>1, <1>2, <1>4, <1>7 DEF GatewayTypes, PortalsListed
<1> QED BY <1>2, <1>5, <1>8, <1>9 DEF GatewayInv

\* Every other line.
LEMMA OtherLines ==
    ASSUME GatewayInv, \/ PreloginSent \/ GatewayEntry \/ GatewayPriority \/ RegionMismatch
                       \/ RegionPriority \/ ConnectionTime \/ BestGateway \/ ScoreLine \/ EmptyList
    PROVE  GatewayInv'
<1>1. lines \in Seq(Statement) /\ seen \in 0..Len(lines) /\ lastTCP \in SUBSET Nat
  BY DEF GatewayInv, GatewayTypes
<1> DEFINE l == lines[seen + 1]
<1> USE DEF roundVars, committedVars, sightings, Says, Here
<1>2. CASE PreloginSent \/ RegionPriority \/ ConnectionTime \/ BestGateway \/ EmptyList
  <2>1. /\ seen < Len(lines) /\ l.says \in {"sent", "region", "tcp", "best", "empty"}
        /\ lines' = lines /\ selection' = selection /\ seen' = seen + 1
        /\ roundPortal' = roundPortal /\ committed' = committed /\ portalOrder' = portalOrder
        /\ order' = order
    BY <1>2 DEF PreloginSent, RegionPriority, ConnectionTime, BestGateway, EmptyList
  <2>2. curPortal' = IF l.says = "sent" THEN l.portal ELSE curPortal
    BY <1>2 DEF PreloginSent, RegionPriority, ConnectionTime, BestGateway, EmptyList
  <2>3. lastTCP' = lastTCP \/ (l.says = "tcp" /\ lastTCP' = {l.n})
    BY <1>2 DEF PreloginSent, RegionPriority, ConnectionTime, BestGateway, EmptyList
  <2>4. lines[seen + 1] \in Statement
    BY <1>1, <2>1, HereIs
  <2> HIDE DEF l
  <2>5. l.says = "tcp" => l.n \in Nat
    BY <2>4, StatementIs DEF l
  <2>6. lastTCP' \in SUBSET Nat
    BY <1>1, <2>3, <2>5
  <2>7. GoesOn(lines, seen + 1, order, roundPortal, lastTCP, order, lastTCP')
    <3>1. lines[seen + 1].says \notin {"entry", "priority", "scores"}
      BY <2>1 DEF l
    <3> QED BY <2>3, <3>1, GoesOnSame DEF l
  <2>8. lines[seen + 1].says # "list"
    BY <2>1 DEF l
  <2> QED BY <2>1, <2>2, <2>6, <2>7, <2>8, ReadsOn DEF l
<1>3. CASE GatewayEntry \/ GatewayPriority \/ RegionMismatch \/ ScoreLine
  <2>1. /\ seen < Len(lines) /\ l.says \in {"entry", "priority", "mismatch", "scores"}
        /\ lines' = lines /\ selection' = selection /\ seen' = seen + 1
        /\ roundPortal' = roundPortal /\ committed' = committed /\ portalOrder' = portalOrder
        /\ curPortal' = curPortal /\ (lastTCP' = lastTCP \/ lastTCP' = {})
    BY <1>3 DEF GatewayEntry, GatewayPriority, RegionMismatch, ScoreLine
  <2>2. lines[seen + 1] \in Statement
    BY <1>1, <2>1, HereIs
  <2>3. lastTCP' \in SUBSET Nat /\ lastTCP' \subseteq lastTCP
    BY <1>1, <2>1
  <2>4. GoesOn(lines, seen + 1, order, roundPortal, lastTCP, order', lastTCP')
    <3>1. CASE GatewayEntry \/ GatewayPriority
      <4>1. order' = DetailedBy(order, lines[seen + 1]) /\ lines[seen + 1].says \in {"entry", "priority"}
        BY <3>1 DEF GatewayEntry, GatewayPriority
      <4>2. GoesOn(lines, seen + 1, order, roundPortal, lastTCP, DetailedBy(order, lines[seen + 1]), lastTCP')
        BY <2>2, <2>3, <4>1, GoesOnDetailed
      <4> QED BY <4>1, <4>2
    <3>2. CASE RegionMismatch
      <4>1. /\ lines[seen + 1].says = "mismatch" /\ lastTCP' = lastTCP
            /\ order' = [k \in DOMAIN order |-> IF k = Len(order)
                                                THEN Mismatched(order[k], lines[seen + 1].n)
                                                ELSE order[k]]
        BY <3>2 DEF RegionMismatch
      <4> QED BY <2>2, <4>1, GoesOnMismatched
    <3>3. CASE ScoreLine
      <4>1. /\ lines[seen + 1].says = "scores" /\ lastTCP' = lastTCP
            /\ order' = ScoredBy(lines[seen + 1].scores)
        BY <3>3 DEF ScoreLine
      <4> QED BY <2>2, <4>1, GoesOnScored
    <3> QED BY <1>3, <3>1, <3>2, <3>3
  <2>5. lines[seen + 1].says # "list" /\ lines[seen + 1].says # "sent"
    BY <2>1
  <2> HIDE DEF l
  <2> QED BY <2>1, <2>3, <2>4, <2>5, ReadsOn
<1> QED BY <1>2, <1>3

----------------------------------------------------------------------------
(* The report.                                                             *)

IsList(s) == \E n \in Nat : s = [j \in 1..n |-> s[j]]

\* Whatever the elements are.
LEMMA FlatElements ==
    ASSUME NEW m \in Nat, NEW seqs, DOMAIN seqs = 1..m, Len(seqs) = m, m = 0 => seqs = <<>>,
           \A k \in 1..m : IsList(seqs[k])
    PROVE  HasElements(FlattenSeq(seqs), m, seqs)
<1> DEFINE A == UNION {{seqs[i][j] : j \in DOMAIN seqs[i]} : i \in 1..m}
           flat == FlattenSeq(seqs)
<1>1. \A x : x \in A <=> \E i \in 1..m : \E j \in DOMAIN seqs[i] : seqs[i][j] = x
  OBVIOUS
<1> HIDE DEF A
<1>2. ASSUME NEW k \in 1..m
      PROVE  seqs[k] \in Seq(A)
  <2> DEFINE s == seqs[k]
  <2>1. PICK n \in Nat : s = [j \in 1..n |-> s[j]]
    BY DEF IsList
  <2>2. \A j \in DOMAIN s : s[j] \in A
    BY <1>1
  <2> HIDE DEF s
  <2>3. DOMAIN s = 1..n
    BY <2>1
  <2>4. s \in Seq(A)
    BY <2>1, <2>2, <2>3, SeqIs
  <2> QED BY <2>4 DEF s
<1>3. \A k \in 1..m : seqs[k] \in Seq(A)
  BY <1>2
<1>4. HasElements(flat, m, seqs)
  BY <1>3, FlattenIs
<1> QED BY <1>4

ReportIs(text, reported) ==
    LET offering == {s \in RoundStarts(text) : NamesGateways(text, s)}
    IN  /\ {g.portal : g \in reported} = {PortalOfRound(text, s) : s \in offering}
        /\ \A p \in {PortalOfRound(text, s) : s \in offering} :
              AllOfRound(text, LinesOfRound(text, Latest(RoundsOf(text, p))),
                         {g \in reported : g.portal = p})

PortalsOwn(com, p) ==
    (\A k \in DOMAIN com[p] : com[p][k].portal = p) /\ \E k \in DOMAIN com[p] : TRUE

LEMMA SameNumber == \A m \in Nat : \A a, b \in 0..m : a <= b /\ b <= a => a = b
  OBVIOUS

\* The newest rounds are the report.
LEMMA NewestReported ==
    ASSUME NEW text \in Seq(Statement), NEW com, NEW reported, NewestAre(text, RoundStarts(text), com),
           \A g : g \in reported <=> \E p \in DOMAIN com : \E k \in DOMAIN com[p] : com[p][k] = g
    PROVE  ReportIs(text, reported)
<1> DEFINE offering == {s \in RoundStarts(text) : NamesGateways(text, s)}
<1>1. \A p \in DOMAIN com : \E s \in RoundStarts(text) :
          NewestOf(text, RoundStarts(text), p, s) /\ ListIs(text, LinesOfRound(text, s), com[p], p)
  BY DEF NewestAre
<1>2. ASSUME NEW p \in DOMAIN com
      PROVE  \E s \in RoundStarts(text) :
                /\ s \in RoundsOf(text, p) /\ \A r \in RoundsOf(text, p) : r <= s
                /\ ListIs(text, LinesOfRound(text, s), com[p], p)
                /\ NamesGateways(text, s) /\ PortalOfRound(text, s) = p
  BY <1>1 DEF NewestOf, RoundsOf
<1>3. DOMAIN com = {PortalOfRound(text, s) : s \in offering}
  <2>1. \A s \in offering : PortalOfRound(text, s) \in DOMAIN com
    BY DEF NewestAre
  <2>2. \A p \in DOMAIN com : \E s \in offering : PortalOfRound(text, s) = p
    BY <1>2
  <2> HIDE DEF offering
  <2> QED BY <2>1, <2>2
<1>4. ASSUME NEW p \in DOMAIN com
      PROVE  /\ PortalsOwn(com, p)
             /\ AllOfRound(text, LinesOfRound(text, Latest(RoundsOf(text, p))),
                           {com[p][k] : k \in DOMAIN com[p]})
  <2> DEFINE T == RoundsOf(text, p)
  <2>1. PICK s \in RoundStarts(text) :
            /\ s \in T /\ \A r \in T : r <= s
            /\ ListIs(text, LinesOfRound(text, s), com[p], p) /\ NamesGateways(text, s)
    BY <1>2
  <2>2. RoundStarts(text) \subseteq 0..Len(text) /\ Len(text) \in Nat
    BY StartsAre, StatementsAre
  <2>3. T \in SUBSET (0..Len(text)) /\ T # {}
    BY <2>1, <2>2 DEF RoundsOf
  <2> HIDE DEF T
  <2>4. Latest(T) \in T /\ \A x \in T : x <= Latest(T)
    BY <2>2, <2>3, LatestIs
  <2>5. Latest(T) = s
    <3>1. Latest(T) <= s /\ s <= Latest(T) /\ s \in 0..Len(text) /\ Latest(T) \in 0..Len(text)
      BY <2>1, <2>3, <2>4
    <3> QED BY <2>2, <3>1, SameNumber
  <2>6. AllOfRound(text, LinesOfRound(text, s), {com[p][k] : k \in DOMAIN com[p]})
        /\ \A k \in DOMAIN com[p] : com[p][k].portal = p
    BY <2>1 DEF ListIs
  <2>7. \E k \in DOMAIN com[p] : TRUE
    BY <2>1, NamesSome
  <2> QED BY <2>5, <2>6, <2>7 DEF T, PortalsOwn
<1>5. \A p \in DOMAIN com : PortalsOwn(com, p)
  BY <1>4
<1>6. {g.portal : g \in reported} = DOMAIN com
  <2>1. ASSUME NEW g \in reported
        PROVE  g.portal \in DOMAIN com
    BY <1>5 DEF PortalsOwn
  <2>2. ASSUME NEW p \in DOMAIN com
        PROVE  \E g \in reported : g.portal = p
    <3>1. PICK k \in DOMAIN com[p] : com[p][k].portal = p
      BY <1>5 DEF PortalsOwn
    <3> QED BY <3>1
  <2> QED BY <2>1, <2>2
<1>7. ASSUME NEW p \in DOMAIN com
      PROVE  {g \in reported : g.portal = p} = {com[p][k] : k \in DOMAIN com[p]}
  <2>1. ASSUME NEW g \in reported, g.portal = p
        PROVE  \E k \in DOMAIN com[p] : com[p][k] = g
    <3>1. PICK q \in DOMAIN com : \E k \in DOMAIN com[q] : com[q][k] = g
      OBVIOUS
    <3>2. q = p
      BY <1>5, <2>1, <3>1 DEF PortalsOwn
    <3> QED BY <3>1, <3>2
  <2>2. ASSUME NEW k \in DOMAIN com[p]
        PROVE  com[p][k] \in reported /\ com[p][k].portal = p
    BY <1>5 DEF PortalsOwn
  <2> QED BY <2>1, <2>2
<1>8. ASSUME NEW p \in DOMAIN com
      PROVE  AllOfRound(text, LinesOfRound(text, Latest(RoundsOf(text, p))),
                        {g \in reported : g.portal = p})
  <2>1. {g \in reported : g.portal = p} = {com[p][k] : k \in DOMAIN com[p]}
    BY <1>7
  <2>2. AllOfRound(text, LinesOfRound(text, Latest(RoundsOf(text, p))),
                   {com[p][k] : k \in DOMAIN com[p]})
    BY <1>4
  <2> QED BY <2>1, <2>2
<1> HIDE DEF offering
<1>9. /\ {g.portal : g \in reported} = {PortalOfRound(text, s) : s \in offering}
      /\ \A p \in {PortalOfRound(text, s) : s \in offering} :
            AllOfRound(text, LinesOfRound(text, Latest(RoundsOf(text, p))),
                       {g \in reported : g.portal = p})
  BY <1>3, <1>6, <1>8
<1> QED BY <1>9 DEF ReportIs, offering

LEMMA Answered ==
    ASSUME GatewayInv, Select
    PROVE  GatewayInv' /\ NewestRoundPerPortal'
<1>1. /\ lines \in Seq(Statement) /\ seen \in 0..Len(lines) /\ lastTCP \in SUBSET Nat
      /\ portalOrder \in Seq(DOMAIN committed)
      /\ DOMAIN committed = {portalOrder[k] : k \in DOMAIN portalOrder}
      /\ curPortal = PortalOfRound(lines, seen)
  BY DEF GatewayInv, GatewayTypes
<1> DEFINE seqs == [k \in DOMAIN portalOrder' |-> Reported(portalOrder'[k])]
           reported == FlattenSeq(seqs)
           com == committed'
           m == Len(portalOrder')
           sel == selection'[1]
<1>2. /\ seen = Len(lines) /\ selection = <<>> /\ CommitRound
      /\ lines' = lines /\ seen' = seen /\ curPortal' = curPortal /\ lastTCP' = lastTCP
  BY DEF Select, roundVars
<1>3. \E b, n : selection' = <<[gateways |-> reported, best |-> b, notes |-> n]>>
  BY DEF Select
<1>4. PICK start \in RoundStarts(lines) :
          /\ OpenListIs(lines, seen, start, order, roundPortal, lastTCP)
          /\ NewestAre(lines, {r \in RoundStarts(lines) : r < start}, committed)
  BY <1>2 DEF GatewayInv
<1>5. PortalsListed(portalOrder, committed)
  BY <1>1 DEF PortalsListed
<1>6. /\ NewestAre(lines, {r \in RoundStarts(lines) : r <= start}, committed')
      /\ PortalsListed(portalOrder', committed')
  BY <1>1, <1>2, <1>4, <1>5, RoundCommitted
<1>7. {r \in RoundStarts(lines) : r <= start} = RoundStarts(lines)
  <2>1. OpensAt(lines, seen, start)
    BY <1>4 DEF OpenListIs
  <2>2. seen \in Nat
    BY <1>1, StatementsAre, NumbersOrder
  <2>3. \A r \in RoundStarts(lines) : r <= start
    BY <1>1, <1>2, <2>1, <2>2, RoundsBefore
  <2> QED BY <2>3
<1>8. NewestAre(lines, RoundStarts(lines), com)
  BY <1>6, <1>7
<1>9. portalOrder' \in Seq(DOMAIN com) /\ DOMAIN com = {portalOrder'[k] : k \in DOMAIN portalOrder'}
  BY <1>6 DEF PortalsListed
<1> HIDE DEF com
<1>10. m \in Nat /\ DOMAIN portalOrder' = 1..m
  BY <1>9, LenProperties
<1>11. \A p \in DOMAIN com : com[p] \in Seq(Gateway)
  BY <1>8 DEF NewestAre, ListIs
<1>12. \A p : DOMAIN Reported(p) = DOMAIN com[p]
              /\ Reported(p) = [k \in DOMAIN com[p] |-> Reported(p)[k]]
              /\ \A k \in DOMAIN com[p] : Reported(p)[k].gateway = com[p][k]
  BY DEF Reported, com
<1> HIDE DEF m
<1>13. DOMAIN seqs = 1..m /\ \A k \in 1..m : seqs[k] = Reported(portalOrder'[k])
  BY <1>10
<1>14. Len(seqs) = m /\ (m = 0 => seqs = <<>>)
  <2>1. Len(seqs) = m
    BY <1>10, <1>13, LenProperties
  <2>2. m = 0 => seqs = <<>>
    BY <1>10
  <2> QED BY <2>1, <2>2
<1> HIDE DEF seqs
<1>15. ASSUME NEW k \in 1..m
       PROVE  IsList(seqs[k])
  <2> DEFINE p == portalOrder'[k]
  <2>1. p \in DOMAIN com
    BY <1>9, <1>10
  <2> HIDE DEF p
  <2>2. Len(com[p]) \in Nat /\ DOMAIN com[p] = 1..Len(com[p])
    BY <1>11, <2>1, LenProperties
  <2>3. seqs[k] = Reported(p)
    BY <1>13 DEF p
  <2>4. seqs[k] = [j \in 1..Len(com[p]) |-> seqs[k][j]]
    BY <1>12, <2>2, <2>3
  <2> QED BY <2>2, <2>4 DEF IsList
<1>16. \A x : (\E k \in DOMAIN reported : reported[k] = x)
                <=> \E i \in 1..m : \E j \in DOMAIN seqs[i] : seqs[i][j] = x
  <2>1. \A k \in 1..m : IsList(seqs[k])
    BY <1>15
  <2>2. DOMAIN seqs = 1..m
    BY <1>13
  <2>3. HasElements(reported, m, seqs)
    BY <1>10, <1>14, <2>1, <2>2, FlatElements
  <2> QED BY <2>3 DEF HasElements
<1> HIDE DEF reported
<1> DEFINE those == {reported[k].gateway : k \in DOMAIN reported}
<1>17. ASSUME NEW g
       PROVE  g \in those <=> \E p \in DOMAIN com : \E k \in DOMAIN com[p] : com[p][k] = g
  <2>1. ASSUME NEW k \in DOMAIN reported, reported[k].gateway = g
        PROVE  \E p \in DOMAIN com : \E j \in DOMAIN com[p] : com[p][j] = g
    <3>1. \E i \in 1..m : \E j \in DOMAIN seqs[i] : seqs[i][j] = reported[k]
      BY <1>16
    <3>2. PICK i \in 1..m : \E j \in DOMAIN seqs[i] : seqs[i][j] = reported[k]
      BY <3>1
    <3>3. PICK j \in DOMAIN seqs[i] : seqs[i][j] = reported[k]
      BY <3>2
    <3> DEFINE p == portalOrder'[i]
    <3>4. p \in DOMAIN com /\ seqs[i] = Reported(p)
      BY <1>9, <1>10, <1>13
    <3> HIDE DEF p
    <3>5. j \in DOMAIN com[p] /\ com[p][j] = g
      BY <1>12, <2>1, <3>3, <3>4
    <3> QED BY <3>4, <3>5
  <2>2. ASSUME NEW p \in DOMAIN com, NEW j \in DOMAIN com[p], com[p][j] = g
        PROVE  g \in those
    <3>1. PICK i \in 1..m : portalOrder'[i] = p
      BY <1>9, <1>10
    <3>2. j \in DOMAIN seqs[i] /\ seqs[i][j].gateway = g
      BY <1>12, <1>13, <2>2, <3>1
    <3>3. PICK k \in DOMAIN reported : reported[k] = seqs[i][j]
      BY <1>16, <3>2
    <3> QED BY <3>2, <3>3
  <2> QED BY <2>1, <2>2
<1>18. ReportIs(lines, those)
  <2> HIDE DEF those
  <2> QED BY <1>1, <1>8, <1>17, NewestReported
<1>19. selection' # <<>> /\ sel.gateways = reported
  BY <1>3
<1>20. NewestRoundPerPortal'
  <2>1. ReportIs(lines', {selection'[1].gateways[k].gateway : k \in DOMAIN selection'[1].gateways})
    BY <1>2, <1>18, <1>19
  <2> QED BY <2>1 DEF NewestRoundPerPortal, ReportIs
<1>21. GatewayTypes'
  BY <1>1, <1>2, <1>9 DEF GatewayTypes, com
<1>22. GatewayInv'
  BY <1>1, <1>2, <1>19, <1>21 DEF GatewayInv
<1> QED BY <1>20, <1>22

LEMMA GatewaysBegin ==
    ASSUME GatewayInit
    PROVE  GatewayInv /\ NewestRoundPerPortal
<1>1. /\ lines \in GatewayLogs /\ seen = 0 /\ curPortal = "" /\ roundPortal = "" /\ order = <<>>
      /\ lastTCP = {} /\ committed = <<>> /\ portalOrder = <<>> /\ selection = <<>>
  BY DEF GatewayInit
<1>2. lines \in Seq(Statement)
  <2>1. PICK tar \in Collections : lines = ReadOrder(tar)
    BY <1>1 DEF GatewayLogs
  <2>2. tar \in Seq(LogMember)
    BY GatewaysAssumption
  <2> QED BY <2>1, <2>2, ReadOrderIs
<1>3. seen \in 0..Len(lines) /\ 0 \in Nat
  <2>1. Len(lines) \in Nat
    BY <1>2, StatementsAre
  <2> QED BY <1>1, <2>1, PlacesUpto
<1>4. /\ DOMAIN committed = {} /\ DOMAIN portalOrder = {}
      /\ portalOrder \in Seq(DOMAIN committed)
  <2>1. DOMAIN <<>> = {} /\ \A S : <<>> \in Seq(S)
    OBVIOUS
  <2> QED BY <1>1, <2>1
<1>5. OpenListIs(lines, seen, 0, order, roundPortal, lastTCP)
  <2>1. OpensAt(lines, 0, 0)
    <3>1. 0 \in RoundStarts(lines)
      BY DEF RoundStarts
    <3>2. RoundStarts(lines) \subseteq 0..Len(lines) /\ Len(lines) \in Nat
      BY <1>2, StartsAre, StatementsAre
    <3>3. \A n \in Nat : \A r \in 0..n : r <= 0 \/ r > 0
      OBVIOUS
    <3>4. 0 <= 0
      OBVIOUS
    <3> QED BY <3>1, <3>2, <3>3, <3>4 DEF OpensAt
  <2>2. (0 + 1)..0 = {}
    BY NoPlaces, <1>3
  <2>3. ListIs(lines, (0 + 1)..0, <<>>, "")
    BY <2>2, NoLines
  <2> QED BY <1>1, <2>1, <2>3, PortalFirst DEF OpenListIs
<1>6. {r \in RoundStarts(lines) : r < 0} = {}
  <2>1. RoundStarts(lines) \subseteq 0..Len(lines) /\ Len(lines) \in Nat
    BY <1>2, StartsAre, StatementsAre
  <2>2. \A n \in Nat : \A r \in 0..n : ~(r < 0)
    OBVIOUS
  <2> QED BY <2>1, <2>2
<1>7. NewestAre(lines, {r \in RoundStarts(lines) : r < 0}, committed)
  BY <1>4, <1>6 DEF NewestAre
<1>8. 0 \in RoundStarts(lines) /\ curPortal = PortalOfRound(lines, seen)
  BY <1>1, PortalFirst DEF RoundStarts
<1>9. GatewayTypes
  BY <1>1, <1>2, <1>3, <1>4 DEF GatewayTypes
<1> QED BY <1>1, <1>5, <1>7, <1>8, <1>9 DEF GatewayInv, NewestRoundPerPortal

LEMMA ReportedBy ==
    NewestRoundPerPortal <=>
        (selection # <<>> =>
            ReportIs(lines, {selection[1].gateways[k].gateway : k \in DOMAIN selection[1].gateways}))
BY DEF NewestRoundPerPortal, ReportIs

LEMMA ReportStays ==
    ASSUME NewestRoundPerPortal, lines' = lines, selection' = selection
    PROVE  NewestRoundPerPortal'
<1> DEFINE those == {selection[1].gateways[k].gateway : k \in DOMAIN selection[1].gateways}
<1>1. selection # <<>> => ReportIs(lines, those)
  BY ReportedBy
<1>2. selection' # <<>> => ReportIs(lines', those')
  <2> SUFFICES ASSUME selection' # <<>>
               PROVE  ReportIs(lines', those')
    OBVIOUS
  <2>1. those' = those
    OBVIOUS
  <2> HIDE DEF those
  <2> QED BY <1>1, <2>1
<1> QED BY <1>2 DEF NewestRoundPerPortal, ReportIs

LEMMA GatewaysGoOn ==
    ASSUME GatewayInv, NewestRoundPerPortal, [GatewayNext]_gatewayVars
    PROVE  GatewayInv' /\ NewestRoundPerPortal'
<1>1. CASE Select
  BY <1>1, Answered
<1>2. CASE UNCHANGED gatewayVars
  <2>1. /\ lines' = lines /\ seen' = seen /\ curPortal' = curPortal /\ roundPortal' = roundPortal
        /\ order' = order /\ lastTCP' = lastTCP /\ committed' = committed
        /\ portalOrder' = portalOrder /\ selection' = selection
    BY <1>2 DEF gatewayVars
  <2>2. NewestRoundPerPortal'
    BY <2>1, ReportStays
  <2>3. GatewayTypes'
    BY <2>1 DEF GatewayInv, GatewayTypes
  <2> QED BY <2>1, <2>2, <2>3 DEF GatewayInv
<1>3. CASE \/ ResetRound \/ PreloginSent \/ GatewayEntry \/ GatewayPriority \/ RegionMismatch
           \/ RegionPriority \/ ConnectionTime \/ BestGateway \/ ScoreLine \/ EmptyList
  <2>1. lines' = lines /\ selection' = selection
    BY <1>3 DEF ResetRound, PreloginSent, GatewayEntry, GatewayPriority, RegionMismatch,
                RegionPriority, ConnectionTime, BestGateway, ScoreLine, EmptyList
  <2>2. NewestRoundPerPortal'
    BY <2>1, ReportStays
  <2>3. GatewayInv'
    BY <1>3, NewRound, OtherLines
  <2> QED BY <2>2, <2>3
<1> QED BY <1>1, <1>2, <1>3 DEF GatewayNext

\* NewestRoundPerPortal: of every portal that offered gateways, the newest round is
\* reported, whole and unmixed, whatever the logs say (ExtractGPGateways).
THEOREM NewestRoundsReported == GatewaySpec => []NewestRoundPerPortal
<1>1. GatewayInit => GatewayInv /\ NewestRoundPerPortal
  BY GatewaysBegin
<1>2. GatewayInv /\ NewestRoundPerPortal /\ [GatewayNext]_gatewayVars
        => GatewayInv' /\ NewestRoundPerPortal'
  BY GatewaysGoOn
<1> QED BY <1>1, <1>2, PTL DEF GatewaySpec

=============================================================================
