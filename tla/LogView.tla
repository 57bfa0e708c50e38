------------------------------ MODULE LogView ------------------------------
(***************************************************************************)
(* How one log of an archive is shown and downloaded (backend/internal/    *)
(* parser/monitor.go, gplog.go, logtimestamps.go, timefilter.go): the head  *)
(* of the file decides which of two readers makes entries of its lines,    *)
(* the page keeps those between two bounds, and a download filters the     *)
(* lines by a rule of its own.                                             *)
(*                                                                         *)
(* A step reads one line, for the page and for the download at once.  A    *)
(* line is what the regular expressions make of it.  A time is a year and  *)
(* the time in it.                                                         *)
(***************************************************************************)
EXTENDS Integers, Sequences, FiniteSets, Functions, Selection

CONSTANTS
    Logs,           \* the logs
    Bounds,         \* the times asked for, NoTime when open
    LogSniffLines,  \* logSniffLines
    ThisYear,       \* of time.Now
    NoTime

Time == [year : Nat, t : Nat]

\* "block" is "<date> --- <name>", "lead" a line that begins with a date, "loose"
\* one in another form; "gp" is an entry of a GlobalProtect log.  year is 0 when the
\* date has none; says is a year of four digits in the line, or 0.  The dates of
\* the first two kinds are those isoTsRe finds, and, like the agent's, have a year.
Shapes == {"block", "lead", "loose", "section", "resource", "sub", "gp", "text", "blank"}
Recognised == [shape : Shapes, year : Nat, t : Nat, ms : Nat, valid : BOOLEAN, says : Nat,
               iso : BOOLEAN,    \* isoTsRe matches
               month : BOOLEAN,  \* syslogTsRe matches
               name : STRING]
Entry == {e \in Recognised :
            /\ e.shape \in {"block", "lead"} => e.iso
            /\ e.shape \in {"block", "lead", "gp"} /\ e.valid => e.year > 0}

\* A line, and the entries written onto the same one (splitGPEmbedded).
LogLine == [first : Entry, more : Seq(Entry)]

ASSUME LogViewAssumption ==
    /\ Logs \subseteq Seq(LogLine)
    /\ Bounds \subseteq Time \cup {NoTime} /\ NoTime \notin Time
    /\ LogSniffLines \in Nat /\ ThisYear \in Nat \ {0}

VARIABLES
    log, read,   \* the log, and how many of its lines have been read
    from, to,    \* the bounds
    scan,        \* the locals of the reader
    entries,     \* what it has made
    last, sent   \* the download: the time in force, and the lines written

viewVars == <<log, read, from, to, scan, entries, last, sent>>

----------------------------------------------------------------------------
(* Choosing the reader.                                                    *)

HeadLines == {k \in DOMAIN log : k <= LogSniffLines /\ log[k].first.shape # "blank"}
HeadOf(shapes) == {k \in HeadLines : log[k].first.shape \in shapes}

\* looksLikeGPLog: which family recognises more of the head.
LooksLikeGPLog == Cardinality(HeadOf({"gp"})) > Cardinality(HeadOf({"block", "lead"}))

\* looseYearHint: the year of the first line of the head that has one.
HeadYear(e) ==
    IF e.shape \in {"block", "lead", "loose"} /\ e.valid /\ e.year > 0 THEN e.year ELSE e.says

LooseYearHint ==
    LET stating == {k \in HeadLines : HeadYear(log[k].first) > 0}
    IN  IF stating = {} THEN 0
        ELSE HeadYear(log[CHOOSE k \in stating : \A j \in stating : k <= j].first)

ViewInit ==
    /\ log \in Logs /\ read = 0
    /\ from \in Bounds /\ to \in Bounds
    /\ scan = [ts |-> NoTime, ms |-> 0, label |-> "", sub |-> "", inResource |-> FALSE,
               yearHint |-> IF LooksLikeGPLog THEN 0 ELSE LooseYearHint]
    /\ entries = <<>>
    /\ last = NoTime /\ sent = {}

----------------------------------------------------------------------------
(* structureLog, for every log that is not GlobalProtect's.                *)

TimeOf(e) == [year |-> e.year, t |-> e.t]

\* Mistake: a date without a year is taken to be of this one.
LooseTsThisYear(e, yearHint) ==
    IF e.shape # "loose" \/ ~e.valid THEN NoTime
    ELSE IF e.year > 0 THEN TimeOf(e)
    ELSE [year |-> IF yearHint = 0 THEN ThisYear ELSE yearHint, t |-> e.t]

\* parseLooseTs: without a hint, a date without a year stays unstamped.
LooseTs(e, yearHint) ==
    IF e.shape # "loose" \/ ~e.valid \/ (e.year = 0 /\ yearHint = 0) THEN NoTime
    ELSE [year |-> IF e.year > 0 THEN e.year ELSE yearHint, t |-> e.t]

\* The time a line gives; an invalid date leaves the one in force.
Stamp(e) ==
    IF e.shape \in {"block", "lead"} /\ e.valid THEN TimeOf(e) ELSE LooseTs(e, scan.yearHint)

\* explicitYear, and the year of the stamp when there is no hint yet.
NextHint(e) ==
    LET loose == LooseTs(e, scan.yearHint)
    IN  IF loose = NoTime THEN scan.yearHint
        ELSE IF e.says > 0 THEN e.says
        ELSE IF scan.yearHint = 0 THEN loose.year ELSE scan.yearHint

\* The section transitions; a block and a section end the subsections.
Labelled(e) ==
    CASE e.shape \in {"block", "section", "resource"} ->
            [scan EXCEPT !.label = e.name, !.sub = "", !.inResource = (e.shape = "resource")]
      [] e.shape = "sub" /\ scan.inResource -> [scan EXCEPT !.sub = e.name]
      [] OTHER -> scan

LogEntry(s, sep, n) ==
    [ts |-> s.ts, ms |-> s.ms, sep |-> sep, label |-> <<s.label, s.sub>>, line |-> n]

\* Every line becomes an entry.
MonitorLine(e) ==
    LET s == [Labelled(e) EXCEPT !.ts = IF Stamp(e) = NoTime THEN @ ELSE Stamp(e),
                                 !.yearHint = NextHint(e)]
    IN  /\ ~LooksLikeGPLog
        /\ scan' = s
        /\ entries' = Append(entries, LogEntry(s, "/", read + 1))

----------------------------------------------------------------------------
(* StructureGPLog.                                                         *)

\* gpScanState.add: an entry sets the time, if its date is one, and the label; other
\* lines continue the entry above, except blank ones.
Add(st, e) ==
    LET s == IF e.shape # "gp" THEN st.scan
             ELSE IF e.valid THEN [st.scan EXCEPT !.ts = TimeOf(e), !.ms = e.ms, !.label = e.name]
             ELSE [st.scan EXCEPT !.label = e.name]
    IN  [scan |-> s,
         entries |-> IF e.shape = "blank" THEN st.entries
                     ELSE Append(st.entries, LogEntry(s, "-", read + 1))]

GPLine(l) ==
    LET es == <<l.first>> \o l.more
        st[k \in 0..Len(es)] ==
            IF k = 0 THEN [scan |-> scan, entries |-> entries] ELSE Add(st[k-1], es[k])
    IN  LooksLikeGPLog /\ scan' = st[Len(es)].scan /\ entries' = st[Len(es)].entries

----------------------------------------------------------------------------
(* FilterLines.                                                            *)

RefYear == IF from = NoTime THEN ThisYear ELSE from.year

\* extractTimestamp: a date without a year is of the year of the lower bound.
ExtractTimestamp(e) ==
    IF e.iso /\ e.valid THEN TimeOf(e)
    ELSE IF e.month /\ e.valid THEN [year |-> RefYear, t |-> e.t]
    ELSE NoTime

Before(x, y) == x.year < y.year \/ (x.year = y.year /\ x.t < y.t)

Within(ts) == (from # NoTime => ~Before(ts, from)) /\ (to # NoTime => ~Before(to, ts))

\* A line without a time of its own has that of the line above.
DownloadLine(e) ==
    LET t == ExtractTimestamp(e)
    IN  /\ last' = IF t = NoTime THEN last ELSE t
        /\ sent' = IF (last' = NoTime /\ from = NoTime) \/ (last' # NoTime /\ Within(last'))
                   THEN sent \cup {read + 1} ELSE sent

ViewLine ==
    /\ read < Len(log)
    /\ LET l == log[read + 1]
       IN  DownloadLine(l.first) /\ (MonitorLine(l.first) \/ GPLine(l))
    /\ read' = read + 1
    /\ UNCHANGED <<log, from, to>>

ViewNext == ViewLine

ViewSpec == ViewInit /\ [][ViewNext]_viewVars

----------------------------------------------------------------------------
(* StructureLogPageStats: the entries between the bounds, as displayed     *)
(* texts compare: the year, the separator, the time, the milliseconds.     *)

Separators == <<"-", "/">>
SepRank(sep) == IF sep = "-" THEN 1 ELSE 2

\* Mistake: the separators of the two readers are compared.
NormalizeNothing(e) == <<e.ts.year, SepRank(e.sep), e.ts.t, e.ms>>

NormalizeLogTs(e) == <<e.ts.year, SepRank("-"), e.ts.t, e.ms>>

\* Texts that end compare below those that go on.
Below(x, y) ==
    \E k \in DOMAIN y :
        /\ \A j \in 1..k-1 : x[j] = y[j]
        /\ k \in DOMAIN x => x[k] < y[k]
        /\ k <= Len(x) + 1

Bound(b) == <<b.year, SepRank("-"), b.t>>

\* An entry without a time cannot be placed; the upper bound is compared to as many
\* characters as it has.
InPage(e) ==
    \/ from = NoTime /\ to = NoTime
    \/ /\ e.ts # NoTime
       /\ from # NoTime => ~Below(NormalizeLogTs(e), Bound(from))
       /\ to # NoTime => ~Below(Bound(to), SubSeq(NormalizeLogTs(e), 1, 3))

Shown == Pick(entries, {k \in DOMAIN entries : InPage(entries[k])})

\* One page, and the figures of the whole file with it.
PageStats(offset, limit) ==
    LET start == IF offset > Len(Shown) THEN Len(Shown) ELSE offset
        end == IF limit > 0 /\ offset + limit < Len(Shown) THEN offset + limit ELSE Len(Shown)
    IN  [page |-> SubSeq(Shown, start + 1, end), total |-> Len(Shown), fileTotal |-> Len(entries),
         timestamped |-> Cardinality({k \in DOMAIN entries : entries[k].ts # NoTime})]

----------------------------------------------------------------------------
(* Properties.                                                             *)

\* "So the two kinds of log filter alike" (StructureLogPageStats): the entries of a
\* page are those whose time is within the bounds, whichever reader made them; and
\* where every date of a monitor log leads its line, the lines of a page with a lower
\* bound are those of the download.  Page by page, all of them are shown.
FiltersAlike ==
    LET lines == {Shown[k].line : k \in DOMAIN Shown}
        dated == \A k \in 1..read :
                    /\ log[k].first.shape # "loose" /\ ~log[k].first.month
                    /\ log[k].first.iso => log[k].first.shape \in {"block", "lead"}
    IN  /\ from # NoTime \/ to # NoTime =>
              \A k \in DOMAIN entries :
                  InPage(entries[k]) <=> entries[k].ts # NoTime /\ Within(entries[k].ts)
        /\ ~LooksLikeGPLog /\ dated /\ from # NoTime => lines = sent
        /\ \A k \in DOMAIN Shown : PageStats(k - 1, 1).page = <<Shown[k]>>

\* "A wrong timestamp is worse than none" (parseLooseTs): the year an entry is given
\* is one that a line of its log states.
YearsAreStated ==
    \A k \in DOMAIN entries :
        entries[k].ts # NoTime =>
            \E j \in DOMAIN log : \E e \in {log[j].first} \cup Range(log[j].more) :
                entries[k].ts.year \in {e.year, e.says} \ {0}

=============================================================================
