----------------------------- MODULE MCGPState -----------------------------
(***************************************************************************)
(* Instances of the readers of logs for TLC (GPState, GPFlow, Gateways,    *)
(* Portals and LogView): all short logs over a few kinds of lines.  The    *)
(* machines do not meet: each run takes the steps of one of them.          *)
(***************************************************************************)
EXTENDS GPFlow, Gateways, Portals, LogView

Plain == [kind |-> "event", stage |-> "", state |-> "other", hip |-> FALSE,
          rank |-> ReasonNone, teardown |-> FALSE]
Starts(st) == [Plain EXCEPT !.kind = "stage", !.stage = st]
SetState(s) == [Plain EXCEPT !.kind = "state", !.state = s]

TSLog == [Plain EXCEPT !.rank = ReasonTSLog, !.stage = "portal auth"]
Symptom == [Plain EXCEPT !.rank = 2]
Status == [Plain EXCEPT !.rank = 1, !.stage = "portal auth"]
HipReport == [Plain EXCEPT !.hip = TRUE]
StopThreads == [Plain EXCEPT !.teardown = TRUE]

Texts(kinds, len) == UNION {[1..n -> kinds] : n \in 0..len}

\* Every kind of line, and the longer logs of the lines that cut and end attempts
\* and of those that tell of logins.
AllKinds == {Starts(Prelogin), Starts("gateway auth"), Starts(Tunnel), Starts(PortalConfig), Starts(""),
             SetState("retrieving"), SetState("connected"), SetState("dropped"),
             TSLog, Symptom, HipReport, StopThreads}
Cutting == {Starts(Prelogin), Starts("portal auth"), SetState("retrieving"),
            SetState("connected"), SetState("dropped"), TSLog}
Logins == {Starts(Prelogin), Starts("portal auth"), Starts("gateway auth"),
           SetState("dropped"), Status, Symptom}
LoginsThatFail == Texts(Logins, 3)
AllTraces == Texts(AllKinds, 4) \cup Texts(Cutting, 5) \cup Texts(Logins, 5)

DroppedThenRetried ==
    Texts({Starts(Prelogin), SetState("retrieving"), SetState("connected"), SetState("dropped")}, 4)

----------------------------------------------------------------------------
(* Lines of logs to look at.                                               *)

TextLine == [shape |-> "text", year |-> 0, t |-> 0, ms |-> 0, valid |-> TRUE, says |-> 0,
             iso |-> FALSE, month |-> FALSE, name |-> "a"]
Alone(e) == [first |-> e, more |-> <<>>]

DatedAt(shape, year, t) ==
    [TextLine EXCEPT !.shape = shape, !.year = year, !.t = t, !.says = year, !.iso = TRUE]
LooseAt(t, says) == [TextLine EXCEPT !.shape = "loose", !.t = t, !.says = says, !.month = TRUE]
GPAt(t, ms) == [DatedAt("gp", 2026, t) EXCEPT !.iso = FALSE, !.ms = ms]

\* Blocks and dates in two years, one that is no date, dates without a year, and
\* texts that state one.
MonitorLines ==
    {Alone(DatedAt("block", 2025, 2)), Alone([DatedAt("block", 2026, 1) EXCEPT !.name = "b"]),
     Alone(DatedAt("lead", 2026, 2)), Alone([DatedAt("lead", 2026, 3) EXCEPT !.valid = FALSE]),
     Alone([DatedAt("loose", 2025, 1) EXCEPT !.iso = FALSE, !.month = TRUE]),
     Alone([DatedAt("loose", 2025, 3) EXCEPT !.iso = FALSE, !.says = 0]),
     Alone(LooseAt(1, 0)), Alone(LooseAt(2, 2026)), Alone(TextLine), Alone([TextLine EXCEPT !.says = 2027]),
     Alone([TextLine EXCEPT !.shape = "resource"]), Alone([TextLine EXCEPT !.shape = "sub"]),
     Alone([TextLine EXCEPT !.shape = "blank"])}

\* Entries of the agent, alone and on one line, and one whose date is none.
AgentLines ==
    {Alone(GPAt(2, 4)), Alone(GPAt(1, 0)), Alone([GPAt(3, 0) EXCEPT !.valid = FALSE]),
     [first |-> GPAt(2, 0), more |-> <<GPAt(3, 7), GPAt(1, 1)>>],
     [first |-> TextLine, more |-> <<GPAt(2, 1)>>],
     Alone(TextLine), Alone([TextLine EXCEPT !.shape = "blank"]), Alone(DatedAt("lead", 2026, 2))}

MCLogs == Texts(MonitorLines, 3) \cup Texts(AgentLines, 4)
NoLogs == {<<>>}
MCBounds == {NoTime, [year |-> 2025, t |-> 3], [year |-> 2026, t |-> 2]}

----------------------------------------------------------------------------
(* Collections with rounds of gateways.                                    *)

NewList == [says |-> "list", portal |-> "", fqdn |-> "", name |-> "", n |-> 0, scores |-> <<>>]
SentTo(p) == [NewList EXCEPT !.says = "sent", !.portal = p]
EntryFor(f, display) == [NewList EXCEPT !.says = "entry", !.fqdn = f, !.name = display]
PriorityOf(f, p) == [NewList EXCEPT !.says = "priority", !.fqdn = f, !.n = p]
StatesNumber(what, n) == [NewList EXCEPT !.says = what, !.n = n]
BestIs(f) == [NewList EXCEPT !.says = "best", !.fqdn = f]
RegionOf(display, region) == [NewList EXCEPT !.says = "region", !.name = display, !.fqdn = region]
Scores(ss) == [NewList EXCEPT !.says = "scores", !.scores = ss]
Score(display, p, t, w) ==
    [name |-> display, priority |-> p, tcp |-> t, ssl |-> t, weight |-> w]
File(base, age, text) == [log |-> base, rotation |-> age, lines |-> text]

\* Numbers tell the lines of the rotated files from those of the live ones.
OldLines == {NewList, SentTo("P"), EntryFor("a", "A"), PriorityOf("b", 3), StatesNumber("tcp", 7),
             BestIs("b")}
NewLines == {NewList, SentTo("P"), SentTo("Q"), EntryFor("a", "A"), PriorityOf("a", 5),
             StatesNumber("mismatch", -2), Scores(<<Score("A", 4, 8, 20), Score("b", 4, 8, 20)>>),
             StatesNumber("empty", 0), RegionOf("A", "b")}

MCCollections ==
    {<<File("PanGPS", 0, n), File("PanGPS", 1, o)>> : n \in Texts(NewLines, 3), o \in Texts(OldLines, 1)}
        \cup {<<File("event", 0, <<Scores(<<Score("b", 1, 9, 30)>>)>>), File("other", 0, <<BestIs("b")>>),
                File("PanGPS", 2, <<SentTo("Q"), NewList>> \o o), File("PanGPS", 0, n)>> :
                n \in Texts(NewLines, 2), o \in Texts(OldLines, 3)}
MCNames == {"P", "Q", "a", "b", "A"}

----------------------------------------------------------------------------
(* Logs of logins to portals.                                              *)

Told(says) == [says |-> says, addr |-> "", field |-> "", value |-> "", n |-> 0]
FactOf(f, v) == [Told("fact") EXCEPT !.field = f, !.value = v]
Cookie(p) == [Told("cookie") EXCEPT !.addr = p, !.value = "u"]
LoggedIn(p) == [Told("completed") EXCEPT !.addr = p]
About(says, g, v) == [Told(says) EXCEPT !.addr = g, !.value = v]
Counted(says, n) == [Told(says) EXCEPT !.n = n]
LoginAgain == Told("prelogin")
Discovers == Counted("discover", 2)

\* Lines of logins, of what came of them, and of rounds of gateways within them.
LoginLines ==
    {LoginAgain, FactOf("region", "IN"), FactOf("region", "US"), FactOf("auth", "SAML"),
     FactOf("auth", "credentials"), Cookie("P"), LoggedIn("Q")}
OutcomeLines ==
    {LoginAgain, FactOf("tenant", "t"), Cookie("P"), LoggedIn("Q"), Told("tunnel"), Told("hip"),
     About("reply", "", "r"), About("user", "", "v")}
ScoredLines ==
    {LoginAgain, Cookie("P"), LoggedIn("Q"), Discovers, About("priority", "g", ""),
     About("description", "h", "H"), Counted("region mismatch", 1), About("chosen", "", "H")}
ListedLines ==
    {Discovers, [About("one", "g", "") EXCEPT !.n = 1], About("manual only", "g", ""),
     About("address", "g", "G"), About("weight", "h", "G"), About("chosen", "", "G"), LoggedIn("Q"),
     Counted("region mismatch", 0)}

FeedOf(start, more) == [start |-> start, lines |-> more]
NoFeed == FeedOf(<<>>, {})
NoFeeds == {NoFeed}
MCFeeds ==
    {NoFeed, FeedOf(<<>>, LoginLines), FeedOf(<<Cookie("P"), LoginAgain>>, OutcomeLines),
     FeedOf(<<>>, ScoredLines),
     FeedOf(<<Cookie("P"), Discovers, About("priority", "g", "")>>, ScoredLines),
     FeedOf(<<Cookie("P"), Discovers>>, ListedLines)}

----------------------------------------------------------------------------
(* One machine runs while the others have nothing to read.                 *)

NoTimeline == trace = <<>> /\ i = 0 /\ ~done
NoView == log = <<>> /\ from = NoTime /\ to = NoTime /\ read = 0
NoCollection == lines = <<>> /\ seen = 0 /\ selection = <<>>
NoLogins == feed = NoFeed /\ fed = <<>>

NoTimelineInit == trace = <<>> /\ Init
NoViewInit == log = <<>> /\ from = NoTime /\ to = NoTime /\ ViewInit
NoCollectionInit == lines = <<>> /\ GatewayInit
NoLoginsInit == feed = NoFeed /\ FoldInit

MCInit ==
    \/ NoViewInit /\ NoCollectionInit /\ NoLoginsInit /\ Init
    \/ NoTimelineInit /\ NoCollectionInit /\ NoLoginsInit /\ ViewInit
    \/ NoTimelineInit /\ NoViewInit /\ NoLoginsInit /\ GatewayInit
    \/ NoTimelineInit /\ NoViewInit /\ NoCollectionInit /\ FoldInit
MCNext ==
    \/ /\ NoView /\ NoCollection /\ NoLogins
       /\ Next /\ UNCHANGED <<viewVars, gatewayVars, foldVars>>
    \/ /\ NoTimeline /\ NoCollection /\ NoLogins
       /\ ViewNext /\ UNCHANGED <<vars, gatewayVars, foldVars>>
    \/ /\ NoTimeline /\ NoView /\ NoLogins
       /\ GatewayNext /\ UNCHANGED <<vars, viewVars, foldVars>>
    \/ /\ NoTimeline /\ NoView /\ NoCollection
       /\ FoldNext /\ UNCHANGED <<vars, viewVars, gatewayVars>>
MCSpec == MCInit /\ [][MCNext]_<<vars, viewVars, gatewayVars, foldVars>>

=============================================================================
