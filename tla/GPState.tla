------------------------------ MODULE GPState ------------------------------
(***************************************************************************)
(* The GlobalProtect connection timeline (backend/internal/parser/         *)
(* gpstate.go): attemptsFromState walks the lines of PanGPS.log, oldest    *)
(* rotation first, and cuts them into connection attempts.                 *)
(*                                                                         *)
(* A step reads one line.  A line is what the regular expressions make of  *)
(* it: a stage boundary, a state transition, or any other event, which may *)
(* report a HIP check or a reason of failure and the stage it blames.      *)
(* Times are line numbers.  The states, notes and texts an attempt carries *)
(* for display are left out.                                               *)
(***************************************************************************)
EXTENDS Integers, Sequences

CONSTANTS
    Traces,          \* the logs
    TeardownWithin,  \* lines after "Portal Processing" in which a teardown counts
    NoAttempt        \* cur = nil

\* GPStateOrder.
GPStateOrder ==
    <<"portal pre-login", "portal auth", "portal config", "network discovery",
      "gateway select", "gateway auth", "tunnel", "HIP", "disconnected">>

Prelogin == "portal pre-login"
PortalConfig == "portal config"
Tunnel == "tunnel"
HIP == "HIP"
Disconnected == "disconnected"

\* The stages a "----X starts----" line or a TSLog line can name, "" for others.
Boundaries == {Prelogin, "portal auth", PortalConfig, "network discovery",
               "gateway select", "gateway auth", Tunnel}
StageNames == Boundaries \cup {HIP, Disconnected, ""}

\* The ranks of a reason: TSLog, portal status, a symptom, and no reason.
ReasonTSLog == 0
ReasonNone == 3

Line == [kind : {"stage", "state", "event"},
         stage : Boundaries \cup {""},    \* the boundary, or the stage an event blames
         state : {"retrieving", "connected", "dropped", "other"},
         hip : BOOLEAN,                   \* "HIP report submitted"
         rank : ReasonTSLog..ReasonNone,  \* of the reason the event gives
         teardown : BOOLEAN]              \* stTeardownRe matches

\* stateFailureReason: the ranks of reasons, and the stages they can blame.
StateFailureReason ==
    ({ReasonTSLog} \X (Boundaries \cup {""}))
        \cup {<<1, "portal auth">>, <<2, "">>, <<ReasonNone, "">>}

StageResult == [stage : StageNames, status : {"reached", "ok", "failed"}, at : Nat]

Attempt == [start : Nat, end : Nat, trigger : {"portal", "reconnect"},
            stages : Seq(StageResult),
            reason : Nat,                 \* the line that gave the reason, or 0
            failStage : StageNames, reached : StageNames, stopAt : StageNames,
            outcome : {"", "connected", "failed", "incomplete"}]

ASSUME GPStateAssumption ==
    /\ Traces \subseteq Seq(Line)
    /\ \A t \in Traces : \A k \in DOMAIN t :
          t[k].kind = "event" => <<t[k].rank, t[k].stage>> \in StateFailureReason
    /\ TeardownWithin \in Nat
    /\ NoAttempt \notin Attempt

VARIABLES
    trace, i,        \* the lines, and how many have been read
    cur,             \* the attempt that is open
    seenStage,       \* its stages
    connected, lastState, reasonRank,
    out,             \* the attempts closed so far
    done

vars == <<trace, i, cur, seenStage, connected, lastState, reasonRank, out, done>>

----------------------------------------------------------------------------
(* finishStateAttempt.                                                     *)

StageResultOf(st, status, at) == [stage |-> st, status |-> status, at |-> at]

Position(st) == CHOOSE k \in DOMAIN GPStateOrder : GPStateOrder[k] = st

\* The furthest stage of an attempt, in GPStateOrder.
Touched(a) == {p \in DOMAIN GPStateOrder :
                  \E k \in DOMAIN a.stages : a.stages[k].stage = GPStateOrder[p]}
Furthest(a) ==
    IF Touched(a) = {} THEN ""
    ELSE GPStateOrder[CHOOSE p \in Touched(a) : \A q \in Touched(a) : q <= p]

\* Every stage before the furthest one is "ok".
Passed(a) ==
    [k \in DOMAIN a.stages |->
        IF /\ a.stages[k].status = "reached"
           /\ Position(a.stages[k].stage) < Position(Furthest(a))
        THEN [a.stages[k] EXCEPT !.status = "ok"] ELSE a.stages[k]]

\* Mistake: the stage that is blamed turns red though it had been passed.
StoppedEvenIfPassed(stages, st) ==
    [k \in DOMAIN stages |->
        IF stages[k].stage = st THEN [stages[k] EXCEPT !.status = "failed"] ELSE stages[k]]

\* The stage an attempt stopped at turns red unless it had been passed.
Stopped(stages, st) ==
    [k \in DOMAIN stages |->
        IF stages[k].stage = st /\ stages[k].status # "ok"
        THEN [stages[k] EXCEPT !.status = "failed"] ELSE stages[k]]

Outcome(a, dropped) ==
    IF connected THEN "connected"
    ELSE IF dropped \/ a.reason # 0 THEN "failed" ELSE "incomplete"

\* The stage PAN-OS blamed, or the furthest one.
StopAt(a) == IF a.failStage # "" THEN a.failStage ELSE Furthest(a)

\* The terminal stage that follows a drop or a failure.
WithTerminal(a, end, dropped) ==
    IF dropped \/ Outcome(a, dropped) = "failed"
    THEN Append(Passed(a), StageResultOf(Disconnected, "failed", end))
    ELSE Passed(a)

\* finishStateAttempt.
Finish(a, end, last) ==
    LET dropped == last = "dropped"
        outcome == Outcome(a, dropped)
    IN  [a EXCEPT !.end = end, !.reached = Furthest(a), !.outcome = outcome,
                  !.stopAt = IF outcome = "failed" THEN StopAt(a)
                             ELSE IF outcome = "incomplete" THEN Furthest(a) ELSE @,
                  !.stages = IF outcome = "failed"
                             THEN Stopped(WithTerminal(a, end, dropped), StopAt(a))
                             ELSE WithTerminal(a, end, dropped)]

----------------------------------------------------------------------------
(* attemptsFromState.                                                      *)

Init ==
    /\ trace \in Traces /\ i = 0
    /\ cur = NoAttempt /\ seenStage = {} /\ connected = FALSE
    /\ lastState = "" /\ reasonRank = ReasonNone
    /\ out = <<>> /\ done = FALSE

NewAttempt(start, trigger) ==
    [start |-> start, end |-> 0, trigger |-> trigger, stages |-> <<>>, reason |-> 0,
     failStage |-> "", reached |-> "", stopAt |-> "", outcome |-> ""]

Reading(kind) == ~done /\ i < Len(trace) /\ trace[i + 1].kind = kind

ReadLine == i' = i + 1 /\ UNCHANGED <<trace, done>>

\* closeAttempt, called by open: it does nothing, and resets nothing, when no
\* attempt is open.
Closing(opens, last) ==
    IF opens /\ cur # NoAttempt THEN Append(out, Finish(cur, i + 1, last)) ELSE out

\* Mistake: open starts an attempt without resetting the locals of the last.
KeptStale(opens, value, initial) == value

Kept(opens, value, initial) == IF opens /\ cur # NoAttempt THEN initial ELSE value

AddStage(a, st, status) ==
    [a EXCEPT !.stages = Append(@, StageResultOf(st, status, i + 1))]

\* teardownFollows: is a shutdown burst within the next lines?
TeardownFollows(k) ==
    \E x \in k+1..k+TeardownWithin : x <= Len(trace) /\ trace[x].teardown

\* The agent shutting a session: the line changes nothing.
IgnoreTeardown ==
    /\ Reading("stage")
    /\ trace[i + 1].stage = PortalConfig /\ TeardownFollows(i + 1)
    /\ ReadLine
    /\ UNCHANGED <<cur, seenStage, connected, lastState, reasonRank, out>>

\* Mistake: only a line outside any attempt opens one.
StageLineFirstOnly ==
    LET st  == trace[i + 1].stage
        now == IF cur = NoAttempt THEN NewAttempt(i + 1, "portal") ELSE cur
        new == st # "" /\ st \notin seenStage
    IN
    /\ Reading("stage")
    /\ ~(st = PortalConfig /\ TeardownFollows(i + 1))
    /\ ReadLine
    /\ cur' = IF new THEN AddStage(now, st, "reached") ELSE now
    /\ seenStage' = IF new THEN seenStage \cup {st} ELSE seenStage
    /\ UNCHANGED <<connected, lastState, reasonRank, out>>

\* A stage boundary.  A second pre-login opens an attempt of its own.
StageLine ==
    LET st    == trace[i + 1].stage
        opens == cur = NoAttempt \/ (st = Prelogin /\ Prelogin \in seenStage)
        now   == IF opens THEN NewAttempt(i + 1, "portal") ELSE cur
        had   == Kept(opens, seenStage, {})
        new   == st # "" /\ st \notin had
    IN
    /\ Reading("stage")
    /\ ~(st = PortalConfig /\ TeardownFollows(i + 1))
    /\ ReadLine
    /\ cur' = IF new THEN AddStage(now, st, "reached") ELSE now
    /\ seenStage' = IF new THEN had \cup {st} ELSE had
    /\ connected' = Kept(opens, connected, FALSE)
    /\ lastState' = Kept(opens, lastState, "")
    /\ reasonRank' = Kept(opens, reasonRank, ReasonNone)
    /\ out' = Closing(opens, lastState)

ReadingState(state) == Reading("state") /\ trace[i + 1].state = state

\* "Retrieving configuration" opens an attempt unless one is still before its
\* pre-login.  lastState is set before the attempt it ends is closed.
Retrieving ==
    LET opens == cur = NoAttempt \/ Prelogin \in seenStage
    IN
    /\ ReadingState("retrieving")
    /\ ReadLine
    /\ cur' = IF opens THEN NewAttempt(i + 1, "portal") ELSE cur
    /\ seenStage' = Kept(opens, seenStage, {})
    /\ connected' = Kept(opens, connected, FALSE)
    /\ lastState' = Kept(opens, "retrieving", "")
    /\ reasonRank' = Kept(opens, reasonRank, ReasonNone)
    /\ out' = Closing(opens, "retrieving")

\* "Connected" opens an attempt if none is open, and lights the tunnel stage.
Connects ==
    LET now == IF cur = NoAttempt THEN NewAttempt(i + 1, "reconnect") ELSE cur
    IN
    /\ ReadingState("connected")
    /\ ReadLine
    /\ connected' = TRUE /\ lastState' = "connected"
    /\ cur' = IF Tunnel \in seenStage THEN now ELSE AddStage(now, Tunnel, "ok")
    /\ seenStage' = seenStage \cup {Tunnel}
    /\ UNCHANGED <<reasonRank, out>>

OtherState ==
    /\ Reading("state") /\ trace[i + 1].state \notin {"retrieving", "connected"}
    /\ ReadLine
    /\ lastState' = trace[i + 1].state
    /\ UNCHANGED <<cur, seenStage, connected, reasonRank, out>>

\* Before the first attempt, other lines are skipped.
SkipEvent ==
    /\ Reading("event") /\ cur = NoAttempt
    /\ ReadLine
    /\ UNCHANGED <<cur, seenStage, connected, lastState, reasonRank, out>>

\* Mistake: the first reason wins.
WithReasonFirst(a, l) ==
    IF l.rank < ReasonNone /\ a.reason = 0
    THEN [a EXCEPT !.reason = i + 1, !.failStage = IF l.stage # "" THEN l.stage ELSE @]
    ELSE a

\* The best reason wins, and the stage it blames if it blames one.
WithReason(a, l) ==
    IF l.rank < reasonRank
    THEN [a EXCEPT !.reason = i + 1, !.failStage = IF l.stage # "" THEN l.stage ELSE @]
    ELSE a

Event ==
    LET l == trace[i + 1]
        reportsHip == l.hip /\ HIP \notin seenStage
    IN
    /\ Reading("event") /\ cur # NoAttempt
    /\ ReadLine
    /\ cur' = WithReason(IF reportsHip THEN AddStage(cur, HIP, "ok") ELSE cur, l)
    /\ seenStage' = IF reportsHip THEN seenStage \cup {HIP} ELSE seenStage
    /\ reasonRank' = IF l.rank < reasonRank THEN l.rank ELSE reasonRank
    /\ UNCHANGED <<connected, lastState, out>>

\* The end of the log closes the last attempt, dated to its own start.
EndOfLog ==
    /\ ~done /\ i = Len(trace)
    /\ done' = TRUE
    /\ out' = IF cur # NoAttempt THEN Append(out, Finish(cur, cur.start, lastState)) ELSE out
    /\ cur' = NoAttempt
    /\ seenStage' = Kept(TRUE, seenStage, {})
    /\ connected' = Kept(TRUE, connected, FALSE)
    /\ lastState' = Kept(TRUE, lastState, "")
    /\ reasonRank' = Kept(TRUE, reasonRank, ReasonNone)
    /\ UNCHANGED <<trace, i>>

Next == \/ IgnoreTeardown \/ StageLine \/ Retrieving \/ Connects \/ OtherState
        \/ SkipEvent \/ Event \/ EndOfLog

Spec == Init /\ [][Next]_vars

----------------------------------------------------------------------------
(* Properties.                                                             *)

\* Type invariant.
TypeOK ==
    /\ trace \in Traces
    /\ i \in 0..Len(trace)
    /\ cur \in Attempt \cup {NoAttempt}
    /\ seenStage \subseteq StageNames
    /\ connected \in BOOLEAN
    /\ lastState \in {"", "retrieving", "connected", "dropped", "other"}
    /\ reasonRank \in ReasonTSLog..ReasonNone
    /\ out \in Seq(Attempt)
    /\ done \in BOOLEAN

\* The attempts so far, in order, and the lines that belong to each.
Attempts == IF cur = NoAttempt THEN out ELSE Append(out, cur)
Span(a) == Attempts[a].start ..
              (IF a < Len(Attempts) THEN Attempts[a + 1].start - 1 ELSE i)

\* The pre-logins attempt a has in its stages.
Prelogins(a) == {a.stages[s].at : s \in {x \in DOMAIN a.stages : a.stages[x].stage = Prelogin}}

PreloginLine(k) == trace[k].kind = "stage" /\ trace[k].stage = Prelogin

\* "That makes it structurally impossible for a pre-login to go unreported":
\* every pre-login line read is the pre-login of one attempt, which has no
\* other.
PreloginsReported ==
    \A k \in 1..i : PreloginLine(k) =>
        \E a \in DOMAIN Attempts : Prelogins(Attempts[a]) = {k}

\* An attempt is connected exactly when one of its own lines says so: nothing
\* leaks from the attempt before it, and an attempt that a "Connected" line
\* opens is not forgotten.
OutcomeIsOwn ==
    \A a \in DOMAIN out :
        out[a].outcome = "connected"
            <=> \E k \in Span(a) : trace[k].kind = "state" /\ trace[k].state = "connected"

\* "Best reason wins, not the first": of the reasons among an attempt's own
\* lines it keeps the earliest of the best rank.
BestReasonWins ==
    \A a \in DOMAIN Attempts :
        LET reasons == {k \in Span(a) : trace[k].kind = "event" /\ trace[k].rank < ReasonNone}
            best == {k \in reasons : \A x \in reasons :
                        \/ trace[k].rank < trace[x].rank
                        \/ trace[k].rank = trace[x].rank /\ k <= x}
        IN  IF reasons = {} THEN Attempts[a].reason = 0 ELSE best = {Attempts[a].reason}

\* "A cycle that connected and then dropped reads as one row with a red tail":
\* when the last state of a connected attempt's own lines is a drop, it has
\* the terminal stage.
DropIsMarked ==
    \A a \in DOMAIN out :
        (out[a].outcome = "connected" /\ \E k \in Span(a) :
            /\ trace[k].kind = "state" /\ trace[k].state = "dropped"
            /\ \A x \in Span(a) : x > k => trace[x].kind # "state")
        => \E s \in DOMAIN out[a].stages : out[a].stages[s].stage = Disconnected

=============================================================================
