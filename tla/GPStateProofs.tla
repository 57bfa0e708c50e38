--------------------------- MODULE GPStateProofs ---------------------------
(***************************************************************************)
(* Proofs about GPState and GPFlow, for every log: every pre-login is      *)
(* reported by an attempt of its own, and what an attempt says of its      *)
(* outcome, its reason and its logins comes from its own lines.            *)
(***************************************************************************)
EXTENDS GPFlow, SelectionProofs

\* The lines at which a list of stages has a pre-login.
PreloginsOf(stages) ==
    {stages[s].at : s \in {x \in DOMAIN stages : stages[x].stage = Prelogin}}

\* Two lists of the same stages at the same lines, whatever their status.
SameStages(s, t) ==
    /\ DOMAIN s = DOMAIN t
    /\ \A k \in DOMAIN s : s[k].stage = t[k].stage /\ s[k].at = t[k].at

LEMMA SameStagesSamePrelogins ==
  ASSUME NEW s, NEW t, SameStages(s, t)
  PROVE  PreloginsOf(s) = PreloginsOf(t)
  BY DEF SameStages, PreloginsOf

\* Appending a stage adds its line if it is a pre-login.
LEMMA AppendedStage ==
  ASSUME NEW s \in Seq(StageResult), NEW x \in StageResult
  PROVE  /\ Append(s, x) \in Seq(StageResult)
         /\ x.stage # Prelogin => PreloginsOf(Append(s, x)) = PreloginsOf(s)
         /\ x.stage = Prelogin => PreloginsOf(Append(s, x)) = PreloginsOf(s) \cup {x.at}
<1>1. /\ Append(s, x) \in Seq(StageResult)
      /\ DOMAIN Append(s, x) = DOMAIN s \cup {Len(s) + 1}
      /\ \A k \in DOMAIN s : Append(s, x)[k] = s[k]
      /\ Append(s, x)[Len(s) + 1] = x
  OBVIOUS
<1> QED  BY <1>1, Zenon DEF PreloginsOf

LEMMA LineFields ==
  ASSUME TypeOK, i < Len(trace)
  PROVE  /\ trace[i + 1].stage \in Boundaries \cup {""}
         /\ trace[i + 1].state \in {"retrieving", "connected", "dropped", "other"}
         /\ trace[i + 1].rank \in ReasonTSLog..ReasonNone
         /\ trace[i + 1].hip \in BOOLEAN
         /\ i \in Nat /\ i + 1 \in Nat /\ i + 1 \in 0..Len(trace)
<1>1. trace \in Seq(Line)  BY GPStateAssumption DEF TypeOK
<1>2. i \in 0..Len(trace) /\ Len(trace) \in Nat
  <2>1. i \in 0..Len(trace)  BY DEF TypeOK
  <2> QED  BY <1>1, <2>1
<1>3. i \in Nat /\ i + 1 \in Nat /\ i + 1 \in 1..Len(trace)  BY <1>2
<1>4. trace[i + 1] \in Line  BY <1>1, <1>3
<1>5. \A l \in Line : /\ l.stage \in Boundaries \cup {""}
                      /\ l.state \in {"retrieving", "connected", "dropped", "other"}
                      /\ l.rank \in ReasonTSLog..ReasonNone
                      /\ l.hip \in BOOLEAN
  BY DEF Line
<1>6. i + 1 \in 0..Len(trace)  BY <1>2, <1>3
<1> QED  BY <1>3, <1>4, <1>5, <1>6

----------------------------------------------------------------------------
(* What the walk does to an attempt.                                       *)

LEMMA NewAttemptFacts ==
  ASSUME NEW k \in Nat, NEW t \in {"portal", "reconnect"}
  PROVE  /\ NewAttempt(k, t) \in Attempt /\ NewAttempt(k, t) # NoAttempt
         /\ Prelogins(NewAttempt(k, t)) = {}
<1>1. NewAttempt(k, t) \in Attempt
  BY DEF NewAttempt, Attempt, StageNames
<1>2. Prelogins(NewAttempt(k, t)) = {}
  BY DEF NewAttempt, Prelogins
<1> QED  BY <1>1, <1>2, GPStateAssumption

LEMMA StagesField ==
  ASSUME NEW a \in Attempt
  PROVE  /\ a.stages \in Seq(StageResult) /\ Prelogins(a) = PreloginsOf(a.stages)
         /\ a # NoAttempt
  BY GPStateAssumption DEF Attempt, Prelogins, PreloginsOf

LEMMA AddStageFacts ==
  ASSUME NEW a \in Attempt, NEW st \in StageNames, NEW status \in {"reached", "ok"},
         i + 1 \in Nat
  PROVE  /\ AddStage(a, st, status) \in Attempt
         /\ st # Prelogin => Prelogins(AddStage(a, st, status)) = Prelogins(a)
         /\ st = Prelogin => Prelogins(AddStage(a, st, status)) = Prelogins(a) \cup {i + 1}
<1> DEFINE x == StageResultOf(st, status, i + 1)
           b == AddStage(a, st, status)
<1>1. x \in StageResult /\ x.stage = st /\ x.at = i + 1
  BY DEF StageResultOf, StageResult
<1>2. Append(a.stages, x) \in Seq(StageResult)
  BY <1>1, StagesField, AppendedStage
<1>3. b \in Attempt /\ b.stages = Append(a.stages, x)
  BY <1>2 DEF AddStage, Attempt
<1> HIDE DEF x, b
<1>4. Prelogins(b) = PreloginsOf(Append(a.stages, x)) /\ Prelogins(a) = PreloginsOf(a.stages)
  BY <1>3, StagesField
<1>5. /\ st # Prelogin => Prelogins(b) = Prelogins(a)
      /\ st = Prelogin => Prelogins(b) = Prelogins(a) \cup {i + 1}
  BY <1>1, <1>4, StagesField, AppendedStage
<1> QED  BY <1>3, <1>5 DEF b

LEMMA WithReasonFacts ==
  ASSUME NEW a \in Attempt, i + 1 \in Nat, NEW l, l.stage \in Boundaries \cup {""}
  PROVE  WithReason(a, l) \in Attempt /\ Prelogins(WithReason(a, l)) = Prelogins(a)
<1>1. l.stage \in StageNames  BY DEF StageNames
<1>2. WithReason(a, l) \in Attempt  BY <1>1 DEF WithReason, Attempt
<1>3. WithReason(a, l).stages = a.stages  BY DEF WithReason, Attempt
<1> QED  BY <1>2, <1>3, StagesField

----------------------------------------------------------------------------
(* finishStateAttempt keeps the stages and their lines.                    *)

LEMMA FurthestIsAStage ==
  ASSUME NEW a \in Attempt
  PROVE  Furthest(a) \in StageNames
<1> DEFINE T == Touched(a)
<1>0. DOMAIN GPStateOrder = 1..9  BY DEF GPStateOrder
<1>1. T \in SUBSET (1..9)  BY <1>0 DEF Touched
<1>2. ASSUME T # {} PROVE \E p \in T : \A q \in T : q <= p
  <2> HIDE DEF T
  <2>1. CASE 9 \in T  BY <2>1, <1>1
  <2>2. CASE 9 \notin T /\ 8 \in T  BY <2>2, <1>1
  <2>3. CASE 9 \notin T /\ 8 \notin T /\ 7 \in T  BY <2>3, <1>1
  <2>4. CASE T \subseteq 1..6 /\ 6 \in T  BY <2>4
  <2>5. CASE T \subseteq 1..5 /\ 5 \in T  BY <2>5
  <2>6. CASE T \subseteq 1..4 /\ 4 \in T  BY <2>6
  <2>7. CASE T \subseteq 1..3 /\ 3 \in T  BY <2>7
  <2>8. CASE T \subseteq 1..2 /\ 2 \in T  BY <2>8
  <2>9. CASE T \subseteq {1}
    <3>1. T = {1}  BY <2>9, <1>2, Zenon
    <3> QED  BY <3>1
  <2> QED  BY <1>1, <2>1, <2>2, <2>3, <2>4, <2>5, <2>6, <2>7, <2>8, <2>9
<1>3. ASSUME T # {}
      PROVE  (CHOOSE p \in T : \A q \in T : q <= p) \in 1..9
  BY <1>1, <1>2, <1>3
<1>4. ASSUME NEW p \in 1..9 PROVE GPStateOrder[p] \in StageNames
  <2>1. /\ GPStateOrder[1] = Prelogin /\ GPStateOrder[2] = "portal auth"
        /\ GPStateOrder[3] = PortalConfig /\ GPStateOrder[4] = "network discovery"
        /\ GPStateOrder[5] = "gateway select" /\ GPStateOrder[6] = "gateway auth"
        /\ GPStateOrder[7] = Tunnel /\ GPStateOrder[8] = HIP
        /\ GPStateOrder[9] = Disconnected
    BY DEF GPStateOrder, Prelogin, PortalConfig, Tunnel, HIP, Disconnected
  <2>2. p \in {1, 2, 3, 4, 5, 6, 7, 8, 9}  OBVIOUS
  <2> QED  BY <2>1, <2>2 DEF StageNames, Boundaries
<1> QED  BY <1>3, <1>4 DEF Furthest, StageNames

LEMMA PassedFacts ==
  ASSUME NEW a \in Attempt
  PROVE  Passed(a) \in Seq(StageResult) /\ PreloginsOf(Passed(a)) = Prelogins(a)
<1>1. a.stages \in Seq(StageResult)  BY StagesField
<1>2. Passed(a) \in Seq(StageResult)
  <2>1. /\ DOMAIN a.stages = 1..Len(a.stages) /\ Len(a.stages) \in Nat
        /\ \A k \in DOMAIN a.stages : a.stages[k] \in StageResult
    BY <1>1
  <2>2. \A x \in StageResult : [x EXCEPT !.status = "ok"] \in StageResult
    BY DEF StageResult
  <2>3. \A k \in DOMAIN a.stages : Passed(a)[k] \in StageResult
    BY <2>1, <2>2 DEF Passed
  <2>4. Passed(a) = [k \in 1..Len(a.stages) |-> Passed(a)[k]]
    BY <2>1, Zenon DEF Passed
  <2> QED  BY <2>1, <2>3, <2>4
<1>3. SameStages(Passed(a), a.stages)  BY <1>1 DEF Passed, StageResult, SameStages
<1> QED  BY <1>2, <1>3, SameStagesSamePrelogins, StagesField

LEMMA StoppedFacts ==
  ASSUME NEW s \in Seq(StageResult), NEW st
  PROVE  Stopped(s, st) \in Seq(StageResult) /\ PreloginsOf(Stopped(s, st)) = PreloginsOf(s)
<1>1. Stopped(s, st) \in Seq(StageResult)
  <2>1. \A x \in StageResult : [x EXCEPT !.status = "failed"] \in StageResult
    BY DEF StageResult
  <2>2. \A k \in DOMAIN s : Stopped(s, st)[k] \in StageResult
    BY <2>1 DEF Stopped
  <2> QED  BY <2>2 DEF Stopped
<1>2. SameStages(Stopped(s, st), s)  BY DEF Stopped, StageResult, SameStages
<1> QED  BY <1>1, <1>2, SameStagesSamePrelogins

LEMMA WithTerminalFacts ==
  ASSUME NEW a \in Attempt, NEW end \in Nat, NEW dropped \in BOOLEAN
  PROVE  /\ WithTerminal(a, end, dropped) \in Seq(StageResult)
         /\ PreloginsOf(WithTerminal(a, end, dropped)) = Prelogins(a)
<1> DEFINE x == StageResultOf(Disconnected, "failed", end)
<1>1. x \in StageResult /\ x.stage # Prelogin
  BY DEF StageResultOf, StageResult, StageNames, Disconnected, Prelogin
<1> HIDE DEF x
<1>2. /\ Append(Passed(a), x) \in Seq(StageResult)
      /\ PreloginsOf(Append(Passed(a), x)) = PreloginsOf(Passed(a))
  BY <1>1, PassedFacts, AppendedStage
<1> QED  BY <1>2, PassedFacts DEF WithTerminal, x

LEMMA FinishFacts ==
  ASSUME NEW a \in Attempt, NEW end \in Nat, NEW last
  PROVE  Finish(a, end, last) \in Attempt /\ Prelogins(Finish(a, end, last)) = Prelogins(a)
<1> DEFINE dropped == last = "dropped"
           outcome == Outcome(a, dropped)
           stop    == IF outcome = "failed" THEN StopAt(a)
                      ELSE IF outcome = "incomplete" THEN Furthest(a) ELSE a.stopAt
           stages  == IF outcome = "failed"
                      THEN Stopped(WithTerminal(a, end, dropped), StopAt(a))
                      ELSE WithTerminal(a, end, dropped)
<1>1. outcome \in {"connected", "failed", "incomplete"}  BY DEF Outcome
<1>2. StopAt(a) \in StageNames /\ stop \in StageNames /\ Furthest(a) \in StageNames
  BY FurthestIsAStage DEF StopAt, Attempt
<1>3. stages \in Seq(StageResult) /\ PreloginsOf(stages) = Prelogins(a)
  <2>1. /\ WithTerminal(a, end, dropped) \in Seq(StageResult)
        /\ PreloginsOf(WithTerminal(a, end, dropped)) = Prelogins(a)
    BY WithTerminalFacts
  <2> QED  BY <2>1, StoppedFacts
<1>4. Finish(a, end, last) = [a EXCEPT !.end = end, !.reached = Furthest(a), !.outcome = outcome,
                                       !.stopAt = stop, !.stages = stages]
  BY DEF Finish, Attempt
<1> HIDE DEF outcome, stop, stages
<1>5. Finish(a, end, last) \in Attempt /\ Finish(a, end, last).stages = stages
  BY <1>1, <1>2, <1>3, <1>4 DEF Attempt
<1> QED  BY <1>3, <1>5, StagesField

----------------------------------------------------------------------------
(* Type correctness.                                                       *)

LEMMA ReadLineFacts ==
  ASSUME TypeOK, NEW kind, Reading(kind), ReadLine
  PROVE  /\ trace' \in Traces /\ i' \in 0..Len(trace') /\ done' \in BOOLEAN
         /\ trace' = trace /\ i' = i + 1
         /\ trace[i + 1].stage \in Boundaries \cup {""}
         /\ trace[i + 1].stage \in StageNames
         /\ trace[i + 1].state \in {"retrieving", "connected", "dropped", "other"}
         /\ trace[i + 1].rank \in ReasonTSLog..ReasonNone
         /\ trace[i + 1].hip \in BOOLEAN
         /\ i \in Nat /\ i + 1 \in Nat
<1>1. i < Len(trace)  BY DEF Reading
<1>2. /\ trace[i + 1].stage \in Boundaries \cup {""}
      /\ trace[i + 1].state \in {"retrieving", "connected", "dropped", "other"}
      /\ trace[i + 1].rank \in ReasonTSLog..ReasonNone
      /\ trace[i + 1].hip \in BOOLEAN
      /\ i \in Nat /\ i + 1 \in Nat /\ i + 1 \in 0..Len(trace)
  BY <1>1, LineFields
<1>3. trace' = trace /\ i' = i + 1 /\ done' = done  BY DEF ReadLine
<1>4. trace \in Traces /\ done \in BOOLEAN  BY DEF TypeOK
<1>5. trace[i + 1].stage \in StageNames  BY <1>2 DEF StageNames
<1> QED  BY <1>2, <1>3, <1>4, <1>5

\* What TypeOK says of the variables a step may change.
LEMMA LocalTypes ==
  ASSUME TypeOK
  PROVE  /\ cur = NoAttempt \/ cur \in Attempt
         /\ seenStage \subseteq StageNames /\ connected \in BOOLEAN
         /\ lastState \in {"", "retrieving", "connected", "dropped", "other"}
         /\ reasonRank \in ReasonTSLog..ReasonNone /\ ReasonNone \in ReasonTSLog..ReasonNone
         /\ out \in Seq(Attempt)
<1>1. ReasonNone \in ReasonTSLog..ReasonNone  BY DEF ReasonTSLog, ReasonNone
<1>2. cur \in Attempt \cup {NoAttempt}  BY DEF TypeOK
<1> QED  BY <1>1, <1>2 DEF TypeOK

\* Appending an attempt.
LEMMA AppendAttempt ==
  ASSUME NEW o \in Seq(Attempt), NEW f \in Attempt
  PROVE  /\ Append(o, f) \in Seq(Attempt)
         /\ DOMAIN Append(o, f) = DOMAIN o \cup {Len(o) + 1}
         /\ \A a \in DOMAIN o : Append(o, f)[a] = o[a]
         /\ Append(o, f)[Len(o) + 1] = f
  OBVIOUS

LEMMA ClosingFacts ==
  ASSUME TypeOK, i + 1 \in Nat, NEW opens \in BOOLEAN, NEW last
  PROVE  /\ Closing(opens, last) \in Seq(Attempt)
         /\ ~opens \/ cur = NoAttempt => Closing(opens, last) = out
         /\ opens /\ cur # NoAttempt =>
               \E f \in Attempt : /\ Closing(opens, last) = Append(out, f)
                                  /\ Prelogins(f) = Prelogins(cur)
<1>1. CASE ~opens \/ cur = NoAttempt
  BY <1>1, LocalTypes DEF Closing
<1>2. CASE opens /\ cur # NoAttempt
  <2> DEFINE f == Finish(cur, i + 1, last)
  <2>1. f \in Attempt /\ Prelogins(f) = Prelogins(cur)
    BY <1>2, LocalTypes, FinishFacts
  <2>2. Closing(opens, last) = Append(out, f)
    BY <1>2 DEF Closing
  <2> HIDE DEF f
  <2>3. Append(out, f) \in Seq(Attempt)  BY <2>1, LocalTypes, AppendAttempt
  <2> QED  BY <1>2, <2>1, <2>2, <2>3
<1> QED  BY <1>1, <1>2

LEMMA TypeInit == Init => TypeOK
<1> SUFFICES ASSUME Init PROVE TypeOK
  OBVIOUS
<1>1. trace \in Seq(Line)  BY GPStateAssumption DEF Init
<1>2. i = 0  BY DEF Init
<1>3. i \in 0..Len(trace)  BY <1>1, <1>2
<1>4. out = <<>>  BY DEF Init
<1>5. out \in Seq(Attempt)  BY <1>4
<1>6. ReasonNone \in ReasonTSLog..ReasonNone  BY DEF ReasonTSLog, ReasonNone
<1> QED  BY <1>3, <1>5, <1>6 DEF Init, TypeOK

LEMMA TypeNext == TypeOK /\ [Next]_vars => TypeOK'
<1> SUFFICES ASSUME TypeOK, [Next]_vars PROVE TypeOK'
  OBVIOUS
<1>1. CASE IgnoreTeardown
  BY <1>1, ReadLineFacts, LocalTypes DEF IgnoreTeardown, TypeOK
<1>2. CASE StageLine
  <2> DEFINE st    == trace[i + 1].stage
             opens == cur = NoAttempt \/ (st = Prelogin /\ Prelogin \in seenStage)
             now   == IF opens THEN NewAttempt(i + 1, "portal") ELSE cur
             had   == Kept(opens, seenStage, {})
             new   == st # "" /\ st \notin had
  <2>1. /\ trace' \in Traces /\ i' \in 0..Len(trace') /\ done' \in BOOLEAN
        /\ st \in StageNames /\ i + 1 \in Nat
    BY <1>2, ReadLineFacts DEF StageLine
  <2>2. now \in Attempt /\ had \subseteq StageNames /\ opens \in BOOLEAN
    BY <2>1, LocalTypes, NewAttemptFacts DEF Kept
  <2>3. cur' \in Attempt
    <3>1. cur' = IF new THEN AddStage(now, st, "reached") ELSE now
      BY <1>2 DEF StageLine
    <3> HIDE DEF now, new, st
    <3> QED  BY <2>1, <2>2, <3>1, AddStageFacts
  <2>4. seenStage' \subseteq StageNames
    BY <1>2, <2>1, <2>2 DEF StageLine
  <2>5. out' = Closing(opens, lastState)  BY <1>2 DEF StageLine
  <2>6. out' \in Seq(Attempt)
    BY <2>1, <2>2, <2>5, ClosingFacts
  <2>7. /\ connected' \in BOOLEAN
        /\ lastState' \in {"", "retrieving", "connected", "dropped", "other"}
        /\ reasonRank' \in ReasonTSLog..ReasonNone
    BY <1>2, LocalTypes DEF StageLine, Kept
  <2> QED  BY <2>1, <2>3, <2>4, <2>6, <2>7 DEF TypeOK
<1>3. CASE Retrieving
  <2> DEFINE opens == cur = NoAttempt \/ Prelogin \in seenStage
  <2>1. /\ trace' \in Traces /\ i' \in 0..Len(trace') /\ done' \in BOOLEAN
        /\ i + 1 \in Nat
    BY <1>3, ReadLineFacts DEF Retrieving, ReadingState
  <2>2. cur' \in Attempt /\ seenStage' \subseteq StageNames
    BY <1>3, <2>1, LocalTypes, NewAttemptFacts DEF Retrieving, Kept
  <2>3. out' = Closing(opens, "retrieving")  BY <1>3 DEF Retrieving
  <2>4. out' \in Seq(Attempt)  BY <2>1, <2>3, ClosingFacts
  <2>5. /\ connected' \in BOOLEAN
        /\ lastState' \in {"", "retrieving", "connected", "dropped", "other"}
        /\ reasonRank' \in ReasonTSLog..ReasonNone
    BY <1>3, LocalTypes DEF Retrieving, Kept
  <2> QED  BY <2>1, <2>2, <2>4, <2>5 DEF TypeOK
<1>4. CASE Connects
  <2> DEFINE now == IF cur = NoAttempt THEN NewAttempt(i + 1, "reconnect") ELSE cur
  <2>1. /\ trace' \in Traces /\ i' \in 0..Len(trace') /\ done' \in BOOLEAN
        /\ i + 1 \in Nat
    BY <1>4, ReadLineFacts DEF Connects, ReadingState
  <2>2. now \in Attempt  BY <2>1, LocalTypes, NewAttemptFacts
  <2>3. Tunnel \in StageNames  BY DEF StageNames, Boundaries
  <2>4. cur' \in Attempt
    <3>1. cur' = IF Tunnel \in seenStage THEN now ELSE AddStage(now, Tunnel, "ok")
      BY <1>4 DEF Connects
    <3> HIDE DEF now
    <3> QED  BY <2>1, <2>2, <2>3, <3>1, AddStageFacts
  <2> QED  BY <1>4, <2>1, <2>3, <2>4, LocalTypes DEF Connects, TypeOK
<1>5. CASE OtherState
  <2>1. /\ trace' \in Traces /\ i' \in 0..Len(trace') /\ done' \in BOOLEAN
        /\ trace[i + 1].state \in {"retrieving", "connected", "dropped", "other"}
    BY <1>5, ReadLineFacts DEF OtherState
  <2> QED  BY <1>5, <2>1, LocalTypes DEF OtherState, TypeOK
<1>6. CASE SkipEvent
  BY <1>6, ReadLineFacts, LocalTypes DEF SkipEvent, TypeOK
<1>7. CASE Event
  <2> DEFINE l == trace[i + 1]
             a == IF l.hip /\ HIP \notin seenStage THEN AddStage(cur, HIP, "ok") ELSE cur
  <2>1. /\ trace' \in Traces /\ i' \in 0..Len(trace') /\ done' \in BOOLEAN
        /\ l.stage \in Boundaries \cup {""} /\ l.rank \in ReasonTSLog..ReasonNone
        /\ i + 1 \in Nat
    BY <1>7, ReadLineFacts DEF Event
  <2>2. HIP \in StageNames  BY DEF StageNames
  <2>3. cur \in Attempt  BY <1>7, LocalTypes DEF Event
  <2>4. a \in Attempt  BY <2>1, <2>2, <2>3, AddStageFacts
  <2>5. cur' = WithReason(a, l)  BY <1>7 DEF Event
  <2>6. cur' \in Attempt
    <3> HIDE DEF a, l
    <3> QED  BY <2>1, <2>4, <2>5, WithReasonFacts
  <2>7. reasonRank' \in ReasonTSLog..ReasonNone /\ seenStage' \subseteq StageNames
    BY <1>7, <2>1, <2>2, LocalTypes DEF Event
  <2> QED  BY <1>7, <2>1, <2>6, <2>7, LocalTypes DEF Event, TypeOK
<1>8. CASE EndOfLog
  <2>1. out' \in Seq(Attempt)
    <3>1. CASE cur = NoAttempt  BY <1>8, <3>1, LocalTypes DEF EndOfLog
    <3>2. CASE cur # NoAttempt
      <4>1. cur \in Attempt /\ cur.start \in Nat  BY <3>2, LocalTypes DEF Attempt
      <4>2. Finish(cur, cur.start, lastState) \in Attempt  BY <4>1, FinishFacts
      <4>3. out' = Append(out, Finish(cur, cur.start, lastState))
        BY <1>8, <3>2 DEF EndOfLog
      <4> QED  BY <4>2, <4>3, LocalTypes, AppendAttempt
    <3> QED  BY <3>1, <3>2
  <2>2. trace' \in Traces /\ i' \in 0..Len(trace')  BY <1>8 DEF EndOfLog, TypeOK
  <2>3. /\ cur' = NoAttempt /\ seenStage' \subseteq StageNames /\ connected' \in BOOLEAN
        /\ lastState' \in {"", "retrieving", "connected", "dropped", "other"}
        /\ reasonRank' \in ReasonTSLog..ReasonNone /\ done' \in BOOLEAN
    BY <1>8, LocalTypes DEF EndOfLog, Kept
  <2> QED  BY <2>1, <2>2, <2>3 DEF TypeOK
<1>9. CASE UNCHANGED vars
  BY <1>9 DEF vars, TypeOK
<1> QED
  BY <1>1, <1>2, <1>3, <1>4, <1>5, <1>6, <1>7, <1>8, <1>9 DEF Next

\* Type correctness of the walk, for every log.
THEOREM TimelineTypes == Spec => []TypeOK
<1>1. Init => TypeOK  BY TypeInit
<1>2. TypeOK /\ [Next]_vars => TypeOK'  BY TypeNext
<1> QED  BY <1>1, <1>2, PTL DEF Spec

----------------------------------------------------------------------------
(* Every pre-login is reported.  The strengthening relates seenStage, by   *)
(* which the code decides whether a pre-login opens an attempt, to the     *)
(* stages the open attempt really has.                                     *)

Reported(closed, open, k) ==
    \/ \E a \in DOMAIN closed : Prelogins(closed[a]) = {k}
    \/ open # NoAttempt /\ Prelogins(open) = {k}

AllReported == \A k \in 1..i : PreloginLine(k) => Reported(out, cur, k)

SeenIsCurrent ==
    /\ cur = NoAttempt => seenStage = {}
    /\ cur # NoAttempt /\ Prelogin \notin seenStage => Prelogins(cur) = {}

TimelineInv == SeenIsCurrent /\ AllReported

LEMMA ReportedByAttempts ==
  ASSUME TypeOK, AllReported
  PROVE  PreloginsReported
<1> SUFFICES ASSUME NEW k \in 1..i, PreloginLine(k)
             PROVE  \E a \in DOMAIN Attempts : Prelogins(Attempts[a]) = {k}
  BY DEF PreloginsReported
<1>1. Reported(out, cur, k)  BY DEF AllReported
<1>2. CASE cur = NoAttempt
  BY <1>1, <1>2 DEF Reported, Attempts
<1>3. CASE cur # NoAttempt
  <2>1. /\ DOMAIN Attempts = DOMAIN out \cup {Len(out) + 1}
        /\ \A a \in DOMAIN out : Attempts[a] = out[a]
        /\ Attempts[Len(out) + 1] = cur
    BY <1>3, LocalTypes, AppendAttempt DEF Attempts
  <2> QED  BY <1>1, <2>1, Zenon DEF Reported
<1> QED  BY <1>2, <1>3

\* What was reported stays reported while the open attempt keeps its pre-login
\* or is closed.
LEMMA Carried ==
  ASSUME NEW o \in Seq(Attempt), NEW c, NEW o2, NEW c2, NEW k, Reported(o, c, k),
         \/ o2 = o /\ \/ c = NoAttempt \/ Prelogins(c) = {}
                      \/ c2 # NoAttempt /\ Prelogins(c2) = Prelogins(c)
         \/ \E f \in Attempt : o2 = Append(o, f) /\ Prelogins(f) = Prelogins(c)
  PROVE  Reported(o2, c2, k)
<1>1. CASE o2 = o /\ \/ c = NoAttempt \/ Prelogins(c) = {}
                     \/ c2 # NoAttempt /\ Prelogins(c2) = Prelogins(c)
  BY <1>1, Zenon DEF Reported
<1>2. ASSUME NEW f \in Attempt, o2 = Append(o, f), Prelogins(f) = Prelogins(c)
      PROVE  Reported(o2, c2, k)
  <2>1. /\ DOMAIN o2 = DOMAIN o \cup {Len(o) + 1}
        /\ \A a \in DOMAIN o : o2[a] = o[a]
        /\ o2[Len(o) + 1] = f
    BY <1>2, AppendAttempt
  <2> QED  BY <1>2, <2>1, Zenon DEF Reported
<1> QED  BY <1>1, <1>2

\* One line further.
LEMMA NextLine ==
  ASSUME AllReported, i \in Nat, i' = i + 1, trace' = trace,
         \A k : Reported(out, cur, k) => Reported(out', cur', k),
         PreloginLine(i + 1) => Reported(out', cur', i + 1)
  PROVE  AllReported'
<1> SUFFICES ASSUME NEW k \in 1..i', PreloginLine(k)' PROVE Reported(out', cur', k)
  BY DEF AllReported, Reported
<1>1. PreloginLine(k)  BY DEF PreloginLine
<1>2. k \in 1..i \/ k = i + 1  OBVIOUS
<1> QED  BY <1>1, <1>2 DEF AllReported

LEMMA StageLineReports ==
  ASSUME TypeOK, TimelineInv, StageLine
  PROVE  TimelineInv'
<1> DEFINE st    == trace[i + 1].stage
           opens == cur = NoAttempt \/ (st = Prelogin /\ Prelogin \in seenStage)
           now   == IF opens THEN NewAttempt(i + 1, "portal") ELSE cur
           had   == Kept(opens, seenStage, {})
           new   == st # "" /\ st \notin had
<1>1. /\ i \in Nat /\ i + 1 \in Nat /\ i' = i + 1 /\ trace' = trace /\ st \in StageNames
  BY ReadLineFacts DEF StageLine
<1>2. /\ cur' = IF new THEN AddStage(now, st, "reached") ELSE now
      /\ seenStage' = IF new THEN had \cup {st} ELSE had
      /\ out' = Closing(opens, lastState)
      /\ opens \in BOOLEAN
  BY DEF StageLine
<1>3. /\ now \in Attempt
      /\ opens => Prelogins(now) = {}
      /\ ~opens => now = cur /\ cur # NoAttempt
  BY <1>1, LocalTypes, NewAttemptFacts
<1>4. had = IF opens /\ cur # NoAttempt THEN {} ELSE seenStage
  BY DEF Kept
<1>5. Prelogin \notin had => Prelogins(now) = {}
  BY <1>3, <1>4 DEF TimelineInv, SeenIsCurrent
<1>6. /\ cur' # NoAttempt
      /\ new /\ st = Prelogin => Prelogins(cur') = Prelogins(now) \cup {i + 1}
      /\ ~(new /\ st = Prelogin) => Prelogins(cur') = Prelogins(now)
  <2> HIDE DEF st, now, new
  <2>1. /\ AddStage(now, st, "reached") \in Attempt
        /\ st # Prelogin => Prelogins(AddStage(now, st, "reached")) = Prelogins(now)
        /\ st = Prelogin => Prelogins(AddStage(now, st, "reached")) = Prelogins(now) \cup {i + 1}
    BY <1>1, <1>3, AddStageFacts
  <2> QED  BY <1>2, <1>3, <2>1, GPStateAssumption
<1>7. CASE st = Prelogin
  <2>1. Prelogin \notin had
    BY <1>4, <1>7 DEF TimelineInv, SeenIsCurrent
  <2>2. new  BY <1>7, <2>1 DEF Prelogin
  <2>3. Prelogins(cur') = {i + 1} /\ Prelogin \in seenStage'
    BY <1>2, <1>5, <1>6, <1>7, <2>1, <2>2
  <2>4. ASSUME NEW k, Reported(out, cur, k) PROVE Reported(out', cur', k)
    <3>1. CASE opens /\ cur # NoAttempt
      <4>1. \E f \in Attempt : out' = Append(out, f) /\ Prelogins(f) = Prelogins(cur)
        BY <1>1, <1>2, <3>1, ClosingFacts
      <4> QED  BY <2>4, <4>1, LocalTypes, Carried
    <3>2. CASE ~(opens /\ cur # NoAttempt)
      <4>1. out' = out  BY <1>2, <3>2 DEF Closing
      <4>2. cur = NoAttempt \/ Prelogins(cur) = {}  BY <1>3, <1>5, <2>1, <3>2
      <4> QED  BY <2>4, <4>1, <4>2, LocalTypes, Carried
    <3> QED  BY <3>1, <3>2
  <2>5. Reported(out', cur', i + 1)  BY <1>6, <2>3 DEF Reported
  <2>6. AllReported'  BY <1>1, <2>4, <2>5, NextLine DEF TimelineInv
  <2> QED  BY <1>6, <2>3, <2>6 DEF TimelineInv, SeenIsCurrent
<1>8. CASE st # Prelogin
  <2>1. opens <=> cur = NoAttempt  BY <1>8
  <2>2. out' = out  BY <1>2, <2>1 DEF Closing
  <2>3. had = seenStage  BY <1>4, <2>1
  <2>4. Prelogins(cur') = Prelogins(now)  BY <1>6, <1>8
  <2>5. ASSUME NEW k, Reported(out, cur, k) PROVE Reported(out', cur', k)
    <3>1. cur = NoAttempt \/ (cur' # NoAttempt /\ Prelogins(cur') = Prelogins(cur))
      BY <1>3, <1>6, <2>1, <2>4
    <3> QED  BY <2>2, <2>5, <3>1, LocalTypes, Carried
  <2>6. ~PreloginLine(i + 1)  BY <1>8 DEF PreloginLine
  <2>7. AllReported'  BY <1>1, <2>5, <2>6, NextLine DEF TimelineInv
  <2>8. Prelogin \notin seenStage' => Prelogins(cur') = {}
    BY <1>2, <1>5, <2>4
  <2> QED  BY <1>6, <2>7, <2>8 DEF TimelineInv, SeenIsCurrent
<1> QED  BY <1>7, <1>8

LEMMA RetrievingReports ==
  ASSUME TypeOK, TimelineInv, Retrieving
  PROVE  TimelineInv'
<1> DEFINE opens == cur = NoAttempt \/ Prelogin \in seenStage
<1>1. /\ i \in Nat /\ i + 1 \in Nat /\ i' = i + 1 /\ trace' = trace
      /\ ~PreloginLine(i + 1)
  BY ReadLineFacts DEF Retrieving, ReadingState, Reading, PreloginLine
<1>2. /\ cur' = IF opens THEN NewAttempt(i + 1, "portal") ELSE cur
      /\ seenStage' = Kept(opens, seenStage, {})
      /\ out' = Closing(opens, "retrieving")
      /\ opens \in BOOLEAN
  BY DEF Retrieving
<1>3. cur' # NoAttempt /\ (opens => Prelogins(cur') = {})
  BY <1>1, <1>2, NewAttemptFacts
<1>4. ASSUME NEW k, Reported(out, cur, k) PROVE Reported(out', cur', k)
  <2>1. CASE opens /\ cur # NoAttempt
    <3>1. \E f \in Attempt : out' = Append(out, f) /\ Prelogins(f) = Prelogins(cur)
      BY <1>1, <1>2, <2>1, ClosingFacts
    <3> QED  BY <1>4, <3>1, LocalTypes, Carried
  <2>2. CASE ~(opens /\ cur # NoAttempt)
    <3>1. out' = out /\ (cur = NoAttempt \/ cur' = cur)  BY <1>2, <2>2 DEF Closing
    <3> QED  BY <1>3, <1>4, <3>1, LocalTypes, Carried
  <2> QED  BY <2>1, <2>2
<1>5. AllReported'  BY <1>1, <1>4, NextLine DEF TimelineInv
<1>6. Prelogin \notin seenStage' => Prelogins(cur') = {}
  BY <1>2, <1>3 DEF Kept, TimelineInv, SeenIsCurrent
<1> QED  BY <1>3, <1>5, <1>6 DEF TimelineInv, SeenIsCurrent

LEMMA ConnectsReports ==
  ASSUME TypeOK, TimelineInv, Connects
  PROVE  TimelineInv'
<1> DEFINE now == IF cur = NoAttempt THEN NewAttempt(i + 1, "reconnect") ELSE cur
<1>1. /\ i \in Nat /\ i + 1 \in Nat /\ i' = i + 1 /\ trace' = trace
      /\ ~PreloginLine(i + 1)
  BY ReadLineFacts DEF Connects, ReadingState, Reading, PreloginLine
<1>2. now \in Attempt /\ (cur = NoAttempt => Prelogins(now) = {})
  BY <1>1, LocalTypes, NewAttemptFacts
<1>3. Tunnel \in StageNames /\ Tunnel # Prelogin
  BY DEF StageNames, Boundaries, Tunnel, Prelogin
<1>4. cur' # NoAttempt /\ Prelogins(cur') = Prelogins(now)
  <2>1. cur' = IF Tunnel \in seenStage THEN now ELSE AddStage(now, Tunnel, "ok")
    BY DEF Connects
  <2> HIDE DEF now
  <2>2. /\ AddStage(now, Tunnel, "ok") \in Attempt
        /\ Prelogins(AddStage(now, Tunnel, "ok")) = Prelogins(now)
    BY <1>1, <1>2, <1>3, AddStageFacts
  <2> QED  BY <1>2, <2>1, <2>2, GPStateAssumption
<1>5. out' = out /\ seenStage' = seenStage \cup {Tunnel}  BY DEF Connects
<1>6. ASSUME NEW k, Reported(out, cur, k) PROVE Reported(out', cur', k)
  <2>1. cur = NoAttempt \/ (cur' # NoAttempt /\ Prelogins(cur') = Prelogins(cur))
    BY <1>4
  <2> QED  BY <1>5, <1>6, <2>1, LocalTypes, Carried
<1>7. AllReported'  BY <1>1, <1>6, NextLine DEF TimelineInv
<1>8. Prelogin \notin seenStage' => Prelogins(cur') = {}
  BY <1>2, <1>4, <1>5 DEF TimelineInv, SeenIsCurrent
<1> QED  BY <1>4, <1>7, <1>8 DEF TimelineInv, SeenIsCurrent

LEMMA EventReports ==
  ASSUME TypeOK, TimelineInv, Event
  PROVE  TimelineInv'
<1> DEFINE l == trace[i + 1]
           a == IF l.hip /\ HIP \notin seenStage THEN AddStage(cur, HIP, "ok") ELSE cur
<1>1. /\ i \in Nat /\ i + 1 \in Nat /\ i' = i + 1 /\ trace' = trace
      /\ ~PreloginLine(i + 1) /\ l.stage \in Boundaries \cup {""}
  BY ReadLineFacts DEF Event, Reading, PreloginLine
<1>2. cur # NoAttempt /\ cur \in Attempt  BY LocalTypes DEF Event
<1>3. HIP \in StageNames /\ HIP # Prelogin  BY DEF StageNames, HIP, Prelogin
<1>4. a \in Attempt /\ Prelogins(a) = Prelogins(cur)
  BY <1>1, <1>2, <1>3, AddStageFacts
<1>5. cur' = WithReason(a, l)  BY DEF Event
<1>6. cur' # NoAttempt /\ Prelogins(cur') = Prelogins(cur)
  <2> HIDE DEF a, l
  <2>1. cur' \in Attempt /\ Prelogins(cur') = Prelogins(a)
    BY <1>1, <1>4, <1>5, WithReasonFacts
  <2> QED  BY <1>4, <2>1, GPStateAssumption
<1>7. out' = out /\ (Prelogin \in seenStage => Prelogin \in seenStage')  BY DEF Event
<1>8. ASSUME NEW k, Reported(out, cur, k) PROVE Reported(out', cur', k)
  BY <1>6, <1>7, <1>8, LocalTypes, Carried
<1>9. AllReported'  BY <1>1, <1>8, NextLine DEF TimelineInv
<1> QED  BY <1>2, <1>6, <1>7, <1>9 DEF TimelineInv, SeenIsCurrent

LEMMA EndOfLogReports ==
  ASSUME TypeOK, TimelineInv, EndOfLog
  PROVE  TimelineInv'
<1>1. i' = i /\ trace' = trace /\ cur' = NoAttempt  BY DEF EndOfLog
<1>2. seenStage' = {}
  BY DEF EndOfLog, Kept, TimelineInv, SeenIsCurrent
<1>3. ASSUME NEW k, Reported(out, cur, k) PROVE Reported(out', cur', k)
  <2>1. CASE cur = NoAttempt
    <3>1. out' = out  BY <2>1 DEF EndOfLog
    <3> QED  BY <1>3, <2>1, <3>1, LocalTypes, Carried
  <2>2. CASE cur # NoAttempt
    <3> DEFINE f == Finish(cur, cur.start, lastState)
    <3>1. cur \in Attempt /\ cur.start \in Nat  BY <2>2, LocalTypes DEF Attempt
    <3>2. f \in Attempt /\ Prelogins(f) = Prelogins(cur)  BY <3>1, FinishFacts
    <3>3. out' = Append(out, f)  BY <2>2 DEF EndOfLog
    <3> HIDE DEF f
    <3> QED  BY <1>3, <3>2, <3>3, LocalTypes, Carried
  <2> QED  BY <2>1, <2>2
<1>4. AllReported'
  BY <1>1, <1>3 DEF TimelineInv, AllReported, PreloginLine, Reported
<1> QED  BY <1>1, <1>2, <1>4 DEF TimelineInv, SeenIsCurrent

\* A line that leaves the attempts alone and is not a pre-login.
LEMMA OtherLineReports ==
  ASSUME TypeOK, TimelineInv, IgnoreTeardown \/ OtherState \/ SkipEvent
  PROVE  TimelineInv'
<1>1. i \in Nat /\ i' = i + 1 /\ trace' = trace
  BY ReadLineFacts DEF IgnoreTeardown, OtherState, SkipEvent
<1>2. ~PreloginLine(i + 1)
  BY DEF IgnoreTeardown, OtherState, SkipEvent, Reading, PreloginLine, Prelogin, PortalConfig
<1>3. UNCHANGED <<cur, seenStage, out>>
  BY DEF IgnoreTeardown, OtherState, SkipEvent
<1>4. \A k : Reported(out, cur, k) => Reported(out', cur', k)  BY <1>3
<1>5. AllReported'  BY <1>1, <1>2, <1>4, NextLine DEF TimelineInv
<1> QED  BY <1>3, <1>5 DEF TimelineInv, SeenIsCurrent, Prelogins

LEMMA TimelineInit == Init => TimelineInv
<1> SUFFICES ASSUME Init PROVE TimelineInv
  OBVIOUS
<1>1. i = 0 /\ cur = NoAttempt /\ seenStage = {}  BY DEF Init
<1>2. AllReported  BY <1>1 DEF AllReported
<1> QED  BY <1>1, <1>2 DEF TimelineInv, SeenIsCurrent

LEMMA TimelineNext == TypeOK /\ TimelineInv /\ [Next]_vars => TimelineInv'
<1> SUFFICES ASSUME TypeOK, TimelineInv, [Next]_vars PROVE TimelineInv'
  OBVIOUS
<1>1. CASE UNCHANGED vars
  <2>1. i' = i /\ trace' = trace /\ cur' = cur /\ seenStage' = seenStage /\ out' = out
    BY <1>1 DEF vars
  <2>2. AllReported'
    BY <2>1 DEF TimelineInv, AllReported, PreloginLine, Reported
  <2> QED  BY <2>1, <2>2 DEF TimelineInv, SeenIsCurrent
<1> QED
  BY <1>1, StageLineReports, RetrievingReports, ConnectsReports, EventReports,
     EndOfLogReports, OtherLineReports DEF Next

\* For every log: each pre-login read so far is the pre-login of an attempt on
\* the timeline that has no other, as gpstate.go:29-31 claims.
THEOREM EveryPreloginReported == Spec => []PreloginsReported
<1>1. Init => TypeOK /\ TimelineInv  BY TypeInit, TimelineInit
<1>2. (TypeOK /\ TimelineInv) /\ [Next]_vars => (TypeOK /\ TimelineInv)'
  BY TypeNext, TimelineNext
<1>3. TypeOK /\ TimelineInv => PreloginsReported
  BY ReportedByAttempts DEF TimelineInv
<1> QED  BY <1>1, <1>2, <1>3, PTL DEF Spec

----------------------------------------------------------------------------
(* What an attempt says comes from its own lines.  The strengthening adds  *)
(* to the closed attempts what the locals of the walk say of the open one, *)
(* and that outside any attempt the locals are as at the start.            *)

ConnectedLine(k) == trace[k].kind = "state" /\ trace[k].state = "connected"
ReasonLine(k) == trace[k].kind = "event" /\ trace[k].rank < ReasonNone
Better(k, x) == trace[k].rank < trace[x].rank \/ (trace[k].rank = trace[x].rank /\ k <= x)

\* r is what the walk keeps of the reasons among the lines of S.
KeptOf(S, r) ==
    IF \E k \in S : ReasonLine(k)
    THEN r \in S /\ ReasonLine(r) /\ \A x \in S : ReasonLine(x) => Better(r, x)
    ELSE r = 0

\* The lines of a closed attempt, and of the open one.
LastLine(a) == IF a < Len(out) THEN out[a + 1].start - 1
               ELSE IF cur = NoAttempt THEN i ELSE cur.start - 1
Lines(a) == out[a].start .. LastLine(a)
OpenLines == cur.start .. i

ClosedIsOwn(a) ==
    /\ out[a].start \in 1..i
    /\ out[a].outcome = "connected" <=> \E k \in Lines(a) : ConnectedLine(k)
    /\ KeptOf(Lines(a), out[a].reason)

OpenIsOwn ==
    /\ cur.start \in 1..i
    /\ connected <=> \E k \in OpenLines : ConnectedLine(k)
    /\ KeptOf(OpenLines, cur.reason)
    /\ reasonRank = IF cur.reason = 0 THEN ReasonNone ELSE trace[cur.reason].rank

OwnInv ==
    /\ \A a \in DOMAIN out : ClosedIsOwn(a)
    /\ cur # NoAttempt => OpenIsOwn
    /\ cur = NoAttempt => ~connected /\ reasonRank = ReasonNone /\ (done \/ out = <<>>)

LEMMA AppendedLen ==
  ASSUME NEW o \in Seq(Attempt), NEW f \in Attempt, NEW p, p = Append(o, f)
  PROVE  /\ DOMAIN p = DOMAIN o \cup {Len(o) + 1}
         /\ Len(p) = Len(o) + 1
         /\ \A b \in DOMAIN o : p[b] = o[b]
         /\ p[Len(o) + 1] = f
  OBVIOUS

\* The lines are counted, and their ranks are numbers.
LEMMA Counted ==
  ASSUME TypeOK
  PROVE  /\ i \in Nat /\ Len(trace) \in Nat /\ i <= Len(trace)
         /\ \A k \in 1..Len(trace) : trace[k].rank \in 0..3 /\ trace[k].rank \in Int
         /\ DOMAIN out = 1..Len(out) /\ Len(out) \in Nat
<1>1. trace \in Seq(Line)  BY GPStateAssumption DEF TypeOK
<1>2. i \in 0..Len(trace)  BY DEF TypeOK
<1>3. \A l \in Line : l.rank \in ReasonTSLog..ReasonNone  BY DEF Line
<1>4. ASSUME NEW k \in 1..Len(trace) PROVE trace[k].rank \in 0..3 /\ trace[k].rank \in Int
  <2>1. trace[k] \in Line  BY <1>1
  <2>2. trace[k].rank \in ReasonTSLog..ReasonNone  BY <1>3, <2>1
  <2>3. trace[k].rank \in 0..3  BY <2>2 DEF ReasonTSLog, ReasonNone
  <2> QED  BY <2>3
<1>5. Len(trace) \in Nat  BY <1>1
<1>6. out \in Seq(Attempt)  BY DEF TypeOK
<1>7. DOMAIN out = 1..Len(out) /\ Len(out) \in Nat  BY <1>6
<1> QED  BY <1>2, <1>4, <1>5, <1>7

LEMMA SpanIsLines ==
  ASSUME TypeOK
  PROVE  /\ \A a \in DOMAIN out : a \in DOMAIN Attempts /\ Attempts[a] = out[a] /\ Span(a) = Lines(a)
         /\ cur = NoAttempt => DOMAIN Attempts = DOMAIN out
         /\ cur # NoAttempt => /\ DOMAIN Attempts = DOMAIN out \cup {Len(out) + 1}
                               /\ Attempts[Len(out) + 1] = cur
                               /\ Span(Len(out) + 1) = OpenLines
<1>1. out \in Seq(Attempt) /\ DOMAIN out = 1..Len(out) /\ Len(out) \in Nat
  BY LocalTypes, Counted
<1>2. CASE cur = NoAttempt
  BY <1>1, <1>2 DEF Attempts, Span, Lines, LastLine
<1>3. CASE cur # NoAttempt
  <2>0. cur \in Attempt  BY <1>3, LocalTypes
  <2>1. /\ Attempts = Append(out, cur) /\ Len(Attempts) = Len(out) + 1
        /\ DOMAIN Attempts = DOMAIN out \cup {Len(out) + 1}
        /\ \A a \in DOMAIN out : Attempts[a] = out[a]
        /\ Attempts[Len(out) + 1] = cur
    <3>1. Attempts = Append(out, cur)  BY <1>3 DEF Attempts
    <3> QED  BY <1>1, <2>0, <3>1, AppendedLen
  <2>2. ASSUME NEW a \in DOMAIN out PROVE Span(a) = Lines(a)
    <3>1. CASE a < Len(out)
      <4>1. a + 1 \in DOMAIN out /\ a < Len(Attempts)  BY <1>1, <2>1, <3>1
      <4> QED  BY <2>1, <3>1, <4>1 DEF Span, Lines, LastLine
    <3>2. CASE ~(a < Len(out))
      <4>1. a = Len(out) /\ a < Len(Attempts)  BY <1>1, <2>1, <3>2
      <4> QED  BY <1>3, <2>1, <3>2, <4>1 DEF Span, Lines, LastLine
    <3> QED  BY <3>1, <3>2
  <2>3. Span(Len(out) + 1) = OpenLines
    BY <1>1, <2>1 DEF Span, OpenLines
  <2> QED  BY <1>3, <2>1, <2>2, <2>3
<1> QED  BY <1>2, <1>3

\* What was kept of the reasons of an attempt is the one best.
LEMMA KeptIsBest ==
  ASSUME TypeOK, NEW S, S \subseteq 1..i, NEW r, KeptOf(S, r)
  PROVE  LET reasons == {k \in S : ReasonLine(k)}
             best == {k \in reasons : \A x \in reasons : Better(k, x)}
         IN  IF reasons = {} THEN r = 0 ELSE best = {r}
<1> DEFINE reasons == {k \in S : ReasonLine(k)}
           best == {k \in reasons : \A x \in reasons : Better(k, x)}
<1>1. CASE reasons = {}
  BY <1>1 DEF KeptOf
<1>2. CASE reasons # {}
  <2>1. r \in reasons /\ \A x \in reasons : Better(r, x)
    BY <1>2 DEF KeptOf
  <2>2. ASSUME NEW k \in best PROVE k = r
    <3>1. Better(k, r) /\ Better(r, k)  BY <2>1
    <3>2. k \in 1..Len(trace) /\ r \in 1..Len(trace) /\ k \in Int /\ r \in Int
      <4>1. k \in 1..i /\ r \in 1..i  BY <2>1
      <4> QED  BY <4>1, Counted
    <3>3. trace[k].rank \in Int /\ trace[r].rank \in Int  BY <3>2, Counted
    <3> QED  BY <3>1, <3>2, <3>3 DEF Better
  <2> QED  BY <1>2, <2>1, <2>2
<1> QED  BY <1>1, <1>2

\* One line further in the open attempt.
LEMMA OneMoreLine ==
  ASSUME TypeOK, OwnInv, cur # NoAttempt, cur' # NoAttempt, i < Len(trace),
         i' = i + 1, trace' = trace, out' = out, cur'.start = cur.start,
         connected' <=> connected \/ ConnectedLine(i + 1),
         cur'.reason = IF ReasonLine(i + 1) /\ trace[i + 1].rank < reasonRank
                       THEN i + 1 ELSE cur.reason,
         reasonRank' = IF ReasonLine(i + 1) /\ trace[i + 1].rank < reasonRank
                       THEN trace[i + 1].rank ELSE reasonRank
  PROVE  OwnInv'
<1>1. i \in Nat /\ trace[i + 1].rank \in Int /\ \A k \in 1..i : trace[k].rank \in Int
  BY Counted
<1>2. OpenIsOwn  BY DEF OwnInv
<1>3. cur.start \in 1..i /\ OpenLines' = OpenLines \cup {i + 1} /\ i + 1 \notin OpenLines
      /\ OpenLines \subseteq 1..i
  BY <1>1, <1>2 DEF OpenIsOwn, OpenLines
<1>4. \A k : ConnectedLine(k)' <=> ConnectedLine(k)  BY DEF ConnectedLine
<1>5. \A k : ReasonLine(k)' <=> ReasonLine(k)  BY DEF ReasonLine
<1>6. \A k, x : Better(k, x)' <=> Better(k, x)  BY DEF Better
<1>7. ASSUME NEW a \in DOMAIN out PROVE ClosedIsOwn(a)'
  <2>1. Lines(a)' = Lines(a)  BY DEF Lines, LastLine
  <2>2. ClosedIsOwn(a)  BY DEF OwnInv
  <2>3. out[a].start \in 1..i'  BY <1>1, <2>2 DEF ClosedIsOwn
  <2> QED  BY <2>1, <2>2, <2>3 DEF ClosedIsOwn, KeptOf, ConnectedLine, ReasonLine, Better
<1>8. connected' <=> \E k \in OpenLines' : ConnectedLine(k)'
  BY <1>2, <1>3, <1>4 DEF OpenIsOwn
<1>9. /\ KeptOf(OpenLines, cur.reason)'
      /\ reasonRank' = IF cur'.reason = 0 THEN ReasonNone ELSE trace[cur'.reason].rank
  <2> DEFINE r == cur.reason
  <2>0. /\ KeptOf(OpenLines, r)
        /\ reasonRank = IF r = 0 THEN ReasonNone ELSE trace[r].rank
    BY <1>2 DEF OpenIsOwn
  <2>1. KeptOf(OpenLines, cur.reason)' <=>
           IF \E k \in OpenLines' : ReasonLine(k)
           THEN /\ cur'.reason \in OpenLines' /\ ReasonLine(cur'.reason)
                /\ \A x \in OpenLines' : ReasonLine(x) => Better(cur'.reason, x)
           ELSE cur'.reason = 0
    BY <1>5, <1>6 DEF KeptOf
  <2>2. CASE ReasonLine(i + 1) /\ trace[i + 1].rank < reasonRank
    <3>1. cur'.reason = i + 1 /\ reasonRank' = trace[i + 1].rank
      BY <2>2
    <3>2. ASSUME NEW x \in OpenLines, ReasonLine(x) PROVE Better(i + 1, x)
      <4>1. r \in 1..i /\ Better(r, x) /\ reasonRank = trace[r].rank
        BY <1>3, <2>0, <3>2 DEF KeptOf
      <4>2. trace[i + 1].rank < trace[x].rank
        BY <1>1, <1>3, <2>2, <4>1 DEF Better
      <4> QED  BY <4>2 DEF Better
    <3>3. Better(i + 1, i + 1)  BY <1>1 DEF Better
    <3>4. i + 1 # 0  BY <1>1
    <3> QED  BY <1>3, <2>1, <2>2, <3>1, <3>2, <3>3, <3>4
  <2>3. CASE ~(ReasonLine(i + 1) /\ trace[i + 1].rank < reasonRank)
    <3>1. cur'.reason = r /\ reasonRank' = reasonRank  BY <2>3
    <3>2. CASE ReasonLine(i + 1)
      <4>1. ~(trace[i + 1].rank < reasonRank) /\ trace[i + 1].rank < ReasonNone
        BY <2>3, <3>2 DEF ReasonLine
      <4>2. r # 0  BY <2>0, <4>1
      <4>3. \E k \in OpenLines : ReasonLine(k)  BY <2>0, <4>2 DEF KeptOf
      <4>4. r \in OpenLines /\ ReasonLine(r) /\ \A x \in OpenLines : ReasonLine(x) => Better(r, x)
        BY <2>0, <4>3 DEF KeptOf
      <4>5. Better(r, i + 1)
        <5>1. /\ reasonRank = trace[r].rank /\ r \in 1..i
              /\ trace[r].rank \in Int /\ trace[i + 1].rank \in Int
          BY <1>1, <1>3, <2>0, <4>2, <4>4
        <5>2. trace[r].rank <= trace[i + 1].rank /\ r <= i + 1
          BY <1>1, <4>1, <5>1
        <5> QED  BY <5>1, <5>2 DEF Better
      <4> QED  BY <1>3, <2>0, <2>1, <3>1, <4>3, <4>4, <4>5
    <3>3. CASE ~ReasonLine(i + 1)
      BY <1>3, <2>0, <2>1, <3>1, <3>3 DEF KeptOf
    <3> QED  BY <3>2, <3>3
  <2> QED  BY <2>2, <2>3
<1>10. cur'.start \in 1..i'  BY <1>1, <1>3
<1>11. OpenIsOwn'  BY <1>8, <1>9, <1>10 DEF OpenIsOwn
<1> QED  BY <1>7, <1>11 DEF OwnInv

\* A line opens an attempt, and closes the one that was open.
LEMMA OneMoreAttempt ==
  ASSUME TypeOK, OwnInv, ~done, i \in Nat, i' = i + 1, trace' = trace,
         cur' \in Attempt, cur'.start = i + 1, cur'.reason = 0,
         connected' <=> ConnectedLine(i + 1), ~ReasonLine(i + 1), reasonRank' = ReasonNone,
         cur = NoAttempt => out' = out,
         NEW last, cur # NoAttempt => out' = Append(out, Finish(cur, i + 1, last))
  PROVE  OwnInv'
<1>1. cur' # NoAttempt  BY GPStateAssumption
<1>2. OpenIsOwn'
  <2>1. OpenLines' = {i + 1} /\ cur'.start \in 1..i'  BY DEF OpenLines
  <2>2. \A k : (ConnectedLine(k)' <=> ConnectedLine(k)) /\ (ReasonLine(k)' <=> ReasonLine(k))
    BY DEF ConnectedLine, ReasonLine
  <2> QED  BY <2>1, <2>2 DEF OpenIsOwn, KeptOf
<1>3. ASSUME NEW a \in DOMAIN out' PROVE ClosedIsOwn(a)'
  <2>1. CASE cur = NoAttempt
    <3>1. out' = <<>>  BY <2>1 DEF OwnInv
    <3>2. DOMAIN out' = {}  BY <3>1
    <3> QED  BY <3>2
  <2>2. CASE cur # NoAttempt
    <3> DEFINE f == Finish(cur, i + 1, last)
    <3>1. cur \in Attempt /\ OpenIsOwn  BY <2>2, LocalTypes DEF OwnInv
    <3>2. /\ f \in Attempt /\ f.start = cur.start /\ f.reason = cur.reason
          /\ f.outcome = "connected" <=> connected
      <4>1. f \in Attempt  BY <3>1, FinishFacts
      <4>2. f.start = cur.start /\ f.reason = cur.reason
            /\ f.outcome = Outcome(cur, last = "dropped")
        BY <3>1 DEF Finish, Attempt
      <4> QED  BY <4>1, <4>2 DEF Outcome
    <3>3. out' = Append(out, f)  BY <2>2
    <3> HIDE DEF f
    <3>4. /\ DOMAIN out' = DOMAIN out \cup {Len(out) + 1} /\ Len(out') = Len(out) + 1
          /\ \A b \in DOMAIN out : out'[b] = out[b]
          /\ out'[Len(out) + 1] = f /\ DOMAIN out = 1..Len(out) /\ Len(out) \in Nat
      <4>1. out \in Seq(Attempt) /\ f \in Attempt  BY <3>2, LocalTypes
      <4>2. \A p : p = Append(out, f) =>
              /\ DOMAIN p = DOMAIN out \cup {Len(out) + 1} /\ Len(p) = Len(out) + 1
              /\ \A b \in DOMAIN out : p[b] = out[b]
              /\ p[Len(out) + 1] = f
        BY <4>1, AppendedLen
      <4> QED  BY <3>3, <4>2, Counted, Zenon
    <3>5. CASE a \in DOMAIN out
      <4>1. Lines(a)' = Lines(a)
        <5>1. CASE a < Len(out)
          <6>1. a + 1 \in DOMAIN out /\ a < Len(out')  BY <3>4, <3>5, <5>1
          <6> QED  BY <3>4, <3>5, <5>1, <6>1 DEF Lines, LastLine
        <5>2. CASE ~(a < Len(out))
          <6>1. a = Len(out) /\ a < Len(out')  BY <3>4, <3>5, <5>2
          <6> QED  BY <2>2, <3>2, <3>4, <3>5, <5>2, <6>1 DEF Lines, LastLine
        <5> QED  BY <5>1, <5>2
      <4>2. ClosedIsOwn(a)  BY <3>5 DEF OwnInv
      <4>3. out'[a] = out[a]  BY <3>4, <3>5
      <4>4. out'[a].start \in 1..i'  BY <4>2, <4>3 DEF ClosedIsOwn
      <4> QED  BY <4>1, <4>2, <4>3, <4>4 DEF ClosedIsOwn, KeptOf, ConnectedLine, ReasonLine, Better
    <3>6. CASE a = Len(out) + 1
      <4>1. Lines(a)' = OpenLines
        <5>1. ~(a < Len(out')) /\ out'[a] = f  BY <3>4, <3>6
        <5>2. cur'.start - 1 = i  OBVIOUS
        <5> QED  BY <1>1, <3>2, <5>1, <5>2 DEF Lines, LastLine, OpenLines
      <4>2. out'[a] = f  BY <3>4, <3>6
      <4>3. out'[a].start \in 1..i'  BY <3>1, <3>2, <4>2 DEF OpenIsOwn
      <4> QED
        BY <3>1, <3>2, <4>1, <4>2, <4>3
        DEF ClosedIsOwn, OpenIsOwn, KeptOf, ConnectedLine, ReasonLine, Better
    <3> QED  BY <3>4, <3>5, <3>6
  <2> QED  BY <2>1, <2>2
<1> QED  BY <1>1, <1>2, <1>3 DEF OwnInv

\* A line before the first attempt.
LEMMA StillNone ==
  ASSUME OwnInv, ~done, cur = NoAttempt, cur' = NoAttempt, out' = out,
         connected' = connected, reasonRank' = reasonRank
  PROVE  OwnInv'
<1>1. out = <<>>  BY DEF OwnInv
<1>2. DOMAIN out' = {}  BY <1>1
<1> QED  BY <1>1, <1>2 DEF OwnInv

----------------------------------------------------------------------------
(* Each line.                                                              *)

\* The fields the walk does not touch.
LEMMA Untouched ==
  ASSUME NEW a \in Attempt, NEW st, NEW status
  PROVE  /\ AddStage(a, st, status).start = a.start
         /\ AddStage(a, st, status).reason = a.reason
  BY DEF AddStage, Attempt

LEMMA StageLineOwn == ASSUME TypeOK, OwnInv, StageLine PROVE OwnInv'
<1> DEFINE st    == trace[i + 1].stage
           opens == cur = NoAttempt \/ (st = Prelogin /\ Prelogin \in seenStage)
           now   == IF opens THEN NewAttempt(i + 1, "portal") ELSE cur
           had   == Kept(opens, seenStage, {})
           new   == st # "" /\ st \notin had
<1>1. /\ i \in Nat /\ i + 1 \in Nat /\ i' = i + 1 /\ trace' = trace /\ st \in StageNames
      /\ i < Len(trace) /\ ~done /\ trace[i + 1].kind = "stage"
  BY ReadLineFacts DEF StageLine, Reading
<1>2. ~ConnectedLine(i + 1) /\ ~ReasonLine(i + 1)
  BY <1>1 DEF ConnectedLine, ReasonLine
<1>3. /\ cur' = IF new THEN AddStage(now, st, "reached") ELSE now
      /\ connected' = Kept(opens, connected, FALSE)
      /\ reasonRank' = Kept(opens, reasonRank, ReasonNone)
      /\ out' = Closing(opens, lastState) /\ opens \in BOOLEAN
  BY DEF StageLine
<1>4. /\ now \in Attempt
      /\ opens => now.start = i + 1 /\ now.reason = 0
      /\ ~opens => now = cur /\ cur # NoAttempt
  <2>1. NewAttempt(i + 1, "portal").start = i + 1 /\ NewAttempt(i + 1, "portal").reason = 0
    BY DEF NewAttempt
  <2> QED  BY <1>1, <2>1, LocalTypes, NewAttemptFacts
<1>5. cur' \in Attempt /\ cur'.start = now.start /\ cur'.reason = now.reason
  <2> HIDE DEF st, now, new
  <2> QED  BY <1>1, <1>3, <1>4, Untouched, AddStageFacts
<1>6. CASE opens
  <2>1. connected' <=> FALSE  BY <1>3, <1>6 DEF Kept, OwnInv
  <2>2. reasonRank' = ReasonNone  BY <1>3, <1>6 DEF Kept, OwnInv
  <2>3. IF cur = NoAttempt THEN out' = out
        ELSE out' = Append(out, Finish(cur, i + 1, lastState))
    BY <1>3, <1>6 DEF Closing
  <2> HIDE DEF opens, now
  <2> QED  BY <1>1, <1>2, <1>4, <1>5, <1>6, <2>1, <2>2, <2>3, OneMoreAttempt
<1>7. CASE ~opens
  <2>1. connected' = connected /\ reasonRank' = reasonRank /\ out' = out
    BY <1>3, <1>7 DEF Kept, Closing
  <2>2. cur # NoAttempt /\ cur' # NoAttempt /\ cur'.start = cur.start /\ cur'.reason = cur.reason
    BY <1>4, <1>5, <1>7, GPStateAssumption
  <2> HIDE DEF opens, now
  <2> QED  BY <1>1, <1>2, <2>1, <2>2, OneMoreLine
<1> QED  BY <1>6, <1>7

LEMMA RetrievingOwn == ASSUME TypeOK, OwnInv, Retrieving PROVE OwnInv'
<1> DEFINE opens == cur = NoAttempt \/ Prelogin \in seenStage
<1>1. /\ i \in Nat /\ i + 1 \in Nat /\ i' = i + 1 /\ trace' = trace
      /\ i < Len(trace) /\ ~done /\ trace[i + 1].kind = "state"
      /\ trace[i + 1].state = "retrieving"
  BY ReadLineFacts DEF Retrieving, ReadingState, Reading
<1>2. ~ConnectedLine(i + 1) /\ ~ReasonLine(i + 1)
  BY <1>1 DEF ConnectedLine, ReasonLine
<1>3. /\ cur' = IF opens THEN NewAttempt(i + 1, "portal") ELSE cur
      /\ connected' = Kept(opens, connected, FALSE)
      /\ reasonRank' = Kept(opens, reasonRank, ReasonNone)
      /\ out' = Closing(opens, "retrieving") /\ opens \in BOOLEAN
  BY DEF Retrieving
<1>4. CASE opens
  <2>1. cur' \in Attempt /\ cur'.start = i + 1 /\ cur'.reason = 0
    <3>1. NewAttempt(i + 1, "portal").start = i + 1 /\ NewAttempt(i + 1, "portal").reason = 0
      BY DEF NewAttempt
    <3> QED  BY <1>1, <1>3, <1>4, <3>1, NewAttemptFacts
  <2>2. connected' <=> FALSE  BY <1>3, <1>4 DEF Kept, OwnInv
  <2>3. reasonRank' = ReasonNone  BY <1>3, <1>4 DEF Kept, OwnInv
  <2>4. IF cur = NoAttempt THEN out' = out
        ELSE out' = Append(out, Finish(cur, i + 1, "retrieving"))
    BY <1>3, <1>4 DEF Closing
  <2> QED  BY <1>1, <1>2, <2>1, <2>2, <2>3, <2>4, OneMoreAttempt
<1>5. CASE ~opens
  <2>1. connected' = connected /\ reasonRank' = reasonRank /\ out' = out /\ cur' = cur
    BY <1>3, <1>5 DEF Kept, Closing
  <2> QED  BY <1>1, <1>2, <1>5, <2>1, OneMoreLine
<1> QED  BY <1>4, <1>5

LEMMA ConnectsOwn == ASSUME TypeOK, OwnInv, Connects PROVE OwnInv'
<1> DEFINE now == IF cur = NoAttempt THEN NewAttempt(i + 1, "reconnect") ELSE cur
<1>1. /\ i \in Nat /\ i + 1 \in Nat /\ i' = i + 1 /\ trace' = trace
      /\ i < Len(trace) /\ ~done /\ trace[i + 1].kind = "state"
      /\ trace[i + 1].state = "connected"
  BY ReadLineFacts DEF Connects, ReadingState, Reading
<1>2. ConnectedLine(i + 1) /\ ~ReasonLine(i + 1)
  BY <1>1 DEF ConnectedLine, ReasonLine
<1>3. /\ cur' = IF Tunnel \in seenStage THEN now ELSE AddStage(now, Tunnel, "ok")
      /\ connected' = TRUE /\ reasonRank' = reasonRank /\ out' = out
  BY DEF Connects
<1>4. /\ now \in Attempt
      /\ cur = NoAttempt => now.start = i + 1 /\ now.reason = 0
      /\ cur # NoAttempt => now = cur
  <2>1. NewAttempt(i + 1, "reconnect").start = i + 1 /\ NewAttempt(i + 1, "reconnect").reason = 0
    BY DEF NewAttempt
  <2> QED  BY <1>1, <2>1, LocalTypes, NewAttemptFacts
<1>5. Tunnel \in StageNames  BY DEF StageNames, Boundaries
<1>6. cur' \in Attempt /\ cur'.start = now.start /\ cur'.reason = now.reason
  <2> HIDE DEF now
  <2> QED  BY <1>1, <1>3, <1>4, <1>5, Untouched, AddStageFacts
<1>7. CASE cur = NoAttempt
  <2>1. reasonRank' = ReasonNone  BY <1>3, <1>7 DEF OwnInv
  <2> HIDE DEF now
  <2> QED  BY <1>1, <1>2, <1>3, <1>4, <1>6, <1>7, <2>1, OneMoreAttempt
<1>8. CASE cur # NoAttempt
  <2>1. cur' # NoAttempt /\ cur'.start = cur.start /\ cur'.reason = cur.reason
    BY <1>4, <1>6, <1>8, GPStateAssumption
  <2> HIDE DEF now
  <2> QED  BY <1>1, <1>2, <1>3, <1>8, <2>1, OneMoreLine
<1> QED  BY <1>7, <1>8

LEMMA EventOwn == ASSUME TypeOK, OwnInv, Event PROVE OwnInv'
<1> DEFINE l == trace[i + 1]
           a == IF l.hip /\ HIP \notin seenStage THEN AddStage(cur, HIP, "ok") ELSE cur
<1>1. /\ i \in Nat /\ i + 1 \in Nat /\ i' = i + 1 /\ trace' = trace
      /\ i < Len(trace) /\ l.kind = "event"
      /\ l.rank \in ReasonTSLog..ReasonNone /\ reasonRank \in ReasonTSLog..ReasonNone
      /\ l.stage \in Boundaries \cup {""}
  BY ReadLineFacts, LocalTypes DEF Event, Reading
<1>2. ~ConnectedLine(i + 1) /\ (ReasonLine(i + 1) <=> l.rank < ReasonNone)
  BY <1>1 DEF ConnectedLine, ReasonLine
<1>3. l.rank < reasonRank => ReasonLine(i + 1)
  <2>1. ReasonTSLog = 0 /\ ReasonNone = 3  BY DEF ReasonTSLog, ReasonNone
  <2> HIDE DEF l
  <2>2. l.rank \in 0..3 /\ reasonRank \in 0..3  BY <1>1, <2>1
  <2>3. l.rank < reasonRank => l.rank < 3  BY <2>2
  <2> QED  BY <1>2, <2>1, <2>3
<1>4. cur # NoAttempt /\ cur \in Attempt  BY LocalTypes DEF Event
<1>5. HIP \in StageNames  BY DEF StageNames
<1>6. a \in Attempt /\ a.start = cur.start /\ a.reason = cur.reason
  BY <1>1, <1>4, <1>5, Untouched, AddStageFacts
<1>7. /\ cur' = WithReason(a, l) /\ connected' = connected /\ out' = out
      /\ reasonRank' = IF l.rank < reasonRank THEN l.rank ELSE reasonRank
  BY DEF Event
<1>8. /\ cur' # NoAttempt /\ cur'.start = cur.start
      /\ cur'.reason = IF l.rank < reasonRank THEN i + 1 ELSE cur.reason
  <2> HIDE DEF a, l
  <2>1. cur' \in Attempt  BY <1>1, <1>6, <1>7, WithReasonFacts
  <2>2. /\ WithReason(a, l).start = a.start
        /\ WithReason(a, l).reason = IF l.rank < reasonRank THEN i + 1 ELSE a.reason
    BY <1>6 DEF WithReason, Attempt
  <2> QED  BY <1>6, <1>7, <2>1, <2>2, GPStateAssumption
<1> QED  BY <1>1, <1>2, <1>3, <1>4, <1>7, <1>8, OneMoreLine

LEMMA OtherLineOwn ==
  ASSUME TypeOK, OwnInv, IgnoreTeardown \/ OtherState \/ SkipEvent
  PROVE  OwnInv'
<1>1. /\ i \in Nat /\ i' = i + 1 /\ trace' = trace /\ i < Len(trace) /\ ~done
  BY ReadLineFacts DEF IgnoreTeardown, OtherState, SkipEvent, Reading
<1>2. UNCHANGED <<cur, connected, reasonRank, out>>
  BY DEF IgnoreTeardown, OtherState, SkipEvent
<1>3. CASE cur = NoAttempt
  BY <1>1, <1>2, <1>3, StillNone
<1>4. CASE cur # NoAttempt
  <2>1. ~ConnectedLine(i + 1) /\ ~ReasonLine(i + 1)
    BY <1>4 DEF IgnoreTeardown, OtherState, SkipEvent, Reading, ConnectedLine, ReasonLine
  <2> QED  BY <1>1, <1>2, <1>4, <2>1, OneMoreLine
<1> QED  BY <1>3, <1>4

\* At the end of the log the last attempt keeps the lines it has.
LEMMA EndOfLogOwn == ASSUME TypeOK, OwnInv, EndOfLog PROVE OwnInv'
<1>1. i' = i /\ trace' = trace /\ cur' = NoAttempt /\ done' = TRUE  BY DEF EndOfLog
<1>2. ~connected' /\ reasonRank' = ReasonNone  BY DEF EndOfLog, Kept, OwnInv
<1>3. CASE cur = NoAttempt
  <2>1. out' = out  BY <1>3 DEF EndOfLog
  <2>2. ASSUME NEW a \in DOMAIN out PROVE ClosedIsOwn(a)'
    <3>1. Lines(a)' = Lines(a)  BY <1>1, <1>3, <2>1 DEF Lines, LastLine
    <3>2. ClosedIsOwn(a)  BY DEF OwnInv
    <3> QED  BY <1>1, <2>1, <3>1, <3>2 DEF ClosedIsOwn, KeptOf, ConnectedLine, ReasonLine, Better
  <2> QED  BY <1>1, <1>2, <2>1, <2>2 DEF OwnInv
<1>4. CASE cur # NoAttempt
  <2> DEFINE f == Finish(cur, cur.start, lastState)
  <2>1. cur \in Attempt /\ cur.start \in Nat /\ OpenIsOwn
    BY <1>4, LocalTypes DEF OwnInv, Attempt
  <2>2. /\ f \in Attempt /\ f.start = cur.start /\ f.reason = cur.reason
        /\ f.outcome = "connected" <=> connected
    <3>1. f \in Attempt  BY <2>1, FinishFacts
    <3>2. f.start = cur.start /\ f.reason = cur.reason
          /\ f.outcome = Outcome(cur, lastState = "dropped")
      BY <2>1 DEF Finish, Attempt
    <3> QED  BY <3>1, <3>2 DEF Outcome
  <2>3. out' = Append(out, f)  BY <1>4 DEF EndOfLog
  <2> HIDE DEF f
  <2>4. /\ DOMAIN out' = DOMAIN out \cup {Len(out) + 1} /\ Len(out') = Len(out) + 1
        /\ \A b \in DOMAIN out : out'[b] = out[b]
        /\ out'[Len(out) + 1] = f /\ DOMAIN out = 1..Len(out) /\ Len(out) \in Nat
    <3>1. out \in Seq(Attempt) /\ f \in Attempt  BY <2>2, LocalTypes
    <3> QED  BY <2>3, <3>1, AppendedLen, Counted
  <2>5. ASSUME NEW a \in DOMAIN out PROVE ClosedIsOwn(a)'
    <3>1. Lines(a)' = Lines(a)
      <4>1. CASE a < Len(out)
        <5>1. a + 1 \in DOMAIN out /\ a < Len(out')  BY <2>4, <4>1
        <5> QED  BY <2>4, <4>1, <5>1 DEF Lines, LastLine
      <4>2. CASE ~(a < Len(out))
        <5>1. a = Len(out) /\ a < Len(out')  BY <2>4, <4>2
        <5> QED  BY <1>4, <2>2, <2>4, <4>2, <5>1 DEF Lines, LastLine
      <4> QED  BY <4>1, <4>2
    <3>2. ClosedIsOwn(a)  BY DEF OwnInv
    <3> QED  BY <1>1, <2>4, <3>1, <3>2 DEF ClosedIsOwn, KeptOf, ConnectedLine, ReasonLine, Better
  <2>6. ASSUME NEW a, a = Len(out) + 1 PROVE ClosedIsOwn(a)'
    <3>1. ~(a < Len(out')) /\ out'[a] = f  BY <2>4, <2>6
    <3>2. Lines(a)' = OpenLines
      BY <1>1, <2>2, <3>1 DEF Lines, LastLine, OpenLines
    <3> QED
      BY <1>1, <2>1, <2>2, <3>1, <3>2
      DEF ClosedIsOwn, OpenIsOwn, KeptOf, ConnectedLine, ReasonLine, Better
  <2> QED  BY <1>1, <1>2, <2>4, <2>5, <2>6 DEF OwnInv
<1> QED  BY <1>3, <1>4

LEMMA OwnInit == Init => OwnInv
<1> SUFFICES ASSUME Init PROVE OwnInv
  OBVIOUS
<1>1. out = <<>> /\ cur = NoAttempt /\ ~connected /\ reasonRank = ReasonNone  BY DEF Init
<1> QED  BY <1>1 DEF OwnInv

LEMMA OwnNext == TypeOK /\ OwnInv /\ [Next]_vars => OwnInv'
<1> SUFFICES ASSUME TypeOK, OwnInv, [Next]_vars PROVE OwnInv'
  OBVIOUS
<1>1. CASE UNCHANGED vars
  BY <1>1 DEF vars, OwnInv, ClosedIsOwn, OpenIsOwn, KeptOf, Lines, LastLine, OpenLines,
              ConnectedLine, ReasonLine, Better
<1> QED
  BY <1>1, StageLineOwn, RetrievingOwn, ConnectsOwn, EventOwn, OtherLineOwn, EndOfLogOwn
  DEF Next

LEMMA OwnImpliesOutcome ==
  ASSUME TypeOK, OwnInv
  PROVE  OutcomeIsOwn
<1> SUFFICES ASSUME NEW a \in DOMAIN out
             PROVE  out[a].outcome = "connected"
                    <=> \E k \in Span(a) : trace[k].kind = "state" /\ trace[k].state = "connected"
  BY DEF OutcomeIsOwn
<1>1. ClosedIsOwn(a) /\ Span(a) = Lines(a)  BY SpanIsLines DEF OwnInv
<1> QED  BY <1>1 DEF ClosedIsOwn, ConnectedLine

\* For every log: an attempt is connected exactly when a line of its own says
\* so, however attempts follow one another (gpstate.go: open and closeAttempt).
THEOREM OutcomesAreOwn == Spec => []OutcomeIsOwn
<1>1. Init => TypeOK /\ OwnInv  BY TypeInit, OwnInit
<1>2. (TypeOK /\ OwnInv) /\ [Next]_vars => (TypeOK /\ OwnInv)'  BY TypeNext, OwnNext
<1>3. TypeOK /\ OwnInv => OutcomeIsOwn  BY OwnImpliesOutcome
<1> QED  BY <1>1, <1>2, <1>3, PTL DEF Spec

LEMMA OwnImpliesReason ==
  ASSUME TypeOK, OwnInv
  PROVE  BestReasonWins
<1>1. /\ \A a \in DOMAIN out : ClosedIsOwn(a)
      /\ cur # NoAttempt => OpenIsOwn
  BY DEF OwnInv
<1>2. i \in Nat /\ DOMAIN out = 1..Len(out) /\ Len(out) \in Nat  BY Counted
<1>3. ASSUME NEW a \in DOMAIN out PROVE Lines(a) \subseteq 1..i
  <2>1. out[a].start \in 1..i  BY <1>1 DEF ClosedIsOwn
  <2>2. LastLine(a) \in Int /\ LastLine(a) <= i
    <3>1. CASE a < Len(out)
      <4>1. a + 1 \in DOMAIN out  BY <1>2, <3>1
      <4>2. out[a + 1].start \in 1..i  BY <1>1, <4>1 DEF ClosedIsOwn
      <4> QED  BY <1>2, <3>1, <4>2 DEF LastLine
    <3>2. CASE ~(a < Len(out))
      BY <1>1, <1>2, <3>2 DEF LastLine, OpenIsOwn
    <3> QED  BY <3>1, <3>2
  <2> QED  BY <1>2, <2>1, <2>2 DEF Lines
<1>4. cur # NoAttempt => OpenLines \subseteq 1..i
  BY <1>1, <1>2 DEF OpenIsOwn, OpenLines
<1>5. ASSUME NEW a \in DOMAIN Attempts
      PROVE  Span(a) \subseteq 1..i /\ KeptOf(Span(a), Attempts[a].reason)
  <2>1. CASE a \in DOMAIN out
    BY <1>1, <1>3, <2>1, SpanIsLines DEF ClosedIsOwn
  <2>2. CASE a \notin DOMAIN out
    <3>1. cur # NoAttempt /\ a = Len(out) + 1  BY <1>5, <2>2, SpanIsLines
    <3>2. Attempts[a] = cur /\ Span(a) = OpenLines  BY <3>1, SpanIsLines
    <3> QED  BY <1>1, <1>4, <3>1, <3>2 DEF OpenIsOwn
  <2> QED  BY <2>1, <2>2
<1>6. ASSUME NEW a \in DOMAIN Attempts
      PROVE  LET reasons == {k \in Span(a) : ReasonLine(k)}
                 best == {k \in reasons : \A x \in reasons : Better(k, x)}
             IN  IF reasons = {} THEN Attempts[a].reason = 0 ELSE best = {Attempts[a].reason}
  BY <1>5, KeptIsBest
<1> QED  BY <1>6, Zenon DEF BestReasonWins, ReasonLine, Better

\* For every log: of the reasons among its own lines an attempt keeps the
\* earliest of the best rank ("best reason wins, not the first", gpstate.go).
THEOREM BestReasonsWin == Spec => []BestReasonWins
<1>1. Init => TypeOK /\ OwnInv  BY TypeInit, OwnInit
<1>2. (TypeOK /\ OwnInv) /\ [Next]_vars => (TypeOK /\ OwnInv)'  BY TypeNext, OwnNext
<1>3. TypeOK /\ OwnInv => BestReasonWins  BY OwnImpliesReason
<1> QED  BY <1>1, <1>2, <1>3, PTL DEF Spec

----------------------------------------------------------------------------
(* The logins of an attempt (GPFlow).  The strengthening says of the stages *)
(* of an attempt that each is one its lines reach, dated by the first such  *)
(* line, and that they are all there; S stands for the lines of an attempt. *)

NamedStages == StageNames \ {""}

FirstAt(S, st, k) ==
    k \in S /\ Reaches(k, st) /\ \A x \in S : Reaches(x, st) => k <= x

\* The stages of the open attempt: only "Connected" and a HIP report pass one
\* at once, and neither is a login.
StagesTell(S, stages, seen) ==
    /\ \A x \in DOMAIN stages :
          /\ stages[x].stage \in NamedStages /\ stages[x].stage \in seen
          /\ FirstAt(S, stages[x].stage, stages[x].at)
          /\ stages[x].stage \in {"portal auth", "gateway auth"} => stages[x].status = "reached"
    /\ \A st \in seen : \E x \in DOMAIN stages : stages[x].stage = st
    /\ \A k \in S : \A st \in NamedStages : Reaches(k, st) => st \in seen

HasReason(S) == \E k \in S : ReasonLine(k)
Blames(S, st) == st = "" \/ \E k \in S : ReasonLine(k) /\ trace[k].stage = st
BlamesOnly(S, st) == \A k \in S : ReasonLine(k) => trace[k].stage \in {"", st}
PastIn(S, st) ==
    \E k \in S : \E later \in NamedStages : Reaches(k, later) /\ Position(later) > Position(st)

StatesIn(S) == {k \in S : trace[k].kind = "state"}
DropEnds(S) == \E k \in StatesIn(S) : trace[k].state = "dropped" /\ \A x \in StatesIn(S) : x <= k

\* What the result of a login says, when the states are those of the lines D.
LoginSays(S, D, st, s) ==
    /\ FirstAt(S, st, s.at)
    /\ s.status = "ok" <=> PastIn(S, st)
    /\ s.status = "failed" => HasReason(S) \/ DropEnds(D)
    /\ ~PastIn(S, st) /\ HasReason(S) /\ BlamesOnly(S, st) => s.status = "failed"

LoginTold(S, D, st, stages) ==
    /\ \A x \in DOMAIN stages : stages[x].stage = st => LoginSays(S, D, st, stages[x])
    /\ (\E k \in S : Reaches(k, st)) => \E x \in DOMAIN stages : stages[x].stage = st

LoginsTold(S, D, stages) ==
    LoginTold(S, D, "portal auth", stages) /\ LoginTold(S, D, "gateway auth", stages)

\* The names of GPStateOrder and their places.
LEMMA Positions ==
  /\ \A k \in 1..9 : GPStateOrder[k] \in NamedStages /\ Position(GPStateOrder[k]) = k
  /\ \A st \in NamedStages : Position(st) \in 1..9 /\ GPStateOrder[Position(st)] = st
  /\ Tunnel \in NamedStages /\ HIP \in NamedStages
  /\ Position("portal auth") < Position(Tunnel) /\ Position("gateway auth") < Position(Tunnel)
  /\ "portal auth" \in NamedStages /\ "gateway auth" \in NamedStages
<1>1. DOMAIN GPStateOrder = 1..9  BY DEF GPStateOrder
<1>2. /\ GPStateOrder[1] = Prelogin /\ GPStateOrder[2] = "portal auth"
      /\ GPStateOrder[3] = PortalConfig /\ GPStateOrder[4] = "network discovery"
      /\ GPStateOrder[5] = "gateway select" /\ GPStateOrder[6] = "gateway auth"
      /\ GPStateOrder[7] = Tunnel /\ GPStateOrder[8] = HIP
      /\ GPStateOrder[9] = Disconnected
  BY DEF GPStateOrder, Prelogin, PortalConfig, Tunnel, HIP, Disconnected
<1>3. /\ NamedStages = {Prelogin, "portal auth", PortalConfig, "network discovery",
                        "gateway select", "gateway auth", Tunnel, HIP, Disconnected}
  BY DEF NamedStages, StageNames, Boundaries, Prelogin, PortalConfig, Tunnel, HIP, Disconnected
<1>4. \A k \in 1..9 : k \in {1, 2, 3, 4, 5, 6, 7, 8, 9}  OBVIOUS
<1>5. \A k, l \in 1..9 : GPStateOrder[k] = GPStateOrder[l] => k = l
  BY <1>2, <1>4 DEF Prelogin, PortalConfig, Tunnel, HIP, Disconnected
<1>6. \A k \in 1..9 : GPStateOrder[k] \in NamedStages
  BY <1>2, <1>3, <1>4
<1>7. ASSUME NEW k \in 1..9
      PROVE  Position(GPStateOrder[k]) = k
  <2>1. \E x \in 1..9 : GPStateOrder[x] = GPStateOrder[k]  OBVIOUS
  <2>2. /\ Position(GPStateOrder[k]) \in 1..9
        /\ GPStateOrder[Position(GPStateOrder[k])] = GPStateOrder[k]
    BY <1>1, <2>1 DEF Position
  <2> QED  BY <1>5, <2>2
<1>8. ASSUME NEW st \in NamedStages
      PROVE  \E k \in 1..9 : GPStateOrder[k] = st
  <2>1. 1 \in 1..9 /\ 2 \in 1..9 /\ 3 \in 1..9 /\ 4 \in 1..9 /\ 5 \in 1..9 /\ 6 \in 1..9
        /\ 7 \in 1..9 /\ 8 \in 1..9 /\ 9 \in 1..9
    OBVIOUS
  <2> QED  BY <1>2, <1>3, <2>1
<1>9. \A st \in NamedStages : Position(st) \in 1..9 /\ GPStateOrder[Position(st)] = st
  BY <1>7, <1>8
<1>10. 2 \in 1..9 /\ 6 \in 1..9 /\ 7 \in 1..9  OBVIOUS
<1>11. Position("portal auth") = 2 /\ Position("gateway auth") = 6 /\ Position(Tunnel) = 7
  BY <1>2, <1>7, <1>10
<1>12. Position("portal auth") < Position(Tunnel) /\ Position("gateway auth") < Position(Tunnel)
  <2>1. 2 < 7 /\ 6 < 7  OBVIOUS
  <2> QED  BY ONLY <1>11, <2>1
<1> QED  BY <1>3, <1>6, <1>7, <1>9, <1>12

\* Furthest is a stage of the attempt, and none is behind it.
LEMMA FurthestIs ==
  ASSUME NEW a \in Attempt, NEW x \in DOMAIN a.stages,
         \A y \in DOMAIN a.stages : a.stages[y].stage \in NamedStages
  PROVE  /\ Furthest(a) \in NamedStages
         /\ \E y \in DOMAIN a.stages : a.stages[y].stage = Furthest(a)
         /\ \A y \in DOMAIN a.stages : Position(a.stages[y].stage) <= Position(Furthest(a))
<1> DEFINE T == Touched(a)
<1>1. DOMAIN GPStateOrder = 1..9  BY DEF GPStateOrder
<1>2. T \subseteq 1..9 /\ T \subseteq Nat
  <2>1. T \subseteq 1..9  BY <1>1 DEF Touched
  <2> QED  BY <2>1
<1>3. \A y \in DOMAIN a.stages : Position(a.stages[y].stage) \in T
  BY <1>1, Positions DEF Touched
<1>4. \A p \in T : \E y \in DOMAIN a.stages : a.stages[y].stage = GPStateOrder[p]
  BY DEF Touched
<1>5. Furthest(a) = IF T = {} THEN "" ELSE GPStateOrder[CHOOSE p \in T : \A q \in T : q <= p]
  BY DEF Furthest
<1> HIDE DEF T
<1>6. T # {}  BY <1>3
<1>7. \E p \in T : \A q \in T : q <= p
  <2> DEFINE U == {9 - q : q \in T}
  <2>0. \A q \in 1..9 : 9 - q \in Nat  OBVIOUS
  <2>1. U \subseteq Nat /\ U # {}  BY <1>2, <1>6, <2>0
  <2>2. PICK u \in U : \A w \in U : u <= w  BY <2>1, LeastNumber
  <2>3. PICK p \in T : u = 9 - p  BY <2>2
  <2>4. ASSUME NEW q \in T PROVE q <= p
    <3>1. 9 - p <= 9 - q  BY <2>2, <2>3
    <3>2. p \in 1..9 /\ q \in 1..9  BY <1>2
    <3> QED  BY <3>1, <3>2
  <2> QED  BY <2>4
<1>8. PICK p \in T : (\A q \in T : q <= p) /\ Furthest(a) = GPStateOrder[p]
  BY <1>5, <1>6, <1>7
<1>9. p \in 1..9 /\ Furthest(a) \in NamedStages /\ Position(Furthest(a)) = p
  BY <1>2, <1>8, Positions
<1> QED  BY <1>3, <1>4, <1>8, <1>9

\* What finishStateAttempt makes of one stage; the only one it adds is the last.
Verdict(c, outcome, s) ==
    LET p == IF s.status = "reached" /\ Position(s.stage) < Position(Furthest(c)) THEN "ok"
             ELSE s.status
    IN  IF outcome = "failed" /\ s.stage = StopAt(c) /\ p # "ok" THEN "failed" ELSE p

LEMMA PassedIs ==
  ASSUME NEW c \in Attempt
  PROVE  /\ Passed(c) \in Seq(StageResult) /\ Len(Passed(c)) = Len(c.stages)
         /\ DOMAIN Passed(c) = DOMAIN c.stages
         /\ \A x \in DOMAIN c.stages :
               /\ Passed(c)[x].stage = c.stages[x].stage /\ Passed(c)[x].at = c.stages[x].at
               /\ Passed(c)[x].status = IF /\ c.stages[x].status = "reached"
                                           /\ Position(c.stages[x].stage) < Position(Furthest(c))
                                        THEN "ok" ELSE c.stages[x].status
<1>1. c.stages \in Seq(StageResult)  BY StagesField
<1>2. Passed(c) \in Seq(StageResult)  BY PassedFacts
<1>3. DOMAIN Passed(c) = DOMAIN c.stages  BY DEF Passed
<1>4. Len(Passed(c)) = Len(c.stages)  BY <1>1, <1>2, <1>3
<1>5. ASSUME NEW x \in DOMAIN c.stages
      PROVE  /\ Passed(c)[x].stage = c.stages[x].stage /\ Passed(c)[x].at = c.stages[x].at
             /\ Passed(c)[x].status = IF /\ c.stages[x].status = "reached"
                                         /\ Position(c.stages[x].stage) < Position(Furthest(c))
                                      THEN "ok" ELSE c.stages[x].status
  <2> DEFINE s == c.stages[x]
  <2>1. s \in StageResult  BY <1>1
  <2>2. Passed(c)[x] = IF s.status = "reached" /\ Position(s.stage) < Position(Furthest(c))
                       THEN [s EXCEPT !.status = "ok"] ELSE s
    BY DEF Passed
  <2> HIDE DEF s
  <2>3. /\ [s EXCEPT !.status = "ok"].stage = s.stage /\ [s EXCEPT !.status = "ok"].at = s.at
        /\ [s EXCEPT !.status = "ok"].status = "ok"
    BY <2>1 DEF StageResult
  <2>4. /\ Passed(c)[x].stage = s.stage /\ Passed(c)[x].at = s.at
        /\ Passed(c)[x].status = IF s.status = "reached" /\ Position(s.stage) < Position(Furthest(c))
                                 THEN "ok" ELSE s.status
    BY <2>2, <2>3
  <2> QED  BY <2>4 DEF s
<1> QED  BY <1>2, <1>3, <1>4, <1>5

LEMMA StoppedIs ==
  ASSUME NEW s \in Seq(StageResult), NEW st
  PROVE  /\ DOMAIN Stopped(s, st) = DOMAIN s
         /\ \A x \in DOMAIN s :
               /\ Stopped(s, st)[x].stage = s[x].stage /\ Stopped(s, st)[x].at = s[x].at
               /\ Stopped(s, st)[x].status =
                     IF s[x].stage = st /\ s[x].status # "ok" THEN "failed" ELSE s[x].status
<1>1. DOMAIN Stopped(s, st) = DOMAIN s  BY DEF Stopped
<1>2. ASSUME NEW x \in DOMAIN s
      PROVE  /\ Stopped(s, st)[x].stage = s[x].stage /\ Stopped(s, st)[x].at = s[x].at
             /\ Stopped(s, st)[x].status =
                   IF s[x].stage = st /\ s[x].status # "ok" THEN "failed" ELSE s[x].status
  <2> DEFINE r == s[x]
  <2>1. r \in StageResult  OBVIOUS
  <2>2. Stopped(s, st)[x] = IF r.stage = st /\ r.status # "ok" THEN [r EXCEPT !.status = "failed"] ELSE r
    BY DEF Stopped
  <2> HIDE DEF r
  <2>3. /\ [r EXCEPT !.status = "failed"].stage = r.stage /\ [r EXCEPT !.status = "failed"].at = r.at
        /\ [r EXCEPT !.status = "failed"].status = "failed"
    BY <2>1 DEF StageResult
  <2>4. /\ Stopped(s, st)[x].stage = r.stage /\ Stopped(s, st)[x].at = r.at
        /\ Stopped(s, st)[x].status = IF r.stage = st /\ r.status # "ok" THEN "failed" ELSE r.status
    BY <2>2, <2>3
  <2> QED  BY <2>4 DEF r
<1> QED  BY <1>1, <1>2

FinishedAs(c, outcome, fs) ==
    /\ \A x \in DOMAIN c.stages :
          /\ x \in DOMAIN fs /\ fs[x].stage = c.stages[x].stage /\ fs[x].at = c.stages[x].at
          /\ fs[x].status = Verdict(c, outcome, c.stages[x])
    /\ \A x \in DOMAIN fs : x \in DOMAIN c.stages \/ fs[x].stage = Disconnected

LEMMA FinishedStages ==
  ASSUME NEW c \in Attempt, NEW end \in Nat, NEW last
  PROVE  FinishedAs(c, Outcome(c, last = "dropped"), Finish(c, end, last).stages)
<1> DEFINE outcome == Outcome(c, last = "dropped")
           fs == Finish(c, end, last).stages
           dropped == last = "dropped"
           ws == WithTerminal(c, end, dropped)
           n == Len(c.stages)
           z == StageResultOf(Disconnected, "failed", end)
<1>1. fs = IF outcome = "failed" THEN Stopped(ws, StopAt(c)) ELSE ws
  BY DEF Finish, Attempt
<1>2. /\ Passed(c) \in Seq(StageResult) /\ Len(Passed(c)) = n /\ DOMAIN Passed(c) = DOMAIN c.stages
      /\ n \in Nat /\ DOMAIN c.stages = 1..n
  BY PassedIs, StagesField
<1>3. ws = IF dropped \/ outcome = "failed" THEN Append(Passed(c), z) ELSE Passed(c)
  BY DEF WithTerminal
<1>4. z \in StageResult /\ z.stage = Disconnected
  BY DEF StageResultOf, StageResult, StageNames
<1> HIDE DEF z, n, ws, fs, outcome
<1>5. /\ ws \in Seq(StageResult)
      /\ \A x \in 1..n : x \in DOMAIN ws /\ ws[x] = Passed(c)[x]
      /\ \A x \in DOMAIN ws : x \in 1..n \/ ws[x].stage = Disconnected
  <2>1. CASE dropped \/ outcome = "failed"
    <3>1. ws = Append(Passed(c), z)  BY <1>3, <2>1
    <3>2. /\ Append(Passed(c), z) \in Seq(StageResult) /\ DOMAIN Append(Passed(c), z) = 1..n+1
          /\ Append(Passed(c), z)[n + 1] = z
          /\ \A x \in 1..n : Append(Passed(c), z)[x] = Passed(c)[x]
      BY <1>2, <1>4, AppendProperties
    <3>3. \A x \in 1..n+1 : x \in 1..n \/ x = n + 1  BY <1>2
    <3>4. \A x \in 1..n : x \in 1..n+1  BY <1>2
    <3> QED  BY <1>4, <3>1, <3>2, <3>3, <3>4
  <2>2. CASE ~(dropped \/ outcome = "failed")
    BY <1>2, <1>3, <2>2
  <2> QED  BY <2>1, <2>2
<1>6. ASSUME NEW x \in DOMAIN c.stages
      PROVE  /\ x \in DOMAIN fs /\ fs[x].stage = c.stages[x].stage /\ fs[x].at = c.stages[x].at
             /\ fs[x].status = Verdict(c, outcome, c.stages[x])
  <2> DEFINE s == c.stages[x]
             p == IF s.status = "reached" /\ Position(s.stage) < Position(Furthest(c)) THEN "ok"
                  ELSE s.status
  <2>1. /\ x \in DOMAIN ws /\ ws[x].stage = s.stage /\ ws[x].at = s.at /\ ws[x].status = p
    BY <1>2, <1>5, PassedIs
  <2>2. Verdict(c, outcome, s) =
            IF outcome = "failed" /\ s.stage = StopAt(c) /\ p # "ok" THEN "failed" ELSE p
    BY DEF Verdict
  <2> HIDE DEF s, p
  <2>3. CASE outcome = "failed"
    <3>1. fs = Stopped(ws, StopAt(c))  BY <1>1, <2>3
    <3>2. /\ x \in DOMAIN fs /\ fs[x].stage = ws[x].stage /\ fs[x].at = ws[x].at
          /\ fs[x].status = IF ws[x].stage = StopAt(c) /\ ws[x].status # "ok" THEN "failed"
                            ELSE ws[x].status
      BY <1>5, <2>1, <3>1, StoppedIs
    <3>3. fs[x].status = Verdict(c, outcome, s)
      BY <2>1, <2>2, <2>3, <3>2
    <3> QED  BY <2>1, <3>2, <3>3 DEF s
  <2>4. CASE outcome # "failed"
    BY <1>1, <2>1, <2>2, <2>4 DEF s
  <2> QED  BY <2>3, <2>4
<1>7. ASSUME NEW x \in DOMAIN fs
      PROVE  x \in DOMAIN c.stages \/ fs[x].stage = Disconnected
  <2>1. x \in DOMAIN ws /\ fs[x].stage = ws[x].stage
    <3>1. CASE outcome = "failed"
      BY <1>1, <1>5, <3>1, StoppedIs
    <3>2. CASE outcome # "failed"
      BY <1>1, <3>2
    <3> QED  BY <3>1, <3>2
  <2> QED  BY <1>2, <1>5, <2>1
<1>8. FinishedAs(c, outcome, fs)  BY <1>6, <1>7 DEF FinishedAs
<1> QED  BY <1>8 DEF outcome, fs

LEMMA PositionNumbers == \A s \in NamedStages : Position(s) \in Int
<1>1. \A k \in 1..9 : k \in Int  OBVIOUS
<1> QED  BY <1>1, Positions

LEMMA Beyond == \A p, q, r \in Int : q > p /\ q <= r => p < r
  OBVIOUS

LEMMA NotBefore == \A p, q \in Int : p <= q /\ ~(p < q) => p = q
  OBVIOUS

\* A login of a closed attempt is told by the attempt's lines.
LEMMA FinishTells ==
  ASSUME NEW c \in Attempt, NEW S, NEW D, NEW seen, NEW end \in Nat, NEW last,
         StagesTell(S, c.stages, seen),
         connected <=> \E k \in S : ConnectedLine(k),
         c.reason # 0 <=> HasReason(S), Blames(S, c.failStage),
         last = "dropped" => DropEnds(D),
         NEW st \in {"portal auth", "gateway auth"}
  PROVE  LoginTold(S, D, st, Finish(c, end, last).stages)
<1> DEFINE fs == Finish(c, end, last).stages
           outcome == Outcome(c, last = "dropped")
           dropped == last = "dropped"
<1>1. /\ \A x \in DOMAIN c.stages :
            /\ x \in DOMAIN fs /\ fs[x].stage = c.stages[x].stage /\ fs[x].at = c.stages[x].at
            /\ fs[x].status = Verdict(c, outcome, c.stages[x])
      /\ \A x \in DOMAIN fs : x \in DOMAIN c.stages \/ fs[x].stage = Disconnected
  <2>1. FinishedAs(c, outcome, fs)  BY FinishedStages
  <2> HIDE DEF fs, outcome
  <2> QED  BY <2>1 DEF FinishedAs
<1>2. outcome = IF connected THEN "connected"
                ELSE IF dropped \/ c.reason # 0 THEN "failed" ELSE "incomplete"
  BY DEF Outcome
<1> HIDE DEF fs, outcome
<1>3. /\ \A x \in DOMAIN c.stages :
            /\ c.stages[x].stage \in NamedStages /\ c.stages[x].stage \in seen
            /\ FirstAt(S, c.stages[x].stage, c.stages[x].at)
            /\ c.stages[x].stage \in {"portal auth", "gateway auth"} => c.stages[x].status = "reached"
      /\ \A s \in seen : \E x \in DOMAIN c.stages : c.stages[x].stage = s
      /\ \A k \in S : \A s \in NamedStages : Reaches(k, s) => s \in seen
  BY DEF StagesTell
<1>4. st \in NamedStages /\ st # Disconnected /\ Position(st) \in 1..9
      /\ Tunnel \in NamedStages /\ Position(st) < Position(Tunnel) /\ Position(Tunnel) \in 1..9
  BY Positions DEF Disconnected
<1>5. ASSUME NEW x \in DOMAIN fs, fs[x].stage = st
      PROVE  LoginSays(S, D, st, fs[x])
  <2> DEFINE far == Furthest(c)
             v == fs[x].status
             blamed == StopAt(c)
  <2>1. /\ x \in DOMAIN c.stages /\ c.stages[x].stage = st /\ FirstAt(S, st, fs[x].at)
        /\ c.stages[x].status = "reached"
    BY <1>1, <1>3, <1>4, <1>5
  <2>2. v = LET p == IF Position(st) < Position(far) THEN "ok" ELSE "reached"
            IN  IF outcome = "failed" /\ st = blamed /\ p # "ok" THEN "failed" ELSE p
    BY <1>1, <2>1 DEF Verdict
  <2>3. /\ far \in NamedStages /\ Position(far) \in 1..9
        /\ \E y \in DOMAIN c.stages : c.stages[y].stage = far
        /\ \A y \in DOMAIN c.stages : Position(c.stages[y].stage) <= Position(far)
    BY <1>3, <2>1, FurthestIs, Positions
  <2>4. blamed = IF c.failStage # "" THEN c.failStage ELSE far
    BY DEF StopAt
  <2> HIDE DEF far, v, blamed
  <2>5. PastIn(S, st) <=> Position(st) < Position(far)
    <3>1. ASSUME Position(st) < Position(far) PROVE PastIn(S, st)
      <4>1. PICK y \in DOMAIN c.stages : c.stages[y].stage = far  BY <2>3
      <4>2. FirstAt(S, far, c.stages[y].at)  BY <1>3, <4>1
      <4>3. Position(far) > Position(st)  BY <1>4, <2>3, <3>1
      <4> QED  BY <2>3, <4>2, <4>3 DEF PastIn, FirstAt
    <3>2. ASSUME PastIn(S, st) PROVE Position(st) < Position(far)
      <4>1. PICK k \in S, later \in NamedStages : Reaches(k, later) /\ Position(later) > Position(st)
        BY <3>2 DEF PastIn
      <4>2. PICK y \in DOMAIN c.stages : c.stages[y].stage = later  BY <1>3, <4>1
      <4>3. Position(later) <= Position(far) /\ Position(later) \in 1..9  BY <2>3, <4>2, Positions
      <4>4. Position(st) \in Int /\ Position(later) \in Int /\ Position(far) \in Int
        BY ONLY <1>4, <2>3, <4>1, PositionNumbers
      <4> QED  BY ONLY <4>1, <4>3, <4>4, Beyond
    <3> QED  BY <3>1, <3>2
  <2>6. v = "ok" <=> PastIn(S, st)
    BY <2>2, <2>5
  <2>7. v = "failed" => HasReason(S) \/ DropEnds(D)
    <3>1. v = "failed" => outcome = "failed"  BY <2>2
    <3> QED  BY <1>2, <3>1
  <2>8. ASSUME ~PastIn(S, st), HasReason(S), BlamesOnly(S, st)
        PROVE  v = "failed"
    <3>1. ~connected
      <4>1. SUFFICES ASSUME NEW k \in S, ConnectedLine(k) PROVE FALSE
        OBVIOUS
      <4>2. Reaches(k, Tunnel)  BY <4>1 DEF Reaches, ConnectedLine
      <4>3. Position(Tunnel) > Position(st)  BY <1>4
      <4> QED  BY <1>4, <2>8, <4>2, <4>3 DEF PastIn
    <3>2. outcome = "failed"  BY <1>2, <2>8, <3>1
    <3>3. far = st
      <4>1. Position(st) <= Position(far) /\ ~(Position(st) < Position(far))
        BY <2>1, <2>3, <2>5, <2>8
      <4>2. Position(st) = Position(far)
        <5>1. Position(st) \in Int /\ Position(far) \in Int  BY ONLY <1>4, <2>3, PositionNumbers
        <5> QED  BY ONLY <4>1, <5>1, NotBefore
      <4> QED  BY <1>4, <2>3, <4>2, Positions
    <3>4. blamed = st
      <4>1. c.failStage # "" => c.failStage = st  BY <2>8 DEF Blames, BlamesOnly
      <4> QED  BY <2>4, <3>3, <4>1
    <3> QED  BY <2>2, <2>5, <2>8, <3>2, <3>4
  <2> QED  BY <2>1, <2>6, <2>7, <2>8 DEF LoginSays, v
<1>6. ASSUME NEW k \in S, Reaches(k, st)
      PROVE  \E x \in DOMAIN fs : fs[x].stage = st
  BY <1>1, <1>3, <1>4, <1>6
<1> QED  BY <1>5, <1>6 DEF LoginTold, fs

----------------------------------------------------------------------------
(* The invariant: every closed attempt tells its logins, and the open one  *)
(* has the stages its lines reach; lastState can be older than an attempt  *)
(* only for the first one.                                                 *)

StatesSoFar == (IF out = <<>> THEN 1 ELSE cur.start) .. i
ClosedStates(a) == (IF a = 1 THEN 1 ELSE out[a].start) .. LastLine(a)

ClosedTells(a) ==
    \A S, D, stages :
        S = Lines(a) /\ D = ClosedStates(a) /\ stages = out[a].stages => LoginsTold(S, D, stages)

OpenTells ==
    \A S, stages, seen, blamed :
        S = OpenLines /\ stages = cur.stages /\ seen = seenStage /\ blamed = cur.failStage
        => StagesTell(S, stages, seen) /\ Blames(S, blamed)

LastTells == \A D : D = StatesSoFar /\ lastState = "dropped" => DropEnds(D)

\* Attempts start one after the other.
Ordered ==
    /\ \A a, b \in DOMAIN out : a < b => out[a].start < out[b].start
    /\ cur # NoAttempt => \A a \in DOMAIN out : out[a].start < cur.start

TellsInv ==
    /\ \A a \in DOMAIN out : ClosedTells(a)
    /\ cur # NoAttempt => OpenTells
    /\ ~done => LastTells
    /\ Ordered

\* What lines say does not change.
LEMMA SameWords ==
  ASSUME trace' = trace
  PROVE  /\ \A S, D, stages : LoginsTold(S, D, stages)' <=> LoginsTold(S, D, stages)
         /\ \A S, stages, seen : StagesTell(S, stages, seen)' <=> StagesTell(S, stages, seen)
         /\ \A S, st : Blames(S, st)' <=> Blames(S, st)
         /\ \A S : DropEnds(S)' <=> DropEnds(S)
<1>1. \A k, st : Reaches(k, st)' <=> Reaches(k, st)  BY DEF Reaches, TeardownFollows
<1>2. \A k : ReasonLine(k)' <=> ReasonLine(k)  BY DEF ReasonLine
<1>3. \A S, st, k : FirstAt(S, st, k)' <=> FirstAt(S, st, k)  BY <1>1 DEF FirstAt
<1>4. \A S, st : PastIn(S, st)' <=> PastIn(S, st)  BY <1>1 DEF PastIn
<1>5. \A S : HasReason(S)' <=> HasReason(S)  BY <1>2 DEF HasReason
<1>6. \A S, st : BlamesOnly(S, st)' <=> BlamesOnly(S, st)  BY <1>2 DEF BlamesOnly
<1>7. \A S, st : Blames(S, st)' <=> Blames(S, st)  BY <1>2 DEF Blames
<1>8. \A S : DropEnds(S)' <=> DropEnds(S)  BY DEF DropEnds, StatesIn
<1>9. \A S, D, st, s : LoginSays(S, D, st, s)' <=> LoginSays(S, D, st, s)
  <2>1. ASSUME NEW S, NEW D, NEW st, NEW s
        PROVE  LoginSays(S, D, st, s)' <=> LoginSays(S, D, st, s)
    <3>1. FirstAt(S, st, s.at)' <=> FirstAt(S, st, s.at)
      BY <1>1 DEF FirstAt
    <3>2. (PastIn(S, st)' <=> PastIn(S, st)) /\ (HasReason(S)' <=> HasReason(S))
      BY <1>4, <1>5
    <3>3. (BlamesOnly(S, st)' <=> BlamesOnly(S, st)) /\ (DropEnds(D)' <=> DropEnds(D))
      BY <1>6, <1>8
    <3> QED  BY <3>1, <3>2, <3>3 DEF LoginSays
  <2> QED  BY <2>1
<1>10. \A S, D, st, stages : LoginTold(S, D, st, stages)' <=> LoginTold(S, D, st, stages)
  BY <1>1, <1>9, Zenon DEF LoginTold
<1>11. \A S, D, stages : LoginsTold(S, D, stages)' <=> LoginsTold(S, D, stages)
  BY <1>10, Zenon DEF LoginsTold
<1>12. \A S, stages, seen : StagesTell(S, stages, seen)' <=> StagesTell(S, stages, seen)
  BY <1>1, <1>3, Zenon DEF StagesTell
<1> QED  BY <1>7, <1>8, <1>11, <1>12

----------------------------------------------------------------------------
(* The stages of the open attempt, one line further.                       *)

LEMMA FirstStays ==
  ASSUME NEW S, NEW k \in Int, \A x \in S : x \in Int /\ x < k
  PROVE  \A st, at : FirstAt(S, st, at) => FirstAt(S \cup {k}, st, at)
<1>1. ASSUME NEW st, NEW at, FirstAt(S, st, at) PROVE FirstAt(S \cup {k}, st, at)
  <2>1. at \in S /\ Reaches(at, st) /\ \A x \in S : Reaches(x, st) => at <= x
    BY <1>1 DEF FirstAt
  <2>2. at <= k  BY <2>1
  <2> QED  BY <2>1, <2>2 DEF FirstAt
<1> QED  BY <1>1

LEMMA OneFurther ==
  \A n \in Nat : /\ \A x \in 1..n+1 : x \in 1..n \/ x = n + 1
                 /\ \A x \in 1..n : x \in 1..n+1
                 /\ n + 1 \in 1..n+1
  OBVIOUS

LEMMA NothingNew ==
  ASSUME NEW S, NEW k \in Int, \A x \in S : x \in Int /\ x < k,
         NEW stages, NEW seen, StagesTell(S, stages, seen),
         \A st \in NamedStages : Reaches(k, st) => st \in seen
  PROVE  StagesTell(S \cup {k}, stages, seen)
<1>1. /\ \A x \in DOMAIN stages :
            /\ stages[x].stage \in NamedStages /\ stages[x].stage \in seen
            /\ FirstAt(S, stages[x].stage, stages[x].at)
            /\ stages[x].stage \in {"portal auth", "gateway auth"} => stages[x].status = "reached"
      /\ \A st \in seen : \E x \in DOMAIN stages : stages[x].stage = st
      /\ \A x \in S : \A st \in NamedStages : Reaches(x, st) => st \in seen
  BY DEF StagesTell
<1>2. \A st, at : FirstAt(S, st, at) => FirstAt(S \cup {k}, st, at)
  BY FirstStays
<1>3. \A x \in S \cup {k} : \A st \in NamedStages : Reaches(x, st) => st \in seen
  BY <1>1
<1> QED  BY <1>1, <1>2, <1>3, Zenon DEF StagesTell

IsLogin(st) == st \in {"portal auth", "gateway auth"}

LEMMA OneNew ==
  ASSUME NEW S, NEW k \in Nat, \A x \in S : x \in Int /\ x < k,
         NEW stages \in Seq(StageResult), NEW seen, StagesTell(S, stages, seen),
         NEW st \in NamedStages, st \notin seen, NEW status \in {"reached", "ok", "failed"},
         IsLogin(st) => status = "reached",
         Reaches(k, st), \A s \in NamedStages : Reaches(k, s) => s = st
  PROVE  StagesTell(S \cup {k}, Append(stages, StageResultOf(st, status, k)), seen \cup {st})
<1> DEFINE z == StageResultOf(st, status, k)
           more == Append(stages, z)
           n == Len(stages)
<1>1. z \in StageResult /\ z.stage = st /\ z.at = k /\ z.status = status
  BY DEF StageResultOf, StageResult, NamedStages
<1> HIDE DEF z
<1>2. /\ n \in Nat /\ DOMAIN stages = 1..n /\ DOMAIN more = 1..n+1 /\ more[n + 1] = z
      /\ \A x \in 1..n : more[x] = stages[x]
  <2>1. n \in Nat /\ DOMAIN stages = 1..n  OBVIOUS
  <2>2. more = Append(stages, z)  OBVIOUS
  <2> HIDE DEF more
  <2>3. Len(more) = n + 1 /\ more[n + 1] = z /\ \A x \in 1..n : more[x] = stages[x]
    BY <1>1, <2>2, AppendProperties
  <2>4. more \in Seq(StageResult)  BY <1>1, <2>2, AppendProperties
  <2>5. DOMAIN more = 1..Len(more)  BY <2>4
  <2> QED  BY <2>1, <2>3, <2>5
<1>3. (\A x \in 1..n+1 : x \in 1..n \/ x = n + 1) /\ (\A x \in 1..n : x \in 1..n+1) /\ n + 1 \in 1..n+1
  <2> HIDE DEF n
  <2> QED  BY <1>2, OneFurther
<1> HIDE DEF more, n
<1>4. /\ \A x \in DOMAIN stages :
            /\ stages[x].stage \in NamedStages /\ stages[x].stage \in seen
            /\ FirstAt(S, stages[x].stage, stages[x].at)
            /\ stages[x].stage \in {"portal auth", "gateway auth"} => stages[x].status = "reached"
      /\ \A s \in seen : \E x \in DOMAIN stages : stages[x].stage = s
      /\ \A x \in S : \A s \in NamedStages : Reaches(x, s) => s \in seen
  BY DEF StagesTell
<1>5. \A s, at : FirstAt(S, s, at) => FirstAt(S \cup {k}, s, at)
  <2>1. k \in Int  OBVIOUS
  <2> QED  BY <2>1, FirstStays
<1>6. FirstAt(S \cup {k}, st, k)
  <2>1. Reaches(k, st) /\ \A x \in S : ~Reaches(x, st)  BY <1>4
  <2> QED  BY <2>1 DEF FirstAt
<1>7. \A x \in DOMAIN more :
         /\ more[x].stage \in NamedStages /\ more[x].stage \in seen \cup {st}
         /\ FirstAt(S \cup {k}, more[x].stage, more[x].at)
         /\ more[x].stage \in {"portal auth", "gateway auth"} => more[x].status = "reached"
  <2>1. ASSUME NEW x \in DOMAIN more
        PROVE  /\ more[x].stage \in NamedStages /\ more[x].stage \in seen \cup {st}
               /\ FirstAt(S \cup {k}, more[x].stage, more[x].at)
               /\ more[x].stage \in {"portal auth", "gateway auth"} => more[x].status = "reached"
    <3>1. CASE x \in 1..n
      <4>1. x \in DOMAIN stages /\ more[x] = stages[x]  BY <1>2, <3>1
      <4> QED  BY <1>4, <1>5, <4>1
    <3>2. CASE x = n + 1
      <4>1. more[x] = z  BY <1>2, <3>2
      <4> QED  BY <1>1, <1>6, <4>1 DEF IsLogin
    <3> QED  BY <1>2, <1>3, <3>1, <3>2
  <2> QED  BY <2>1
<1>8. \A s \in seen \cup {st} : \E x \in DOMAIN more : more[x].stage = s
  <2>1. ASSUME NEW s \in seen PROVE \E x \in DOMAIN more : more[x].stage = s
    <3>1. PICK x \in DOMAIN stages : stages[x].stage = s  BY <1>4
    <3>2. x \in DOMAIN more /\ more[x] = stages[x]  BY <1>2, <1>3
    <3> QED  BY <3>1, <3>2
  <2>2. n + 1 \in DOMAIN more /\ more[n + 1].stage = st  BY <1>1, <1>2, <1>3
  <2> QED  BY <2>1, <2>2
<1>9. \A x \in S \cup {k} : \A s \in NamedStages : Reaches(x, s) => s \in seen \cup {st}
  BY <1>4
<1>10. StagesTell(S \cup {k}, more, seen \cup {st})
  BY <1>7, <1>8, <1>9, Zenon DEF StagesTell
<1> QED  BY <1>10 DEF more, z

LEMMA NoneYet == StagesTell({}, <<>>, {})
<1>1. \A x \in DOMAIN <<>> : FALSE  OBVIOUS
<1> QED  BY <1>1 DEF StagesTell

LEMMA BlamesMore ==
  ASSUME NEW S, NEW T, S \subseteq T, NEW st, Blames(S, st)
  PROVE  Blames(T, st)
  BY DEF Blames

\* The last state was a drop, and the next line is no state, or is a drop.
LEMMA DropsMore ==
  ASSUME NEW S, NEW k \in Int, \A x \in S : x \in Int /\ x < k,
         \/ DropEnds(S) /\ trace[k].kind # "state"
         \/ trace[k].kind = "state" /\ trace[k].state = "dropped"
  PROVE  DropEnds(S \cup {k})
<1>1. CASE DropEnds(S) /\ trace[k].kind # "state"
  <2>1. StatesIn(S \cup {k}) = StatesIn(S)  BY <1>1 DEF StatesIn
  <2> QED  BY <1>1, <2>1 DEF DropEnds
<1>2. CASE trace[k].kind = "state" /\ trace[k].state = "dropped"
  <2>1. k \in StatesIn(S \cup {k}) /\ \A x \in StatesIn(S \cup {k}) : x <= k
    BY <1>2 DEF StatesIn
  <2> QED  BY <1>2, <2>1 DEF DropEnds
<1> QED  BY <1>1, <1>2

----------------------------------------------------------------------------
(* Lines, attempts and the end of the log.                                 *)

\* The lines an attempt has when it is open.
LEMMA OpenBounds ==
  ASSUME TypeOK, OwnInv, ~done
  PROVE  /\ i \in Nat /\ i + 1 \in Nat /\ i + 1 \in Int
         /\ cur # NoAttempt => /\ cur \in Attempt /\ cur.start \in 1..i
                               /\ OpenLines \subseteq 1..i
         /\ cur = NoAttempt => out = <<>>
         /\ StatesSoFar \subseteq 1..i
         /\ \A a \in DOMAIN out : out[a].start \in 1..i
         /\ \A x \in 1..i : x \in Int /\ x < i + 1
<1>1. i \in Nat  BY Counted
<1>2. ASSUME cur # NoAttempt
      PROVE  cur \in Attempt /\ cur.start \in 1..i /\ OpenLines \subseteq 1..i
  <2>1. cur \in Attempt /\ cur.start \in 1..i  BY <1>2, LocalTypes DEF OwnInv, OpenIsOwn
  <2> QED  BY <1>1, <2>1 DEF OpenLines
<1>3. cur = NoAttempt => out = <<>>  BY DEF OwnInv
<1>4. StatesSoFar \subseteq 1..i
  <2>1. CASE out = <<>>
    BY <1>1, <2>1 DEF StatesSoFar
  <2>2. CASE out # <<>>
    <3>1. cur.start \in 1..i  BY <1>2, <1>3, <2>2
    <3> QED  BY <1>1, <2>2, <3>1 DEF StatesSoFar
  <2> QED  BY <2>1, <2>2
<1>5. \A a \in DOMAIN out : out[a].start \in 1..i  BY DEF OwnInv, ClosedIsOwn
<1>6. i + 1 \in Nat /\ i + 1 \in Int /\ \A x \in 1..i : x \in Int /\ x < i + 1  BY <1>1
<1> QED  BY <1>1, <1>2, <1>3, <1>4, <1>5, <1>6

\* The open attempt, if it closes now.
LEMMA ClosedNow ==
  ASSUME TypeOK, OwnInv, TellsInv, ~done, cur # NoAttempt,
         NEW end \in Nat, NEW last, last = "dropped" => lastState = "dropped"
  PROVE  LoginsTold(OpenLines, StatesSoFar, Finish(cur, end, last).stages)
<1>1. cur \in Attempt /\ OpenIsOwn /\ OpenLines \subseteq 1..i /\ i \in Nat
  BY OpenBounds DEF OwnInv
<1>2. StagesTell(OpenLines, cur.stages, seenStage) /\ Blames(OpenLines, cur.failStage)
  BY DEF TellsInv, OpenTells
<1>3. last = "dropped" => DropEnds(StatesSoFar)
  BY DEF TellsInv, LastTells
<1>4. connected <=> \E k \in OpenLines : ConnectedLine(k)
  BY <1>1 DEF OpenIsOwn
<1>5. cur.reason # 0 <=> HasReason(OpenLines)
  <2>1. 0 \notin OpenLines  BY <1>1
  <2>2. KeptOf(OpenLines, cur.reason)  BY <1>1 DEF OpenIsOwn
  <2> QED  BY <2>1, <2>2 DEF KeptOf, HasReason
<1>6. \A st \in {"portal auth", "gateway auth"} :
         LoginTold(OpenLines, StatesSoFar, st, Finish(cur, end, last).stages)
  BY <1>1, <1>2, <1>3, <1>4, <1>5, FinishTells
<1> QED  BY <1>6 DEF LoginsTold

\* Closing an attempt leaves the lines of those before it alone.
LEMMA LinesStay ==
  ASSUME TypeOK, OwnInv, ~done, cur # NoAttempt,
         NEW f \in Attempt, f.start = cur.start, out' = Append(out, f),
         \/ cur' = NoAttempt /\ i' = i
         \/ cur' # NoAttempt /\ i' = i + 1 /\ cur'.start = i + 1
  PROVE  /\ DOMAIN out' = DOMAIN out \cup {Len(out) + 1} /\ Len(out') = Len(out) + 1
         /\ out'[Len(out) + 1] = f
         /\ \A a \in DOMAIN out :
               out'[a] = out[a] /\ Lines(a)' = Lines(a) /\ ClosedStates(a)' = ClosedStates(a)
         /\ \A a : a = Len(out) + 1 => Lines(a)' = OpenLines /\ ClosedStates(a)' = StatesSoFar
<1>1. /\ DOMAIN out' = DOMAIN out \cup {Len(out) + 1} /\ Len(out') = Len(out) + 1
      /\ \A b \in DOMAIN out : out'[b] = out[b]
      /\ out'[Len(out) + 1] = f /\ DOMAIN out = 1..Len(out) /\ Len(out) \in Nat
  <2>1. out \in Seq(Attempt)  BY LocalTypes
  <2> QED  BY <2>1, AppendedLen, Counted
<1>2. i \in Nat /\ cur.start \in Int  BY OpenBounds
<1>3. ASSUME NEW a \in DOMAIN out
      PROVE  LastLine(a)' = LastLine(a)
  <2>1. CASE a < Len(out)
    <3>1. a + 1 \in DOMAIN out /\ a < Len(out')  BY <1>1, <2>1
    <3> QED  BY <1>1, <2>1, <3>1 DEF LastLine
  <2>2. CASE ~(a < Len(out))
    <3>1. a = Len(out) /\ a < Len(out')  BY <1>1, <2>2
    <3> QED  BY <1>1, <2>2, <3>1 DEF LastLine
  <2> QED  BY <2>1, <2>2
<1>4. ASSUME NEW a \in DOMAIN out
      PROVE  Lines(a)' = Lines(a) /\ ClosedStates(a)' = ClosedStates(a)
  BY <1>1, <1>3 DEF Lines, ClosedStates
<1>5. ASSUME NEW a, a = Len(out) + 1
      PROVE  Lines(a)' = OpenLines /\ ClosedStates(a)' = StatesSoFar
  <2>1. ~(a < Len(out')) /\ out'[a] = f  BY <1>1, <1>5
  <2>2. LastLine(a)' = i  BY <1>2, <2>1 DEF LastLine
  <2>3. a = 1 <=> out = <<>>
    <3>1. out = <<>> <=> Len(out) = 0
      <4>1. out \in Seq(Attempt)  BY LocalTypes
      <4> QED  BY <4>1, EmptySeq
    <3> QED  BY <1>1, <1>5, <3>1
  <2>4. Lines(a)' = OpenLines  BY <2>1, <2>2 DEF Lines, OpenLines
  <2>5. ClosedStates(a)' = StatesSoFar
    BY <2>1, <2>2, <2>3 DEF ClosedStates, StatesSoFar
  <2> QED  BY <2>4, <2>5
<1> QED  BY <1>1, <1>4, <1>5

LEMMA ClosedTellMore ==
  ASSUME TypeOK, OwnInv, TellsInv, ~done, cur # NoAttempt, trace' = trace,
         NEW end \in Nat, NEW last, last = "dropped" => lastState = "dropped",
         out' = Append(out, Finish(cur, end, last)),
         \/ cur' = NoAttempt /\ i' = i
         \/ cur' # NoAttempt /\ i' = i + 1 /\ cur'.start = i + 1
  PROVE  /\ \A a \in DOMAIN out' : ClosedTells(a)'
         /\ Ordered'
<1> DEFINE f == Finish(cur, end, last)
<1>1. cur \in Attempt /\ cur.start \in 1..i /\ i \in Nat
      /\ \A a \in DOMAIN out : out[a].start \in 1..i
  BY OpenBounds
<1>2. f \in Attempt /\ f.start = cur.start
  <2>1. f \in Attempt  BY <1>1, FinishFacts
  <2>2. f.start = cur.start  BY <1>1 DEF Finish, Attempt
  <2> QED  BY <2>1, <2>2
<1>3. LoginsTold(OpenLines, StatesSoFar, f.stages)
  BY ClosedNow
<1>4. out' = Append(out, f)  OBVIOUS
<1> HIDE DEF f
<1>5. /\ DOMAIN out' = DOMAIN out \cup {Len(out) + 1} /\ Len(out') = Len(out) + 1
      /\ out'[Len(out) + 1] = f
      /\ \A a \in DOMAIN out :
            out'[a] = out[a] /\ Lines(a)' = Lines(a) /\ ClosedStates(a)' = ClosedStates(a)
      /\ \A a : a = Len(out) + 1 => Lines(a)' = OpenLines /\ ClosedStates(a)' = StatesSoFar
  BY <1>2, <1>4, LinesStay
<1>6. \A S, D, stages : LoginsTold(S, D, stages)' <=> LoginsTold(S, D, stages)
  BY SameWords
<1>7. ASSUME NEW a \in DOMAIN out' PROVE ClosedTells(a)'
  <2>1. SUFFICES ASSUME NEW S, NEW D, NEW stages,
                        S = Lines(a)', D = ClosedStates(a)', stages = out'[a].stages
                 PROVE  LoginsTold(S, D, stages)'
    BY DEF ClosedTells
  <2>2. LoginsTold(S, D, stages)
    <3>1. CASE a \in DOMAIN out
      <4>1. ClosedTells(a)  BY <3>1 DEF TellsInv
      <4>2. S = Lines(a) /\ D = ClosedStates(a) /\ stages = out[a].stages
        BY <1>5, <2>1, <3>1
      <4> QED  BY <4>1, <4>2 DEF ClosedTells
    <3>2. CASE a = Len(out) + 1
      <4>1. S = OpenLines /\ D = StatesSoFar /\ stages = f.stages  BY <1>5, <2>1, <3>2
      <4> QED  BY <1>3, <4>1
    <3> QED  BY <1>5, <3>1, <3>2
  <2> QED  BY <1>6, <2>2
<1>8. Ordered'
  <2>1. DOMAIN out = 1..Len(out) /\ Len(out) \in Nat  BY Counted
  <2>2. \A a, b \in DOMAIN out : a < b => out[a].start < out[b].start
    BY DEF TellsInv, Ordered
  <2>3. \A a \in DOMAIN out : out[a].start < cur.start
    BY DEF TellsInv, Ordered
  <2>4. ASSUME NEW a \in DOMAIN out', NEW b \in DOMAIN out', a < b
        PROVE  out'[a].start < out'[b].start
    <3>1. a \in DOMAIN out  BY <1>5, <2>1, <2>4
    <3>2. CASE b \in DOMAIN out
      BY <1>5, <2>2, <2>4, <3>1, <3>2
    <3>3. CASE b = Len(out) + 1
      BY <1>2, <1>5, <2>3, <3>1, <3>3
    <3> QED  BY <1>5, <3>2, <3>3
  <2>5. ASSUME cur' # NoAttempt, NEW a \in DOMAIN out'
        PROVE  out'[a].start < cur'.start
    <3>1. cur'.start = i + 1  BY <2>5, GPStateAssumption
    <3>2. out'[a].start \in 1..i
      <4>1. CASE a \in DOMAIN out
        BY <1>1, <1>5, <4>1
      <4>2. CASE a = Len(out) + 1
        BY <1>1, <1>2, <1>5, <4>2
      <4> QED  BY <1>5, <4>1, <4>2
    <3> QED  BY <1>1, <3>1, <3>2
  <2> QED  BY <2>4, <2>5 DEF Ordered
<1> QED  BY <1>7, <1>8

\* One line further in the open attempt.
LEMMA TellsLine ==
  ASSUME TypeOK, OwnInv, TellsInv, ~done, cur # NoAttempt, cur' # NoAttempt,
         i' = i + 1, trace' = trace, done' = done, out' = out, cur'.start = cur.start,
         StagesTell(OpenLines \cup {i + 1}, cur'.stages, seenStage'),
         Blames(OpenLines \cup {i + 1}, cur'.failStage),
         lastState' = "dropped" =>
            \/ lastState = "dropped" /\ trace[i + 1].kind # "state"
            \/ trace[i + 1].kind = "state" /\ trace[i + 1].state = "dropped"
  PROVE  TellsInv'
<1>1. /\ i \in Nat /\ cur.start \in 1..i /\ OpenLines \subseteq 1..i /\ StatesSoFar \subseteq 1..i
      /\ \A x \in 1..i : x \in Int /\ x < i + 1
  BY OpenBounds
<1>2. /\ OpenLines' = OpenLines \cup {i + 1}
      /\ StatesSoFar' = StatesSoFar \cup {i + 1}
  <2>1. OpenLines' = OpenLines \cup {i + 1}  BY <1>1 DEF OpenLines
  <2>2. 1..i+1 = (1..i) \cup {i + 1}  BY <1>1
  <2>3. CASE out = <<>>
    <3>1. StatesSoFar = 1..i  BY <2>3 DEF StatesSoFar
    <3>2. out' = <<>> /\ i' = i + 1  BY <2>3
    <3>3. StatesSoFar' = 1..i+1  BY <3>2 DEF StatesSoFar
    <3> QED  BY <2>1, <2>2, <3>1, <3>3
  <2>4. CASE out # <<>>
    <3>1. StatesSoFar = OpenLines /\ StatesSoFar' = OpenLines'
      BY <2>4 DEF StatesSoFar, OpenLines
    <3> QED  BY <2>1, <3>1
  <2> QED  BY <2>1, <2>3, <2>4
<1>3. OpenTells'
  <2>1. SUFFICES ASSUME NEW S, NEW stages, NEW seen, NEW blamed,
                        S = OpenLines', stages = cur'.stages, seen = seenStage',
                        blamed = cur'.failStage
                 PROVE  StagesTell(S, stages, seen)' /\ Blames(S, blamed)'
    BY DEF OpenTells
  <2>2. StagesTell(S, stages, seen) /\ Blames(S, blamed)  BY <1>2, <2>1
  <2> QED  BY <2>2, SameWords
<1>4. LastTells'
  <2>1. SUFFICES ASSUME NEW D, D = StatesSoFar', lastState' = "dropped"
                 PROVE  DropEnds(D)'
    BY DEF LastTells
  <2>2. lastState = "dropped" => DropEnds(StatesSoFar)  BY DEF TellsInv, LastTells
  <2>3. DropEnds(StatesSoFar \cup {i + 1})
    <3>1. i + 1 \in Int /\ \A x \in StatesSoFar : x \in Int /\ x < i + 1  BY <1>1
    <3> QED  BY <2>1, <2>2, <3>1, DropsMore
  <2>4. DropEnds(D)  BY <1>2, <2>1, <2>3
  <2> QED  BY <2>4, SameWords
<1>5. ASSUME NEW a \in DOMAIN out PROVE ClosedTells(a)'
  <2>1. Lines(a)' = Lines(a) /\ ClosedStates(a)' = ClosedStates(a)
    BY DEF Lines, ClosedStates, LastLine
  <2>2. SUFFICES ASSUME NEW S, NEW D, NEW stages,
                        S = Lines(a)', D = ClosedStates(a)', stages = out'[a].stages
                 PROVE  LoginsTold(S, D, stages)'
    BY DEF ClosedTells
  <2>3. LoginsTold(S, D, stages)
    <3>1. ClosedTells(a)  BY DEF TellsInv
    <3> QED  BY <2>1, <2>2, <3>1 DEF ClosedTells
  <2> QED  BY <2>3, SameWords
<1>6. Ordered'  BY DEF TellsInv, Ordered
<1> QED  BY <1>3, <1>4, <1>5, <1>6 DEF TellsInv

\* A line opens an attempt, and closes the one that was open.
LEMMA TellsAttempt ==
  ASSUME TypeOK, OwnInv, TellsInv, ~done, cur' # NoAttempt,
         i' = i + 1, trace' = trace, done' = done, cur'.start = i + 1,
         StagesTell({i + 1}, cur'.stages, seenStage'), Blames({i + 1}, cur'.failStage),
         cur = NoAttempt => out' = out,
         NEW last, last = "dropped" => lastState = "dropped",
         cur # NoAttempt => out' = Append(out, Finish(cur, i + 1, last)),
         lastState' = "dropped" =>
            cur = NoAttempt /\ lastState = "dropped" /\ trace[i + 1].kind # "state"
  PROVE  TellsInv'
<1>1. /\ i \in Nat /\ i + 1 \in Nat /\ StatesSoFar \subseteq 1..i
      /\ \A x \in 1..i : x \in Int /\ x < i + 1
  BY OpenBounds
<1>2. OpenLines' = {i + 1}  BY <1>1 DEF OpenLines
<1>3. OpenTells'
  <2>1. SUFFICES ASSUME NEW S, NEW stages, NEW seen, NEW blamed,
                        S = OpenLines', stages = cur'.stages, seen = seenStage',
                        blamed = cur'.failStage
                 PROVE  StagesTell(S, stages, seen)' /\ Blames(S, blamed)'
    BY DEF OpenTells
  <2>2. StagesTell(S, stages, seen) /\ Blames(S, blamed)  BY <1>2, <2>1
  <2> QED  BY <2>2, SameWords
<1>4. CASE cur = NoAttempt
  <2>1. out = <<>> /\ out' = <<>>  BY <1>4, OpenBounds
  <2>2. DOMAIN out' = {}  BY <2>1
  <2>3. Ordered'  BY <2>2 DEF Ordered
  <2>4. LastTells'
    <3>1. SUFFICES ASSUME NEW D, D = StatesSoFar', lastState' = "dropped"
                   PROVE  DropEnds(D)'
      BY DEF LastTells
    <3>2. DropEnds(StatesSoFar)  BY <3>1 DEF TellsInv, LastTells
    <3>3. StatesSoFar' = StatesSoFar \cup {i + 1}
      <4>1. 1..i+1 = (1..i) \cup {i + 1}  BY <1>1
      <4> QED  BY <2>1, <4>1 DEF StatesSoFar
    <3>4. DropEnds(StatesSoFar \cup {i + 1})
      <4>1. i + 1 \in Int /\ \A x \in StatesSoFar : x \in Int /\ x < i + 1  BY <1>1
      <4> QED  BY <3>1, <3>2, <4>1, DropsMore
    <3>5. DropEnds(D)  BY <3>1, <3>3, <3>4
    <3> QED  BY <3>5, SameWords
  <2> QED  BY <1>3, <2>2, <2>3, <2>4 DEF TellsInv
<1>5. CASE cur # NoAttempt
  <2>1. (\A a \in DOMAIN out' : ClosedTells(a)') /\ Ordered'
    BY <1>1, <1>5, ClosedTellMore
  <2>2. LastTells'  BY <1>5 DEF LastTells
  <2> QED  BY <1>3, <2>1, <2>2 DEF TellsInv
<1> QED  BY <1>4, <1>5

\* A line before the first attempt.
LEMMA TellsIdle ==
  ASSUME TypeOK, OwnInv, TellsInv, ~done, cur = NoAttempt, cur' = NoAttempt,
         i' = i + 1, trace' = trace, done' = done, out' = out,
         lastState' = "dropped" =>
            \/ lastState = "dropped" /\ trace[i + 1].kind # "state"
            \/ trace[i + 1].kind = "state" /\ trace[i + 1].state = "dropped"
  PROVE  TellsInv'
<1>1. out = <<>> /\ out' = <<>>  BY OpenBounds
<1>2. /\ i \in Nat /\ StatesSoFar \subseteq 1..i
      /\ \A x \in 1..i : x \in Int /\ x < i + 1
  BY OpenBounds
<1>3. DOMAIN out' = {}  BY <1>1
<1>4. LastTells'
  <2>1. SUFFICES ASSUME NEW D, D = StatesSoFar', lastState' = "dropped"
                 PROVE  DropEnds(D)'
    BY DEF LastTells
  <2>2. lastState = "dropped" => DropEnds(StatesSoFar)  BY DEF TellsInv, LastTells
  <2>3. StatesSoFar' = StatesSoFar \cup {i + 1}
    <3>1. 1..i+1 = (1..i) \cup {i + 1}  BY <1>2
    <3> QED  BY <1>1, <3>1 DEF StatesSoFar
  <2>4. DropEnds(StatesSoFar \cup {i + 1})
    <3>1. i + 1 \in Int /\ \A x \in StatesSoFar : x \in Int /\ x < i + 1  BY <1>2
    <3> QED  BY <2>1, <2>2, <3>1, DropsMore
  <2>5. DropEnds(D)  BY <2>1, <2>3, <2>4
  <2> QED  BY <2>5, SameWords
<1> QED  BY <1>3, <1>4 DEF TellsInv, Ordered

----------------------------------------------------------------------------
(* Each line.                                                              *)

\* The other fields of an attempt.
LEMMA FailStageStays ==
  ASSUME NEW a \in Attempt, NEW st, NEW status
  PROVE  /\ AddStage(a, st, status).failStage = a.failStage
         /\ AddStage(a, st, status).stages = Append(a.stages, StageResultOf(st, status, i + 1))
  BY DEF AddStage, Attempt

LEMMA NewIsEmpty ==
  ASSUME NEW start, NEW trigger
  PROVE  /\ NewAttempt(start, trigger).stages = <<>>
         /\ NewAttempt(start, trigger).failStage = ""
         /\ NewAttempt(start, trigger).start = start
  BY DEF NewAttempt

LEMMA StageLineTells ==
  ASSUME TypeOK, TimelineInv, OwnInv, TellsInv, StageLine
  PROVE  TellsInv'
<1> DEFINE st    == trace[i + 1].stage
           opens == cur = NoAttempt \/ (st = Prelogin /\ Prelogin \in seenStage)
           now   == IF opens THEN NewAttempt(i + 1, "portal") ELSE cur
           had   == Kept(opens, seenStage, {})
           new   == st # "" /\ st \notin had
           S     == IF opens THEN {} ELSE OpenLines
<1>1. /\ i + 1 \in Nat /\ i' = i + 1 /\ trace' = trace /\ done' = done /\ st \in StageNames
      /\ ~done /\ trace[i + 1].kind = "stage"
      /\ ~(st = PortalConfig /\ TeardownFollows(i + 1))
  BY ReadLineFacts DEF StageLine, Reading, ReadLine
<1>2. \A s \in NamedStages : Reaches(i + 1, s) <=> s = st
  BY <1>1 DEF Reaches
<1>3. /\ cur' = IF new THEN AddStage(now, st, "reached") ELSE now
      /\ seenStage' = IF new THEN had \cup {st} ELSE had
      /\ lastState' = Kept(opens, lastState, "")
      /\ out' = Closing(opens, lastState) /\ opens \in BOOLEAN
  BY DEF StageLine
<1>4. had = IF opens THEN {} ELSE seenStage
  BY DEF Kept, TimelineInv, SeenIsCurrent
<1>5. /\ now \in Attempt /\ (~opens => now = cur /\ cur # NoAttempt)
      /\ opens => now.start = i + 1 /\ now.stages = <<>> /\ now.failStage = ""
  BY <1>1, LocalTypes, NewAttemptFacts, NewIsEmpty
<1>6. /\ StagesTell(S, now.stages, had) /\ Blames(S, now.failStage)
      /\ \A x \in S : x \in Int /\ x < i + 1
  <2>1. CASE opens
    BY <1>4, <1>5, <2>1, NoneYet DEF Blames
  <2>2. CASE ~opens
    <3>1. OpenTells /\ OpenLines \subseteq 1..i /\ \A x \in 1..i : x \in Int /\ x < i + 1
      BY <1>1, <1>5, <2>2, OpenBounds DEF TellsInv
    <3>2. S = OpenLines /\ now.stages = cur.stages /\ had = seenStage /\ now.failStage = cur.failStage
      BY <1>4, <1>5, <2>2
    <3> HIDE DEF S, now, had, opens
    <3> QED  BY <3>1, <3>2 DEF OpenTells
  <2> QED  BY <2>1, <2>2
<1> HIDE DEF S, now, had
<1>7. /\ cur' # NoAttempt /\ cur'.start = now.start
      /\ StagesTell(S \cup {i + 1}, cur'.stages, seenStage')
      /\ Blames(S \cup {i + 1}, cur'.failStage)
  <2>0. Blames(S \cup {i + 1}, now.failStage)  BY <1>6, BlamesMore
  <2>1. CASE new
    <3>1. cur' = AddStage(now, st, "reached") /\ seenStage' = had \cup {st}
      BY <1>3, <2>1
    <3>2. /\ cur' \in Attempt /\ cur'.start = now.start /\ cur'.failStage = now.failStage
          /\ cur'.stages = Append(now.stages, StageResultOf(st, "reached", i + 1))
      <4> HIDE DEF st, opens, new
      <4>1. cur' \in Attempt  BY <1>1, <1>5, <3>1, AddStageFacts
      <4>2. cur'.start = now.start  BY <1>5, <3>1, Untouched
      <4> QED  BY <1>5, <3>1, <4>1, <4>2, FailStageStays
    <3>3. now.stages \in Seq(StageResult) /\ st \in NamedStages /\ st \notin had
      BY <1>1, <1>5, <2>1, StagesField DEF NamedStages
    <3>4. Reaches(i + 1, st) /\ \A s \in NamedStages : Reaches(i + 1, s) => s = st
      BY <1>2, <3>3
    <3> HIDE DEF st
    <3>5. StagesTell(S \cup {i + 1}, Append(now.stages, StageResultOf(st, "reached", i + 1)),
                     had \cup {st})
      BY <1>1, <1>6, <3>3, <3>4, OneNew
    <3>6. cur' # NoAttempt  BY <3>2, GPStateAssumption
    <3> QED  BY <2>0, <3>1, <3>2, <3>5, <3>6
  <2>2. CASE ~new
    <3>1. cur' = now /\ seenStage' = had  BY <1>3, <2>2
    <3>2. \A s \in NamedStages : Reaches(i + 1, s) => s \in had
      BY <1>2, <2>2 DEF NamedStages
    <3>3. i + 1 \in Int  BY <1>1
    <3>4. StagesTell(S \cup {i + 1}, now.stages, had)
      BY <1>6, <3>2, <3>3, NothingNew
    <3> QED  BY <1>5, <2>0, <3>1, <3>4, GPStateAssumption
  <2> QED  BY <2>1, <2>2
<1>8. CASE opens
  <2>1. S \cup {i + 1} = {i + 1}  BY <1>8 DEF S
  <2>2. cur = NoAttempt => out' = out  BY <1>3 DEF Closing
  <2>3. cur # NoAttempt => out' = Append(out, Finish(cur, i + 1, lastState))
    BY <1>3, <1>8 DEF Closing
  <2>4. lastState' = "dropped" => cur = NoAttempt /\ lastState = "dropped"
    BY <1>3, <1>8 DEF Kept
  <2>5. cur'.start = i + 1  BY <1>5, <1>7, <1>8
  <2>6. StagesTell({i + 1}, cur'.stages, seenStage') /\ Blames({i + 1}, cur'.failStage)
    BY <1>7, <2>1
  <2>7. trace[i + 1].kind # "state"  BY <1>1
  <2> HIDE DEF opens, st
  <2> QED  BY <1>1, <1>7, <2>2, <2>3, <2>4, <2>5, <2>6, <2>7, TellsAttempt
<1>9. CASE ~opens
  <2>1. S = OpenLines /\ out' = out /\ lastState' = lastState
    BY <1>3, <1>9 DEF S, Closing, Kept
  <2>2. cur # NoAttempt /\ cur'.start = cur.start  BY <1>5, <1>7, <1>9
  <2>3. StagesTell(OpenLines \cup {i + 1}, cur'.stages, seenStage')
        /\ Blames(OpenLines \cup {i + 1}, cur'.failStage)
    BY <1>7, <2>1
  <2>4. trace[i + 1].kind # "state"  BY <1>1
  <2> HIDE DEF opens, st
  <2> QED  BY <1>1, <1>7, <2>1, <2>2, <2>3, <2>4, TellsLine
<1> QED  BY <1>8, <1>9

\* A line that reaches no stage leaves those of the open attempt.
LEMMA SameStagesTell ==
  ASSUME TypeOK, OwnInv, TellsInv, ~done, cur # NoAttempt,
         \A s \in NamedStages : ~Reaches(i + 1, s)
  PROVE  /\ StagesTell(OpenLines \cup {i + 1}, cur.stages, seenStage)
         /\ Blames(OpenLines \cup {i + 1}, cur.failStage)
<1>1. /\ OpenLines \subseteq 1..i /\ i + 1 \in Int
      /\ \A x \in 1..i : x \in Int /\ x < i + 1
  BY OpenBounds
<1>2. StagesTell(OpenLines, cur.stages, seenStage) /\ Blames(OpenLines, cur.failStage)
  BY DEF TellsInv, OpenTells
<1>3. \A x \in OpenLines : x \in Int /\ x < i + 1  BY <1>1
<1>4. StagesTell(OpenLines \cup {i + 1}, cur.stages, seenStage)
  BY <1>1, <1>2, <1>3, NothingNew
<1> QED  BY <1>2, <1>4, BlamesMore

\* A line that is none of these has no effect but on lastState.
LEMMA OtherLineTells ==
  ASSUME TypeOK, OwnInv, TellsInv, IgnoreTeardown \/ OtherState \/ SkipEvent
  PROVE  TellsInv'
<1>1. /\ i' = i + 1 /\ trace' = trace /\ done' = done /\ ~done
      /\ cur' = cur /\ seenStage' = seenStage /\ out' = out
  BY ReadLineFacts DEF IgnoreTeardown, OtherState, SkipEvent, Reading, ReadLine
<1>2. lastState' = "dropped" =>
         \/ lastState = "dropped" /\ trace[i + 1].kind # "state"
         \/ trace[i + 1].kind = "state" /\ trace[i + 1].state = "dropped"
  BY DEF IgnoreTeardown, OtherState, SkipEvent, Reading
<1>3. CASE cur = NoAttempt
  BY <1>1, <1>2, <1>3, TellsIdle
<1>4. CASE cur # NoAttempt
  <2>1. \A s \in NamedStages : ~Reaches(i + 1, s)
    BY <1>4 DEF IgnoreTeardown, OtherState, SkipEvent, Reading, Reaches
  <2>2. /\ StagesTell(OpenLines \cup {i + 1}, cur.stages, seenStage)
        /\ Blames(OpenLines \cup {i + 1}, cur.failStage)
    BY <1>1, <1>4, <2>1, SameStagesTell
  <2> QED  BY <1>1, <1>2, <1>4, <2>2, TellsLine
<1> QED  BY <1>3, <1>4

LEMMA RetrievingTells ==
  ASSUME TypeOK, TimelineInv, OwnInv, TellsInv, Retrieving
  PROVE  TellsInv'
<1> DEFINE opens == cur = NoAttempt \/ Prelogin \in seenStage
<1>1. /\ i + 1 \in Nat /\ i' = i + 1 /\ trace' = trace /\ done' = done /\ ~done
      /\ trace[i + 1].kind = "state" /\ trace[i + 1].state = "retrieving"
  BY ReadLineFacts DEF Retrieving, ReadingState, Reading, ReadLine
<1>2. \A s \in NamedStages : ~Reaches(i + 1, s)
  BY <1>1 DEF Reaches
<1>3. /\ cur' = IF opens THEN NewAttempt(i + 1, "portal") ELSE cur
      /\ seenStage' = Kept(opens, seenStage, {})
      /\ lastState' = Kept(opens, "retrieving", "")
      /\ out' = Closing(opens, "retrieving") /\ opens \in BOOLEAN
  BY DEF Retrieving
<1>4. lastState' # "dropped"  BY <1>3 DEF Kept
<1>5. CASE opens
  <2>1. /\ cur' # NoAttempt /\ cur'.start = i + 1 /\ cur'.stages = <<>> /\ cur'.failStage = ""
    BY <1>1, <1>3, <1>5, NewAttemptFacts, NewIsEmpty
  <2>2. seenStage' = {}  BY <1>3, <1>5 DEF Kept, TimelineInv, SeenIsCurrent
  <2>3. StagesTell({} \cup {i + 1}, <<>>, {})
    <3>1. i + 1 \in Int /\ \A x \in {} : x \in Int /\ x < i + 1  BY <1>1
    <3>2. \A s \in NamedStages : Reaches(i + 1, s) => s \in {}  BY <1>2
    <3> QED  BY <3>1, <3>2, NoneYet, NothingNew
  <2>4. StagesTell({i + 1}, cur'.stages, seenStage') /\ Blames({i + 1}, cur'.failStage)
    <3>1. {} \cup {i + 1} = {i + 1}  OBVIOUS
    <3> QED  BY <2>1, <2>2, <2>3, <3>1 DEF Blames
  <2>5. cur = NoAttempt => out' = out  BY <1>3 DEF Closing
  <2>6. cur # NoAttempt => out' = Append(out, Finish(cur, i + 1, "retrieving"))
    BY <1>3, <1>5 DEF Closing
  <2> HIDE DEF opens
  <2> QED  BY <1>1, <1>4, <2>1, <2>4, <2>5, <2>6, TellsAttempt
<1>6. CASE ~opens
  <2>1. cur # NoAttempt /\ cur' = cur /\ seenStage' = seenStage /\ out' = out
    BY <1>3, <1>6 DEF Kept, Closing
  <2>2. /\ StagesTell(OpenLines \cup {i + 1}, cur.stages, seenStage)
        /\ Blames(OpenLines \cup {i + 1}, cur.failStage)
    BY <1>1, <1>2, <2>1, SameStagesTell
  <2> QED  BY <1>1, <1>4, <2>1, <2>2, TellsLine
<1> QED  BY <1>5, <1>6

LEMMA ConnectsTells ==
  ASSUME TypeOK, TimelineInv, OwnInv, TellsInv, Connects
  PROVE  TellsInv'
<1> DEFINE now == IF cur = NoAttempt THEN NewAttempt(i + 1, "reconnect") ELSE cur
           S   == IF cur = NoAttempt THEN {} ELSE OpenLines
<1>1. /\ i + 1 \in Nat /\ i' = i + 1 /\ trace' = trace /\ done' = done /\ ~done
      /\ trace[i + 1].kind = "state" /\ trace[i + 1].state = "connected"
  BY ReadLineFacts DEF Connects, ReadingState, Reading, ReadLine
<1>2. Reaches(i + 1, Tunnel) /\ \A s \in NamedStages : Reaches(i + 1, s) => s = Tunnel
  BY <1>1 DEF Reaches
<1>3. /\ cur' = IF Tunnel \in seenStage THEN now ELSE AddStage(now, Tunnel, "ok")
      /\ seenStage' = seenStage \cup {Tunnel} /\ lastState' = "connected" /\ out' = out
  BY DEF Connects
<1>4. /\ now \in Attempt /\ (cur # NoAttempt => now = cur)
      /\ cur = NoAttempt => now.start = i + 1 /\ now.stages = <<>> /\ now.failStage = ""
  <2>1. NewAttempt(i + 1, "reconnect") \in Attempt  BY <1>1, NewAttemptFacts
  <2>2. /\ NewAttempt(i + 1, "reconnect").start = i + 1
        /\ NewAttempt(i + 1, "reconnect").stages = <<>>
        /\ NewAttempt(i + 1, "reconnect").failStage = ""
    BY NewIsEmpty
  <2>3. now = IF cur = NoAttempt THEN NewAttempt(i + 1, "reconnect") ELSE cur  OBVIOUS
  <2> HIDE DEF now
  <2> QED  BY <2>1, <2>2, <2>3, LocalTypes
<1>5. /\ StagesTell(S, now.stages, seenStage) /\ Blames(S, now.failStage)
      /\ \A x \in S : x \in Int /\ x < i + 1
  <2>1. CASE cur = NoAttempt
    <3>1. seenStage = {}  BY <2>1 DEF TimelineInv, SeenIsCurrent
    <3> QED  BY <1>4, <2>1, <3>1, NoneYet DEF Blames
  <2>2. CASE cur # NoAttempt
    <3>1. OpenTells /\ OpenLines \subseteq 1..i /\ \A x \in 1..i : x \in Int /\ x < i + 1
      BY <1>1, <2>2, OpenBounds DEF TellsInv
    <3>2. S = OpenLines /\ now = cur  BY <1>4, <2>2
    <3> HIDE DEF S, now
    <3> QED  BY <3>1, <3>2 DEF OpenTells
  <2> QED  BY <2>1, <2>2
<1> HIDE DEF S, now
<1>6. Tunnel \in StageNames /\ Tunnel \in NamedStages /\ ~IsLogin(Tunnel)
  BY Positions DEF StageNames, Boundaries, IsLogin, Tunnel
<1>7. /\ cur' # NoAttempt /\ cur'.start = now.start
      /\ StagesTell(S \cup {i + 1}, cur'.stages, seenStage')
      /\ Blames(S \cup {i + 1}, cur'.failStage)
  <2>0. Blames(S \cup {i + 1}, now.failStage)  BY <1>5, BlamesMore
  <2>1. CASE Tunnel \notin seenStage
    <3>1. cur' = AddStage(now, Tunnel, "ok") /\ seenStage' = seenStage \cup {Tunnel}
      BY <1>3, <2>1
    <3>2. /\ cur' \in Attempt /\ cur'.start = now.start /\ cur'.failStage = now.failStage
          /\ cur'.stages = Append(now.stages, StageResultOf(Tunnel, "ok", i + 1))
      <4>1. cur' \in Attempt  BY <1>1, <1>4, <1>6, <3>1, AddStageFacts
      <4>2. cur'.start = now.start  BY <1>4, <3>1, Untouched
      <4> QED  BY <1>4, <3>1, <4>1, <4>2, FailStageStays
    <3>3. now.stages \in Seq(StageResult)  BY <1>4, StagesField
    <3>5. StagesTell(S \cup {i + 1}, Append(now.stages, StageResultOf(Tunnel, "ok", i + 1)),
                     seenStage \cup {Tunnel})
      BY <1>1, <1>2, <1>5, <1>6, <2>1, <3>3, OneNew
    <3>6. cur' # NoAttempt  BY <3>2, GPStateAssumption
    <3> QED  BY <2>0, <3>1, <3>2, <3>5, <3>6
  <2>2. CASE Tunnel \in seenStage
    <3>1. cur' = now /\ seenStage' = seenStage  BY <1>3, <2>2
    <3>2. \A s \in NamedStages : Reaches(i + 1, s) => s \in seenStage
      BY <1>2, <2>2
    <3>3. i + 1 \in Int  BY <1>1
    <3>4. StagesTell(S \cup {i + 1}, now.stages, seenStage)
      BY <1>5, <3>2, <3>3, NothingNew
    <3> QED  BY <1>4, <2>0, <3>1, <3>4, GPStateAssumption
  <2> QED  BY <2>1, <2>2
<1>8. CASE cur = NoAttempt
  <2>1. S \cup {i + 1} = {i + 1}  BY <1>8 DEF S
  <2>2. cur'.start = i + 1  BY <1>4, <1>7, <1>8
  <2>3. StagesTell({i + 1}, cur'.stages, seenStage') /\ Blames({i + 1}, cur'.failStage)
    BY <1>7, <2>1
  <2> QED  BY <1>1, <1>3, <1>7, <1>8, <2>2, <2>3, TellsAttempt
<1>9. CASE cur # NoAttempt
  <2>1. S = OpenLines  BY <1>9 DEF S
  <2>2. cur'.start = cur.start  BY <1>4, <1>7, <1>9
  <2>3. StagesTell(OpenLines \cup {i + 1}, cur'.stages, seenStage')
        /\ Blames(OpenLines \cup {i + 1}, cur'.failStage)
    BY <1>7, <2>1
  <2> QED  BY <1>1, <1>3, <1>7, <1>9, <2>2, <2>3, TellsLine
<1> QED  BY <1>8, <1>9

LEMMA EventTells ==
  ASSUME TypeOK, TimelineInv, OwnInv, TellsInv, Event
  PROVE  TellsInv'
<1> DEFINE l == trace[i + 1]
           a == IF l.hip /\ HIP \notin seenStage THEN AddStage(cur, HIP, "ok") ELSE cur
<1>1. /\ i + 1 \in Nat /\ i' = i + 1 /\ trace' = trace /\ done' = done /\ ~done
      /\ l.kind = "event" /\ l.stage \in Boundaries \cup {""} /\ l.hip \in BOOLEAN
      /\ l.rank \in ReasonTSLog..ReasonNone /\ reasonRank \in ReasonTSLog..ReasonNone
  BY ReadLineFacts, LocalTypes DEF Event, Reading, ReadLine
<1>2. \A s \in NamedStages : Reaches(i + 1, s) => l.hip /\ s = HIP
  BY <1>1 DEF Reaches
<1>3. l.hip => Reaches(i + 1, HIP)
  BY <1>1 DEF Reaches
<1>4. l.rank < reasonRank => ReasonLine(i + 1)
  <2>1. ReasonTSLog = 0 /\ ReasonNone = 3  BY DEF ReasonTSLog, ReasonNone
  <2>2. ReasonLine(i + 1) <=> l.rank < ReasonNone  BY <1>1 DEF ReasonLine
  <2> HIDE DEF l
  <2>3. l.rank \in 0..3 /\ reasonRank \in 0..3  BY <1>1, <2>1
  <2>4. l.rank < reasonRank => l.rank < 3  BY <2>3
  <2> QED  BY <2>1, <2>2, <2>4
<1>5. cur # NoAttempt /\ cur \in Attempt  BY LocalTypes DEF Event
<1>6. /\ cur' = WithReason(a, l) /\ out' = out /\ lastState' = lastState
      /\ seenStage' = IF l.hip /\ HIP \notin seenStage THEN seenStage \cup {HIP} ELSE seenStage
  BY DEF Event
<1>7. /\ OpenLines \subseteq 1..i /\ i + 1 \in Int /\ \A x \in 1..i : x \in Int /\ x < i + 1
      /\ StagesTell(OpenLines, cur.stages, seenStage) /\ Blames(OpenLines, cur.failStage)
  BY <1>1, <1>5, OpenBounds DEF TellsInv, OpenTells
<1>8. \A x \in OpenLines : x \in Int /\ x < i + 1  BY <1>7
<1>9. HIP \in StageNames /\ HIP \in NamedStages /\ ~IsLogin(HIP)
  BY Positions DEF StageNames, IsLogin, HIP
<1>10. /\ a \in Attempt /\ a.start = cur.start /\ a.failStage = cur.failStage
       /\ StagesTell(OpenLines \cup {i + 1}, a.stages, seenStage')
  <2>1. CASE l.hip /\ HIP \notin seenStage
    <3>1. a = AddStage(cur, HIP, "ok") /\ seenStage' = seenStage \cup {HIP}
      BY <1>6, <2>1
    <3> HIDE DEF a, l
    <3>2. a \in Attempt  BY <1>1, <1>5, <1>9, <3>1, AddStageFacts
    <3>3. a.start = cur.start  BY <1>5, <3>1, Untouched
    <3>4. a.failStage = cur.failStage
          /\ a.stages = Append(cur.stages, StageResultOf(HIP, "ok", i + 1))
      BY <1>5, <3>1, FailStageStays
    <3>5. cur.stages \in Seq(StageResult)  BY <1>5, StagesField
    <3>6. Reaches(i + 1, HIP) /\ \A s \in NamedStages : Reaches(i + 1, s) => s = HIP
      BY <1>2, <1>3, <2>1
    <3>7. StagesTell(OpenLines \cup {i + 1}, Append(cur.stages, StageResultOf(HIP, "ok", i + 1)),
                     seenStage \cup {HIP})
      BY <1>1, <1>7, <1>8, <1>9, <2>1, <3>5, <3>6, OneNew
    <3> QED  BY <3>1, <3>2, <3>3, <3>4, <3>7
  <2>2. CASE ~(l.hip /\ HIP \notin seenStage)
    <3>1. a = cur /\ seenStage' = seenStage  BY <1>6, <2>2
    <3>2. \A s \in NamedStages : Reaches(i + 1, s) => s \in seenStage
      BY <1>2, <2>2
    <3> HIDE DEF a, l
    <3>4. StagesTell(OpenLines \cup {i + 1}, cur.stages, seenStage)
      BY <1>7, <1>8, <3>2, NothingNew
    <3> QED  BY <1>5, <3>1, <3>4
  <2> QED  BY <2>1, <2>2
<1> HIDE DEF a
<1>11. /\ cur' # NoAttempt /\ cur'.start = cur.start /\ cur'.stages = a.stages
       /\ cur'.failStage = IF l.rank < reasonRank /\ l.stage # "" THEN l.stage ELSE a.failStage
  <2> HIDE DEF l
  <2>1. cur' \in Attempt  BY <1>1, <1>6, <1>10, WithReasonFacts
  <2>2. /\ WithReason(a, l).start = a.start /\ WithReason(a, l).stages = a.stages
        /\ WithReason(a, l).failStage =
              IF l.rank < reasonRank /\ l.stage # "" THEN l.stage ELSE a.failStage
    BY <1>10 DEF WithReason, Attempt
  <2> QED  BY <1>6, <1>10, <2>1, <2>2, GPStateAssumption
<1>12. Blames(OpenLines \cup {i + 1}, cur'.failStage)
  <2>1. CASE l.rank < reasonRank /\ l.stage # ""
    <3>1. cur'.failStage = trace[i + 1].stage /\ ReasonLine(i + 1)
      BY <1>4, <1>11, <2>1
    <3> QED  BY <3>1 DEF Blames
  <2>2. CASE ~(l.rank < reasonRank /\ l.stage # "")
    <3>1. cur'.failStage = cur.failStage  BY <1>10, <1>11, <2>2
    <3> QED  BY <1>7, <3>1, BlamesMore
  <2> QED  BY <2>1, <2>2
<1>13. trace[i + 1].kind # "state"  BY <1>1
<1>14. StagesTell(OpenLines \cup {i + 1}, cur'.stages, seenStage')  BY <1>10, <1>11
<1>15. i' = i + 1 /\ trace' = trace /\ done' = done /\ ~done  BY <1>1
<1> HIDE DEF l
<1> QED  BY <1>5, <1>6, <1>11, <1>12, <1>13, <1>14, <1>15, TellsLine

LEMMA EndOfLogTells ==
  ASSUME TypeOK, OwnInv, TellsInv, EndOfLog
  PROVE  TellsInv'
<1>1. i' = i /\ trace' = trace /\ cur' = NoAttempt /\ done' = TRUE /\ ~done  BY DEF EndOfLog
<1>2. CASE cur = NoAttempt
  <2>1. out' = <<>>  BY <1>1, <1>2, OpenBounds DEF EndOfLog
  <2>2. DOMAIN out' = {}  BY <2>1
  <2> QED  BY <1>1, <2>2 DEF TellsInv, Ordered
<1>3. CASE cur # NoAttempt
  <2>1. cur.start \in Nat  BY <1>1, <1>3, OpenBounds
  <2>2. out' = Append(out, Finish(cur, cur.start, lastState))  BY <1>3 DEF EndOfLog
  <2>3. (\A a \in DOMAIN out' : ClosedTells(a)') /\ Ordered'
    BY <1>1, <1>3, <2>1, <2>2, ClosedTellMore
  <2> QED  BY <1>1, <2>3 DEF TellsInv
<1> QED  BY <1>2, <1>3

LEMMA TellsInit == Init => TellsInv
<1> SUFFICES ASSUME Init PROVE TellsInv
  OBVIOUS
<1>1. out = <<>> /\ cur = NoAttempt /\ lastState = ""  BY DEF Init
<1>2. DOMAIN <<>> = {}  OBVIOUS
<1>3. DOMAIN out = {}  BY <1>1, <1>2
<1> QED  BY <1>1, <1>3 DEF TellsInv, LastTells, Ordered

LEMMA TellsNext == TypeOK /\ TimelineInv /\ OwnInv /\ TellsInv /\ [Next]_vars => TellsInv'
<1> SUFFICES ASSUME TypeOK, TimelineInv, OwnInv, TellsInv, [Next]_vars PROVE TellsInv'
  OBVIOUS
<1>1. CASE UNCHANGED vars
  <2>1. /\ trace' = trace /\ i' = i /\ cur' = cur /\ seenStage' = seenStage
        /\ lastState' = lastState /\ out' = out /\ done' = done
    BY <1>1 DEF vars
  <2>2. ASSUME NEW a \in DOMAIN out PROVE ClosedTells(a)'
    <3>1. Lines(a)' = Lines(a) /\ ClosedStates(a)' = ClosedStates(a) /\ out'[a] = out[a]
      BY <2>1 DEF Lines, ClosedStates, LastLine
    <3>2. ClosedTells(a)  BY DEF TellsInv
    <3>3. SUFFICES ASSUME NEW S, NEW D, NEW stages,
                          S = Lines(a)', D = ClosedStates(a)', stages = out'[a].stages
                   PROVE  LoginsTold(S, D, stages)'
      BY DEF ClosedTells
    <3>4. LoginsTold(S, D, stages)  BY <3>1, <3>2, <3>3 DEF ClosedTells
    <3> QED  BY <2>1, <3>4, SameWords
  <2>3. ASSUME cur # NoAttempt PROVE OpenTells'
    <3>1. SUFFICES ASSUME NEW S, NEW stages, NEW seen, NEW blamed,
                          S = OpenLines', stages = cur'.stages, seen = seenStage',
                          blamed = cur'.failStage
                   PROVE  StagesTell(S, stages, seen)' /\ Blames(S, blamed)'
      BY DEF OpenTells
    <3>2. OpenLines' = OpenLines  BY <2>1 DEF OpenLines
    <3>3. StagesTell(S, stages, seen) /\ Blames(S, blamed)
      BY <2>1, <2>3, <3>1, <3>2 DEF TellsInv, OpenTells
    <3> QED  BY <2>1, <3>3, SameWords
  <2>4. ASSUME ~done PROVE LastTells'
    <3>1. SUFFICES ASSUME NEW D, D = StatesSoFar', lastState' = "dropped" PROVE DropEnds(D)'
      BY DEF LastTells
    <3>2. StatesSoFar' = StatesSoFar  BY <2>1 DEF StatesSoFar
    <3>3. DropEnds(D)  BY <2>1, <2>4, <3>1, <3>2 DEF TellsInv, LastTells
    <3> QED  BY <2>1, <3>3, SameWords
  <2>5. Ordered'  BY <2>1 DEF TellsInv, Ordered
  <2> QED  BY <2>1, <2>2, <2>3, <2>4, <2>5 DEF TellsInv
<1> QED
  BY <1>1, StageLineTells, RetrievingTells, ConnectsTells, EventTells, OtherLineTells,
     EndOfLogTells DEF Next

----------------------------------------------------------------------------
(* From the invariant to the rows of the view.                             *)

\* The lines of two closed attempts are apart, and lie among those read.
LEMMA LinesApart ==
  ASSUME TypeOK, OwnInv, TellsInv
  PROVE  /\ \A a \in DOMAIN out :
               /\ out[a].start \in 1..i /\ LastLine(a) \in Int /\ out[a].start <= LastLine(a) + 1
         /\ \A a, b \in DOMAIN out : \A k \in Lines(a) : k \in Lines(b) => a = b
<1>1. DOMAIN out = 1..Len(out) /\ Len(out) \in Nat /\ i \in Nat  BY Counted
<1>2. /\ \A a, b \in DOMAIN out : a < b => out[a].start < out[b].start
      /\ cur # NoAttempt => \A a \in DOMAIN out : out[a].start < cur.start
  BY DEF TellsInv, Ordered
<1>3. \A a \in DOMAIN out : out[a].start \in 1..i  BY DEF OwnInv, ClosedIsOwn
<1>4. cur # NoAttempt => cur.start \in 1..i  BY DEF OwnInv, OpenIsOwn
<1>5. ASSUME NEW a \in DOMAIN out
      PROVE  LastLine(a) \in Int /\ out[a].start <= LastLine(a) + 1
  <2>1. CASE a < Len(out)
    <3>1. a + 1 \in DOMAIN out /\ a < a + 1 /\ LastLine(a) = out[a + 1].start - 1
      BY <1>1, <2>1 DEF LastLine
    <3>2. out[a].start < out[a + 1].start /\ out[a + 1].start \in 1..i /\ out[a].start \in 1..i
      BY <1>2, <1>3, <3>1
    <3> QED  BY <3>1, <3>2
  <2>2. CASE ~(a < Len(out)) /\ cur = NoAttempt
    <3>1. LastLine(a) = i  BY <2>2 DEF LastLine
    <3> QED  BY <1>1, <1>3, <3>1
  <2>3. CASE ~(a < Len(out)) /\ cur # NoAttempt
    <3>1. LastLine(a) = cur.start - 1  BY <2>3 DEF LastLine
    <3> QED  BY <1>2, <1>3, <1>4, <2>3, <3>1
  <2> QED  BY <2>1, <2>2, <2>3
<1>6. ASSUME NEW a \in DOMAIN out, NEW b \in DOMAIN out, a < b, NEW k \in Lines(a), k \in Lines(b)
      PROVE  FALSE
  <2>1. a < Len(out) /\ a + 1 \in DOMAIN out /\ a + 1 <= b  BY <1>1, <1>6
  <2>2. LastLine(a) = out[a + 1].start - 1  BY <2>1 DEF LastLine
  <2>3. out[a + 1].start <= out[b].start
    <3>1. CASE a + 1 = b  BY <1>3, <3>1
    <3>2. CASE a + 1 # b
      <4>1. a + 1 < b  BY <1>1, <2>1, <3>2
      <4> QED  BY <1>2, <1>3, <2>1, <4>1
    <3> QED  BY <3>1, <3>2
  <2>4. k \in Int /\ k <= LastLine(a) /\ out[b].start <= k
    BY <1>3, <1>5, <1>6 DEF Lines
  <2>5. out[a + 1].start \in Int /\ out[b].start \in Int  BY <1>3, <2>1
  <2> QED  BY <2>2, <2>3, <2>4, <2>5
<1>7. \A a, b \in DOMAIN out : a < b \/ b < a \/ a = b  BY <1>1
<1> QED  BY <1>3, <1>5, <1>6, <1>7

\* A drop that ends the states of ClosedStates is the last state of the lines.
LEMMA DropIsLast ==
  ASSUME TypeOK, OwnInv, TellsInv, NEW a \in DOMAIN out, DropEnds(ClosedStates(a))
  PROVE  LastStateIsDrop(a)
<1>1. /\ out[a].start \in 1..i /\ LastLine(a) \in Int /\ out[a].start <= LastLine(a) + 1
      /\ i \in Nat /\ Span(a) = Lines(a)
  BY LinesApart, SpanIsLines, Counted
<1>2. Span(a) \cup (IF a = 1 THEN 1 .. out[1].start - 1 ELSE {}) = ClosedStates(a)
  <2>1. CASE a = 1
    <3>1. ClosedStates(a) = 1..LastLine(a) /\ Span(a) = out[1].start .. LastLine(a)
      BY <1>1, <2>1 DEF ClosedStates, Lines
    <3> QED  BY <1>1, <2>1, <3>1
  <2>2. CASE a # 1
    BY <1>1, <2>2 DEF ClosedStates, Lines
  <2> QED  BY <2>1, <2>2
<1>3. StateLines(a) = StatesIn(ClosedStates(a))
  BY <1>2 DEF StateLines, StatesIn
<1> QED  BY <1>3 DEF LastStateIsDrop, DropEnds

\* The first place of a stage, if there is one.
LEMMA OnePlace ==
  ASSUME NEW a \in Attempt, NEW st
  PROVE  /\ \A x \in StagePlaces(a, st) : x \in DOMAIN a.stages /\ a.stages[x].stage = st
         /\ \A x, y \in StagePlaces(a, st) : x = y
         /\ (\E x \in DOMAIN a.stages : a.stages[x].stage = st) => StagePlaces(a, st) # {}
<1> DEFINE P == {x \in DOMAIN a.stages : a.stages[x].stage = st}
<1>1. DOMAIN a.stages = 1..Len(a.stages) /\ Len(a.stages) \in Nat  BY StagesField
<1>2. P \subseteq Nat /\ P \subseteq DOMAIN a.stages  BY <1>1
<1>3. \A x : x \in StagePlaces(a, st) <=> x \in P /\ \A y \in P : x <= y
  <2>1. ASSUME NEW x \in DOMAIN a.stages
        PROVE  (\A l \in 1..x-1 : a.stages[l].stage # st) <=> \A y \in P : x <= y
    <3>1. ASSUME \A l \in 1..x-1 : a.stages[l].stage # st, NEW y \in P PROVE x <= y
      <4>1. y \notin 1..x-1  BY <3>1
      <4> QED  BY <1>1, <4>1
    <3>2. ASSUME \A y \in P : x <= y, NEW l \in 1..x-1 PROVE a.stages[l].stage # st
      <4>1. l \in DOMAIN a.stages /\ ~(x <= l)  BY <1>1
      <4> QED  BY <3>2, <4>1
    <3> QED  BY <3>1, <3>2
  <2> QED  BY <2>1 DEF StagePlaces
<1> HIDE DEF P
<1>4. P # {} => \E x \in P : \A y \in P : x <= y  BY <1>2, LeastNumber
<1>5. \A x, y \in StagePlaces(a, st) : x = y
  <2>1. ASSUME NEW x \in StagePlaces(a, st), NEW y \in StagePlaces(a, st) PROVE x = y
    <3>1. x \in Nat /\ y \in Nat /\ x <= y /\ y <= x  BY <1>2, <1>3
    <3> QED  BY <3>1
  <2> QED  BY <2>1
<1>6. P # {} => StagePlaces(a, st) # {}  BY <1>3, <1>4
<1> QED  BY <1>3, <1>5, <1>6 DEF P

\* The row of a login that a closed attempt told, and what it says.
LEMMA RowIsTold ==
  ASSUME TypeOK, OwnInv, TellsInv, NEW a \in DOMAIN out, NEW t \in Targets
  PROVE  /\ \A r \in AuthRows(out[a]) : r.target = t =>
               /\ r.at \in Lines(a) /\ Reaches(r.at, LoginStage[t])
               /\ \A k \in Lines(a) : Reaches(k, LoginStage[t]) => r.at <= k
               /\ r.outcome = "success" <=> PastIn(Lines(a), LoginStage[t])
               /\ r.outcome = "failed" => HasReason(Lines(a)) \/ DropEnds(ClosedStates(a))
               /\ (/\ ~PastIn(Lines(a), LoginStage[t]) /\ HasReason(Lines(a))
                   /\ BlamesOnly(Lines(a), LoginStage[t])) => r.outcome = "failed"
         /\ \A r, q \in AuthRows(out[a]) : r.target = t /\ q.target = t => r = q
         /\ (\E k \in Lines(a) : Reaches(k, LoginStage[t]))
               => \E r \in AuthRows(out[a]) : r.target = t
<1> DEFINE st == LoginStage[t]
           A  == out[a]
           S  == Lines(a)
           D  == ClosedStates(a)
<1>1. A \in Attempt /\ A.stages \in Seq(StageResult)
  <2>1. out \in Seq(Attempt)  BY LocalTypes
  <2>2. out[a] \in Attempt  BY <2>1
  <2> QED  BY <2>2, StagesField
<1>2. LoginTold(S, D, st, A.stages)
  <2>1. LoginsTold(S, D, A.stages)  BY DEF TellsInv, ClosedTells
  <2>2. st = "portal auth" \/ st = "gateway auth"
    <3>1. LoginStage["portal"] = "portal auth" /\ LoginStage["gateway"] = "gateway auth"
      BY DEF LoginStage
    <3>2. t = "portal" \/ t = "gateway"  BY DEF Targets
    <3> QED  BY <3>1, <3>2, Zenon
  <2> HIDE DEF st, S, D, A
  <2> QED  BY <2>1, <2>2 DEF LoginsTold
<1>3. \A r : r \in AuthRows(A) /\ r.target = t <=>
             \E x \in StagePlaces(A, st) : r = AuthRow(t, A.stages[x])
  <2>1. ASSUME NEW r, r \in AuthRows(A), r.target = t
        PROVE  \E x \in StagePlaces(A, st) : r = AuthRow(t, A.stages[x])
    <3>1. PICK u \in Targets : \E x \in StagePlaces(A, LoginStage[u]) : r = AuthRow(u, A.stages[x])
      BY <2>1 DEF AuthRows
    <3>2. u = t  BY <2>1, <3>1 DEF AuthRow
    <3> QED  BY <3>1, <3>2
  <2>2. ASSUME NEW x \in StagePlaces(A, st)
        PROVE  AuthRow(t, A.stages[x]) \in AuthRows(A) /\ AuthRow(t, A.stages[x]).target = t
    BY DEF AuthRows, AuthRow
  <2> QED  BY <2>1, <2>2
<1> HIDE DEF st, S, D, A
<1>4. /\ \A x \in StagePlaces(A, st) : x \in DOMAIN A.stages /\ A.stages[x].stage = st
      /\ \A x, y \in StagePlaces(A, st) : x = y
      /\ (\E x \in DOMAIN A.stages : A.stages[x].stage = st) => StagePlaces(A, st) # {}
  BY <1>1, OnePlace
<1>5. \A x \in StagePlaces(A, st) : A.stages[x] \in StageResult /\ LoginSays(S, D, st, A.stages[x])
  BY <1>1, <1>2, <1>4 DEF LoginTold
<1>6. ASSUME NEW s \in StageResult, LoginSays(S, D, st, s), NEW r, r = AuthRow(t, s)
      PROVE  /\ r.at \in S /\ Reaches(r.at, st)
             /\ \A k \in S : Reaches(k, st) => r.at <= k
             /\ r.outcome = "success" <=> PastIn(S, st)
             /\ r.outcome = "failed" => HasReason(S) \/ DropEnds(D)
             /\ ~PastIn(S, st) /\ HasReason(S) /\ BlamesOnly(S, st) => r.outcome = "failed"
  <2>1. r.at = s.at /\ r.outcome = OutcomeWord(s.status)  BY <1>6 DEF AuthRow
  <2>2. s.status \in {"reached", "ok", "failed"}  BY DEF StageResult
  <2>3. /\ OutcomeWord(s.status) = "success" <=> s.status = "ok"
        /\ OutcomeWord(s.status) = "failed" <=> s.status = "failed"
    BY <2>2 DEF OutcomeWord
  <2>4. /\ FirstAt(S, st, s.at)
        /\ s.status = "ok" <=> PastIn(S, st)
        /\ s.status = "failed" => HasReason(S) \/ DropEnds(D)
        /\ ~PastIn(S, st) /\ HasReason(S) /\ BlamesOnly(S, st) => s.status = "failed"
    BY <1>6 DEF LoginSays
  <2>5. /\ s.at \in S /\ Reaches(s.at, st)
        /\ \A k \in S : Reaches(k, st) => s.at <= k
    BY <2>4 DEF FirstAt
  <2> QED  BY <2>1, <2>3, <2>4, <2>5
<1>7. \A r \in AuthRows(A) : r.target = t =>
         /\ r.at \in S /\ Reaches(r.at, st)
         /\ \A k \in S : Reaches(k, st) => r.at <= k
         /\ r.outcome = "success" <=> PastIn(S, st)
         /\ r.outcome = "failed" => HasReason(S) \/ DropEnds(D)
         /\ ~PastIn(S, st) /\ HasReason(S) /\ BlamesOnly(S, st) => r.outcome = "failed"
  BY <1>3, <1>5, <1>6
<1>8. \A r, q \in AuthRows(A) : r.target = t /\ q.target = t => r = q
  BY <1>3, <1>4
<1>9. (\E k \in S : Reaches(k, st)) => \E r \in AuthRows(A) : r.target = t
  <2>1. ASSUME \E k \in S : Reaches(k, st) PROVE \E r \in AuthRows(A) : r.target = t
    <3>1. \E x \in DOMAIN A.stages : A.stages[x].stage = st  BY <1>2, <2>1 DEF LoginTold
    <3>2. PICK x \in StagePlaces(A, st) : TRUE  BY <1>4, <3>1
    <3> QED  BY <1>3, <3>2
  <2> QED  BY <2>1
<1> QED  BY <1>7, <1>8, <1>9 DEF st, S, D, A

LEMMA TellsImpliesRows ==
  ASSUME TypeOK, OwnInv, TellsInv
  PROVE  AuthenticationsAsLogged
<1> SUFFICES ASSUME NEW a \in DOMAIN out, NEW t \in Targets
             PROVE  LET st == LoginStage[t]
                        logins == {k \in Span(a) : Reaches(k, st)}
                        rows == {r \in GPAuthEvents(out) : r.target = t /\ r.at \in Span(a)}
                    IN  /\ logins = {} => rows = {}
                        /\ logins # {} => \E r \in rows :
                              /\ rows = {r} /\ r.at \in logins /\ \A k \in logins : r.at <= k
                              /\ (r.outcome = "success") = GoesPast(a, st)
                              /\ r.outcome = "failed" => Reasons(a) # {} \/ LastStateIsDrop(a)
                              /\ (/\ ~GoesPast(a, st) /\ Reasons(a) # {}
                                  /\ \A k \in Reasons(a) : trace[k].stage \in {"", st})
                                 => r.outcome = "failed"
  BY Zenon DEF AuthenticationsAsLogged
<1> DEFINE st == LoginStage[t]
           logins == {k \in Span(a) : Reaches(k, st)}
           rows == {r \in GPAuthEvents(out) : r.target = t /\ r.at \in Span(a)}
<1>1. \A b \in DOMAIN out : Span(b) = Lines(b)  BY SpanIsLines
<1>2. \A r : r \in rows <=> r \in AuthRows(out[a]) /\ r.target = t
  <2>1. ASSUME NEW r \in rows PROVE r \in AuthRows(out[a]) /\ r.target = t
    <3>1. PICK b \in DOMAIN out : r \in AuthRows(out[b])  BY DEF GPAuthEvents
    <3>2. r.at \in Lines(b)  BY <3>1, RowIsTold
    <3>3. r.at \in Lines(a)  BY <1>1
    <3>4. a = b  BY <3>2, <3>3, LinesApart
    <3> QED  BY <3>1, <3>4
  <2>2. ASSUME NEW r \in AuthRows(out[a]), r.target = t PROVE r \in rows
    <3>1. r.at \in Lines(a)  BY <2>2, RowIsTold
    <3>2. r \in GPAuthEvents(out)  BY DEF GPAuthEvents
    <3> QED  BY <1>1, <2>2, <3>1, <3>2
  <2> QED  BY <2>1, <2>2
<1>3. GoesPast(a, st) <=> PastIn(Lines(a), st)
  BY <1>1 DEF GoesPast, PastIn, NamedStages
<1>4. Reasons(a) # {} <=> HasReason(Lines(a))
  BY <1>1 DEF Reasons, HasReason, ReasonLine
<1>5. (\A k \in Reasons(a) : trace[k].stage \in {"", st}) <=> BlamesOnly(Lines(a), st)
  BY <1>1 DEF Reasons, BlamesOnly, ReasonLine
<1>6. DropEnds(ClosedStates(a)) => LastStateIsDrop(a)
  BY DropIsLast
<1>7. \A k : k \in logins <=> k \in Lines(a) /\ Reaches(k, st)  BY <1>1
<1>8. GoesPast(a, st) \in BOOLEAN  BY DEF GoesPast
<1>9. /\ \A r \in AuthRows(out[a]) : r.target = t =>
            /\ r.at \in Lines(a) /\ Reaches(r.at, st)
            /\ \A k \in Lines(a) : Reaches(k, st) => r.at <= k
            /\ r.outcome = "success" <=> PastIn(Lines(a), st)
            /\ r.outcome = "failed" => HasReason(Lines(a)) \/ DropEnds(ClosedStates(a))
            /\ (/\ ~PastIn(Lines(a), st) /\ HasReason(Lines(a))
                /\ BlamesOnly(Lines(a), st)) => r.outcome = "failed"
      /\ \A r, q \in AuthRows(out[a]) : r.target = t /\ q.target = t => r = q
      /\ (\E k \in Lines(a) : Reaches(k, st)) => \E r \in AuthRows(out[a]) : r.target = t
  BY RowIsTold
<1> HIDE DEF st, logins, rows
<1>10. logins = {} => rows = {}
  BY <1>2, <1>7, <1>9
<1>11. ASSUME logins # {}
       PROVE  \E r \in rows :
                 /\ rows = {r} /\ r.at \in logins /\ \A k \in logins : r.at <= k
                 /\ (r.outcome = "success") = GoesPast(a, st)
                 /\ r.outcome = "failed" => Reasons(a) # {} \/ LastStateIsDrop(a)
                 /\ (/\ ~GoesPast(a, st) /\ Reasons(a) # {}
                     /\ \A k \in Reasons(a) : trace[k].stage \in {"", st})
                    => r.outcome = "failed"
  <2>1. PICK r \in AuthRows(out[a]) : r.target = t  BY <1>7, <1>9, <1>11
  <2>2. r \in rows  BY <1>2, <2>1
  <2>3. rows = {r}  BY <1>2, <1>9, <2>1, <2>2
  <2>4. r.at \in logins /\ \A k \in logins : r.at <= k  BY <1>7, <1>9, <2>1
  <2>5. r.outcome = "success" <=> GoesPast(a, st)  BY <1>3, <1>9, <2>1
  <2>6. (r.outcome = "success") = GoesPast(a, st)
    <3>1. (r.outcome = "success") \in BOOLEAN  OBVIOUS
    <3> QED  BY <1>8, <2>5, <3>1, Zenon
  <2>7. r.outcome = "failed" => Reasons(a) # {} \/ LastStateIsDrop(a)
    BY <1>4, <1>6, <1>9, <2>1
  <2>8. (/\ ~GoesPast(a, st) /\ Reasons(a) # {}
         /\ \A k \in Reasons(a) : trace[k].stage \in {"", st}) => r.outcome = "failed"
    BY <1>3, <1>4, <1>5, <1>9, <2>1
  <2> QED  BY <2>2, <2>3, <2>4, <2>6, <2>7, <2>8
<1> QED  BY <1>10, <1>11 DEF st, logins, rows

\* For every log: an attempt has a row of a login exactly when its own lines
\* start it, and the row says success exactly when they go past it, and failed
\* only for a reason or a drop of its own (gpflow.go: GPAuthEvents; gpstate.go:
\* finishStateAttempt).
THEOREM AuthenticationsAreAsLogged == Spec => []AuthenticationsAsLogged
<1> DEFINE Inv == TypeOK /\ TimelineInv /\ OwnInv /\ TellsInv
<1>1. Init => Inv  BY TypeInit, TimelineInit, OwnInit, TellsInit
<1>2. Inv /\ [Next]_vars => Inv'
  BY TypeNext, TimelineNext, OwnNext, TellsNext
<1>3. Inv => AuthenticationsAsLogged  BY TellsImpliesRows
<1> QED  BY <1>1, <1>2, <1>3, PTL DEF Spec

=============================================================================
