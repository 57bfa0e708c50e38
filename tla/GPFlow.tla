------------------------------- MODULE GPFlow -------------------------------
(***************************************************************************)
(* The rows of the Authentication view (backend/internal/parser/gpflow.go):*)
(* GPAuthEvents makes them of the attempts of the connection timeline      *)
(* (GPState), one for each login an attempt reached.                       *)
(*                                                                         *)
(* The timeline sets neither users, nor portals and gateways, nor the      *)
(* methods of a login, so that a row has none, and no row stands for a     *)
(* login of which only the method is known.                                *)
(***************************************************************************)
EXTENDS GPState

Targets == {"portal", "gateway"}
LoginStage == [portal |-> "portal auth", gateway |-> "gateway auth"]

\* outcomeWord, of a stage an attempt has.
OutcomeWord(status) ==
    CASE status = "ok" -> "success" [] status = "failed" -> "failed"
      [] status = "reached" -> "incomplete"

AuthRow(t, s) == [target |-> t, at |-> s.at, outcome |-> OutcomeWord(s.status)]

\* The place of a stage among those of an attempt, if it has it.
StagePlaces(a, st) ==
    {k \in DOMAIN a.stages : a.stages[k].stage = st
                                /\ \A l \in 1..k-1 : a.stages[l].stage # st}

AuthRows(a) ==
    UNION {{AuthRow(t, a.stages[k]) : k \in StagePlaces(a, LoginStage[t])} : t \in Targets}

\* GPAuthEvents: the rows of all attempts, which the view shows by their time.
GPAuthEvents(attempts) == UNION {AuthRows(attempts[a]) : a \in DOMAIN attempts}

----------------------------------------------------------------------------
(* Properties.                                                             *)

\* Line k says that the agent is at a stage.
Reaches(k, st) ==
    \/ /\ trace[k].kind = "stage" /\ trace[k].stage = st
       /\ ~(st = PortalConfig /\ TeardownFollows(k))
    \/ trace[k].kind = "state" /\ trace[k].state = "connected" /\ st = Tunnel
    \/ trace[k].kind = "event" /\ trace[k].hip /\ st = HIP

\* A line of attempt a is at a stage behind st.
GoesPast(a, st) ==
    \E k \in Span(a) : \E later \in StageNames \ {""} :
        Reaches(k, later) /\ Position(later) > Position(st)

Reasons(a) == {k \in Span(a) : trace[k].kind = "event" /\ trace[k].rank < ReasonNone}

\* The last state the agent was set to is a drop: on the lines of an attempt, and
\* for the first one also before it, since nothing forgets what came before.
StateLines(a) ==
    {k \in Span(a) \cup (IF a = 1 THEN 1 .. out[1].start - 1 ELSE {}) : trace[k].kind = "state"}
LastStateIsDrop(a) ==
    \E k \in StateLines(a) :
        trace[k].state = "dropped" /\ \A x \in StateLines(a) : x <= k

\* "One row per authentication": an attempt has a row of a login exactly when
\* one of its own lines starts it, dated by the first.  The login succeeded
\* exactly when the attempt went past it; it failed only if a reason was given
\* or the session dropped, and did fail if it was as far as the attempt went
\* and no reason blames another stage.
AuthenticationsAsLogged ==
    \A a \in DOMAIN out : \A t \in Targets :
        LET st == LoginStage[t]
            logins == {k \in Span(a) : Reaches(k, st)}
            rows == {r \in GPAuthEvents(out) : r.target = t /\ r.at \in Span(a)}
        IN  /\ logins = {} => rows = {}
            /\ logins # {} => \E r \in rows :
                  /\ rows = {r} /\ r.at \in logins /\ \A k \in logins : r.at <= k
                  /\ (r.outcome = "success") = GoesPast(a, st)
                  /\ r.outcome = "failed" => Reasons(a) # {} \/ LastStateIsDrop(a)
                  /\ (/\ ~GoesPast(a, st) /\ Reasons(a) # {}
                      /\ \A k \in Reasons(a) : trace[k].stage \in {"", st})
                     => r.outcome = "failed"

\* "Derived from the attempts rather than re-scanned, so the Authentication and
\* Connection views can never disagree": an attempt that failed at a login has
\* a row of that login, which failed.
ViewsAgree ==
    \A a \in DOMAIN out : \A t \in Targets :
        (out[a].outcome = "failed" /\ out[a].stopAt = LoginStage[t])
        => \E r \in AuthRows(out[a]) : r.target = t /\ r.outcome = "failed"

=============================================================================
