------------------------------ MODULE Gateways ------------------------------
(***************************************************************************)
(* The gateways a portal offered and how the agent scored them             *)
(* (backend/internal/parser/gpflow.go, ExtractGPGateways).                 *)
(*                                                                         *)
(* A tar holds the logs of the agent in any order; their lines are read    *)
(* oldest rotation first.  The agent scores its gateways in rounds, each   *)
(* begun by "Parse gateway list"; the newest round of every portal is      *)
(* reported.  A step reads one line, which is what the regular expressions *)
(* make of it.  Names are taken up to letter case, a figure that may be    *)
(* missing is a set of at most one number, and what is only displayed      *)
(* (addresses, counts, cutoff, selection type) is left out.                *)
(***************************************************************************)
EXTENDS Integers, Sequences, FiniteSets, SequencesExt, Selection

CONSTANTS
    Collections,  \* tars of logs
    Names         \* portals, gateways and their display names

Scoring == [name : Names, priority : Int, tcp : Nat, ssl : Nat, weight : Nat]

\* The statements a line can make about gateways; fqdn names the gateway, or the
\* region in a line about regions, and n is a number it states.  A line about a
\* gateway names it, and a time has no sign.
Statement ==
    {l \in [says : {"sent", "list", "entry", "priority", "mismatch", "region", "tcp", "best",
                    "scores", "empty"},
            portal : Names \cup {""},
            fqdn : Names \cup {""}, name : Names \cup {""}, n : Int,
            scores : Seq(Scoring)] :
        /\ l.says \in {"entry", "priority"} => l.fqdn # ""
        /\ l.says = "tcp" => l.n \in Nat}

\* A member of the tar: PanGPS.<rotation>.log, the event log or another file.
\* rotation is 0 where the name has no number.
LogMember == [log : {"PanGPS", "event", "other"}, rotation : Nat, lines : Seq(Statement)]

\* GPGateway.
Gateway ==
    [fqdn : Names, name : Names \cup {""}, portal : Names \cup {""},
     priority : SUBSET Int, match : SUBSET BOOLEAN,
     tcp : SUBSET Nat, ssl : SUBSET Nat, weight : SUBSET Nat]

ASSUME GatewaysAssumption ==
    /\ "" \notin Names
    /\ Collections \subseteq Seq(LogMember)

VARIABLES
    lines, seen,                     \* the lines of the logs, and how many have been read
    curPortal,                       \* of the last pre-login
    roundPortal, order, lastTCP,     \* the round being read: its gateways, as first named
    committed, portalOrder,          \* the newest round of each portal
    best, bestByPortal,
    regionByName, sawEmpty,
    selection                        \* the answer, <<>> until it is given

gatewayVars == <<lines, seen, curPortal, roundPortal, order, lastTCP, committed, portalOrder,
                 best, bestByPortal, regionByName, sawEmpty, selection>>

----------------------------------------------------------------------------
(* The lines, oldest rotation first.                                       *)

\* rotationIndex.  The event log is not rotated and counts with the live file.
Age(member) == IF member.log = "PanGPS" THEN member.rotation ELSE 0

\* The lines of the files of one age, in the order of the tar.
LinesOfAge(tar, age) ==
    FlattenSeq([k \in DOMAIN tar |->
        IF tar[k].log # "other" /\ Age(tar[k]) = age THEN tar[k].lines ELSE <<>>])

ReadOrder(tar) ==
    LET ages == Ascending({Age(tar[k]) : k \in DOMAIN tar})
    IN  FlattenSeq([k \in DOMAIN ages |-> LinesOfAge(tar, ages[Len(ages) + 1 - k])])

\* The logs to be read.
GatewayLogs == {ReadOrder(tar) : tar \in Collections}

----------------------------------------------------------------------------
(* A round.                                                                *)

NewGateway(fqdn) ==
    [fqdn |-> fqdn, name |-> "", portal |-> roundPortal, priority |-> {}, match |-> {},
     tcp |-> {}, ssl |-> {}, weight |-> {}]

IsListed(gateways, fqdn) == \E k \in DOMAIN gateways : gateways[k].fqdn = fqdn

\* get: the gateways with one of this name among them.
Listing(gateways, fqdn) ==
    IF IsListed(gateways, fqdn) THEN gateways ELSE Append(gateways, NewGateway(fqdn))

\* What an entry or a priority line says of its gateway.  The time measured before a
\* priority line is that gateway's.
Detailed(g, l) ==
    IF l.says = "entry" THEN [g EXCEPT !.name = l.name]
    ELSE [g EXCEPT !.priority = {l.n}, !.match = {TRUE},
                   !.tcp = IF lastTCP = {} THEN @ ELSE lastTCP]
DetailedBy(gateways, l) ==
    LET all == Listing(gateways, l.fqdn)
    IN  [k \in DOMAIN all |-> IF all[k].fqdn = l.fqdn THEN Detailed(all[k], l) ELSE all[k]]

Mismatched(g, n) == [g EXCEPT !.match = {FALSE}, !.priority = {n}]

\* byName: the gateways listed under a display name.  A score is about the last of them,
\* or about one that goes by that name.
ListedUnder(name) == {k \in DOMAIN order : order[k].name = name}
ScoredGateway(score) ==
    LET under == ListedUnder(score.name)
    IN  IF under = {} THEN score.name
        ELSE order[CHOOSE k \in under : \A l \in under : l <= k].fqdn

ScoredAs(g, score) ==
    [g EXCEPT !.name = IF ListedUnder(score.name) # {} THEN @ ELSE score.name,
              !.priority = {score.priority}, !.tcp = {score.tcp},
              !.ssl = {score.ssl}, !.weight = {score.weight}]
Scored(gateways, score) ==
    LET fqdn == ScoredGateway(score)
        all == Listing(gateways, fqdn)
    IN  [k \in DOMAIN all |-> IF all[k].fqdn = fqdn THEN ScoredAs(all[k], score) ELSE all[k]]

\* The gateways of the round with the scores of a line, one after the other.
ScoredBy(scores) ==
    LET read[n \in 0..Len(scores)] == IF n = 0 THEN order ELSE Scored(read[n-1], scores[n])
    IN  read[Len(scores)]

\* The first of the scores with the lowest weight.
Lightest(scores) ==
    scores[CHOOSE k \in DOMAIN scores :
              /\ \A l \in DOMAIN scores : scores[k].weight <= scores[l].weight
              /\ \A l \in 1..(k - 1) : scores[k].weight < scores[l].weight]

----------------------------------------------------------------------------
(* The reading of one line.                                                *)

Says(what) ==
    /\ seen < Len(lines) /\ lines[seen + 1].says = what
    /\ seen' = seen + 1
Here == lines[seen + 1]

committedVars == <<committed, portalOrder, bestByPortal>>
roundVars == <<roundPortal, order, lastTCP>>
sightings == <<regionByName, sawEmpty>>

Put(f, x, v) == [y \in DOMAIN f \cup {x} |-> IF y = x THEN v ELSE f[y]]

\* commitRound: a round without gateways is forgotten, another replaces its portal's.
CommitRound ==
    IF order = <<>> THEN UNCHANGED <<committedVars, best>>
    ELSE /\ committed' = Put(committed, roundPortal, order)
         /\ portalOrder' = IF roundPortal \in DOMAIN committed THEN portalOrder
                           ELSE Append(portalOrder, roundPortal)
         /\ bestByPortal' = IF best = "" THEN bestByPortal
                            ELSE Put(bestByPortal, roundPortal, best)
         /\ best' = ""

\* Mistake: the time measured last in a round is taken into the next.
ResetRoundKeepsTime ==
    /\ Says("list")
    /\ CommitRound
    /\ order' = <<>> /\ roundPortal' = curPortal
    /\ UNCHANGED <<lastTCP, lines, curPortal, sightings, selection>>

\* resetRound, at "Parse gateway list".
ResetRound ==
    /\ Says("list")
    /\ CommitRound
    /\ order' = <<>> /\ lastTCP' = {} /\ roundPortal' = curPortal
    /\ UNCHANGED <<lines, curPortal, sightings, selection>>

PreloginSent ==
    /\ Says("sent")
    /\ curPortal' = Here.portal
    /\ UNCHANGED <<lines, roundVars, committedVars, best, sightings, selection>>

GatewayEntry ==
    /\ Says("entry")
    /\ order' = DetailedBy(order, Here)
    /\ UNCHANGED <<lines, curPortal, roundPortal, lastTCP, committedVars, best, sightings,
                   selection>>

GatewayPriority ==
    /\ Says("priority")
    /\ order' = DetailedBy(order, Here)
    /\ lastTCP' = {}
    /\ UNCHANGED <<lines, curPortal, roundPortal, committedVars, best, sightings, selection>>

\* A region that does not match is that of the last gateway of the round.
RegionMismatch ==
    /\ Says("mismatch")
    /\ order' = [k \in DOMAIN order |->
                    IF k = Len(order) THEN Mismatched(order[k], Here.n) ELSE order[k]]
    /\ UNCHANGED <<lines, curPortal, roundPortal, lastTCP, committedVars, best, sightings,
                   selection>>

RegionPriority ==
    /\ Says("region")
    /\ regionByName' = Put(regionByName, Here.name, Here.fqdn)
    /\ UNCHANGED <<lines, curPortal, roundVars, committedVars, best, sawEmpty, selection>>

ConnectionTime ==
    /\ Says("tcp")
    /\ lastTCP' = {Here.n}
    /\ UNCHANGED <<lines, curPortal, roundPortal, order, committedVars, best, sightings,
                   selection>>

BestGateway ==
    /\ Says("best")
    /\ best' = Here.fqdn
    /\ UNCHANGED <<lines, curPortal, roundVars, committedVars, sightings, selection>>

\* The compact line scores several gateways, and names the best unless it was said.
ScoreLine ==
    /\ Says("scores")
    /\ order' = ScoredBy(Here.scores)
    /\ best' = IF best # "" \/ Here.scores = <<>> THEN best
               ELSE ScoredGateway(Lightest(Here.scores))
    /\ UNCHANGED <<lines, curPortal, roundPortal, lastTCP, committedVars, sightings, selection>>

EmptyList ==
    /\ Says("empty")
    /\ sawEmpty' = TRUE
    /\ UNCHANGED <<lines, curPortal, roundVars, committedVars, best, regionByName, selection>>

----------------------------------------------------------------------------
(* The answer.                                                             *)

\* gatewayNotes: what the figures mean.
GatewayNotes(gateways) ==
    LET those == {gateways[k] : k \in DOMAIN gateways}
        negative == {k \in DOMAIN gateways : \E p \in gateways[k].priority : p < 0}
    IN  {note \in {"region mismatch", "none eligible", "empty list", "several", "weights"} :
            CASE note = "region mismatch" -> \E g \in those : FALSE \in g.match
              [] note = "none eligible" -> negative # {} /\ negative = DOMAIN gateways
              [] note = "empty list" -> sawEmpty
              [] note = "several" -> Len(gateways) > 1
              [] note = "weights" -> Cardinality({k \in DOMAIN gateways : gateways[k].weight # {}}) > 1}

\* The gateways of a portal, its best one marked.
Reported(portal) ==
    [k \in DOMAIN committed'[portal] |->
        LET g == committed'[portal][k]
        IN  [gateway |-> g,
             region |-> IF g.name \in DOMAIN regionByName THEN regionByName[g.name] ELSE "",
             selected |-> portal \in DOMAIN bestByPortal' /\ bestByPortal'[portal] = g.fqdn]]

\* The best of the collection is that of the last portal that has one.
BestOverall ==
    LET have == {k \in DOMAIN portalOrder' : portalOrder'[k] \in DOMAIN bestByPortal'}
    IN  IF best' # "" \/ have = {} THEN best'
        ELSE bestByPortal'[portalOrder'[CHOOSE k \in have : \A l \in have : l <= k]]

\* The last round ends with the lines.
Select ==
    /\ seen = Len(lines) /\ selection = <<>>
    /\ CommitRound
    /\ LET reported == FlattenSeq([k \in DOMAIN portalOrder' |-> Reported(portalOrder'[k])])
       IN  selection' = <<[gateways |-> reported, best |-> BestOverall,
                           notes |-> GatewayNotes([k \in DOMAIN reported |-> reported[k].gateway])]>>
    /\ UNCHANGED <<lines, seen, curPortal, roundVars, sightings>>

GatewayInit ==
    /\ lines \in GatewayLogs
    /\ seen = 0
    /\ curPortal = "" /\ roundPortal = "" /\ order = <<>> /\ lastTCP = {}
    /\ committed = <<>> /\ portalOrder = <<>>
    /\ best = "" /\ bestByPortal = <<>>
    /\ regionByName = <<>> /\ sawEmpty = FALSE
    /\ selection = <<>>

GatewayNext ==
    \/ PreloginSent \/ ResetRound \/ GatewayEntry \/ GatewayPriority \/ RegionMismatch
    \/ RegionPriority \/ ConnectionTime \/ BestGateway \/ ScoreLine \/ EmptyList
    \/ Select

GatewaySpec == GatewayInit /\ [][GatewayNext]_gatewayVars

----------------------------------------------------------------------------
(* The rounds of a log, told from its lines alone.                         *)

RoundStarts(text) == {0} \cup {k \in DOMAIN text : text[k].says = "list"}

LinesOfRound(text, start) ==
    {k \in DOMAIN text : k > start /\ \A s \in RoundStarts(text) : s <= start \/ s > k}

Latest(places) == CHOOSE k \in places : \A l \in places : l <= k

\* The portal the last pre-login before a round went to.
SentBefore(text, start) == {k \in 1..start : text[k].says = "sent"}
PortalOfRound(text, start) ==
    IF SentBefore(text, start) = {} THEN "" ELSE text[Latest(SentBefore(text, start))].portal

\* What the lines at some places say: the gateways they name, the scores of the compact
\* ones, the names they give one gateway, and their numbers.
Saying(text, places, what) == {k \in places : text[k].says \in what}
NamedAt(text, places) == {text[k].fqdn : k \in Saying(text, places, {"entry", "priority"})}
ScoresAt(text, places) ==
    UNION {{text[k].scores[n] : n \in DOMAIN text[k].scores} : k \in Saying(text, places, {"scores"})}
NamesAt(text, places, fqdn) ==
    {fqdn} \cup {text[k].name : k \in {l \in Saying(text, places, {"entry"}) : text[l].fqdn = fqdn}}
NumbersAt(text, places, what) == {text[k].n : k \in Saying(text, places, what)}

\* What is reported of a gateway was stated in its round.
OfRound(text, places, g) ==
    LET scores == {s \in ScoresAt(text, places) : s.name \in NamesAt(text, places, g.fqdn)}
    IN  /\ g.fqdn \in NamedAt(text, places) \cup {s.name : s \in scores}
        /\ g.name \in NamesAt(text, places, g.fqdn) \cup {""}
        /\ g.tcp \subseteq NumbersAt(text, places, {"tcp"}) \cup {s.tcp : s \in scores}
        /\ g.priority \subseteq NumbersAt(text, places, {"priority", "mismatch"})
                                    \cup {s.priority : s \in scores}
        /\ g.ssl \subseteq {s.ssl : s \in scores}
        /\ g.weight \subseteq {s.weight : s \in scores}

\* Each gateway of a round is among some, once.
AllOfRound(text, places, gateways) ==
    /\ \A g \in gateways : OfRound(text, places, g)
    /\ \A g, h \in gateways : g.fqdn = h.fqdn => g = h
    /\ \A f \in NamedAt(text, places) : \E g \in gateways : g.fqdn = f
    /\ \A s \in ScoresAt(text, places) :
          \E g \in gateways : s.name \in NamesAt(text, places, g.fqdn)

NamesGateways(text, start) ==
    Saying(text, LinesOfRound(text, start), {"entry", "priority"}) # {}
        \/ ScoresAt(text, LinesOfRound(text, start)) # {}
RoundsOf(text, portal) ==
    {s \in RoundStarts(text) : PortalOfRound(text, s) = portal /\ NamesGateways(text, s)}

\* Of every portal the newest round that named a gateway is reported, whole and unmixed,
\* although the rounds of several portals alternate: no gateway the portal no longer
\* offers, and no time or priority measured for an earlier list (comments at gpflow.go
\* 760-766 and 842-855).
NewestRoundPerPortal ==
    selection # <<>> =>
        LET reported == {selection[1].gateways[k].gateway : k \in DOMAIN selection[1].gateways}
            offering == {s \in RoundStarts(lines) : NamesGateways(lines, s)}
        IN  /\ {g.portal : g \in reported} = {PortalOfRound(lines, s) : s \in offering}
            /\ \A p \in {PortalOfRound(lines, s) : s \in offering} :
                  AllOfRound(lines, LinesOfRound(lines, Latest(RoundsOf(lines, p))),
                             {g \in reported : g.portal = p})

=============================================================================
