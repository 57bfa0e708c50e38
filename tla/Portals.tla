------------------------------ MODULE Portals ------------------------------
(***************************************************************************)
(* What a collection knows of each portal                                  *)
(* (backend/internal/parser/gpportal.go, portalFold).                      *)
(*                                                                         *)
(* The lines of the agent's logs are fed oldest rotation first; a step is  *)
(* one line, which is what the regular expressions make of it.  Neither    *)
(* the answer to a pre-login nor a round of gateways names its portal, so  *)
(* both are held until a line does.  Addresses and names are taken up to   *)
(* letter case; a line is dated by its position.                           *)
(***************************************************************************)
EXTENDS Naturals, Sequences, FiniteSets, SequencesExt

CONSTANTS
    Feeds,      \* what may be fed: lines, after a start
    MaxFed      \* bound: lines fed after the start

\* What a login says of the portal; a browser or a tenant is a value like another.
Fields == {"region", "auth", "browser", "tenant", "cloud"}

\* A line, by what it says.  What an expression captures is not empty: a fact has a
\* value, and a line that names a portal has its address (the agent writes no address
\* that is a full stop and nothing else).
OfGateway == {"one", "priority", "manual only", "description", "address", "weight"}
Naming == {"cookie", "completed"}
PortalLine ==
    {l \in [says : OfGateway \cup Naming
                      \cup {"prelogin", "fact", "discover", "region mismatch", "chosen",
                            "tunnel", "hip", "reply", "user"},
            addr : STRING, field : Fields \cup {""}, value : STRING, n : Nat] :
        /\ l.says = "fact" => l.field # "" /\ l.value # ""
        /\ l.says \in Naming => l.addr # ""}

ASSUME PortalsAssumption == Feeds \subseteq [start : Seq(PortalLine), lines : SUBSET PortalLine]

VARIABLES
    feed, fed,            \* the kind of log, and the lines fed of it
    portals, portalsSeen, \* each portal's record, and the portals as first named
    current,              \* the portal named last in this login, "" if none was
    pending,              \* what was said before it was named
    round, roundCnt, roundOwner, roundOpen

foldVars == <<feed, fed, portals, portalsSeen, current, pending,
              round, roundCnt, roundOwner, roundOpen>>

NoFacts == [f \in Fields |-> ""]
NewPortal ==
    [facts |-> NoFacts, user |-> "", gateways |-> <<>>, count |-> 0, selected |-> "",
     success |-> FALSE, tunnels |-> 0, hips |-> 0, reply |-> "", first |-> 0, last |-> 0]

----------------------------------------------------------------------------
(* Portals.                                                                *)

\* portal: the records with one of this portal.
With(addr) ==
    [a \in DOMAIN portals \cup {addr} |-> IF a \in DOMAIN portals THEN portals[a] ELSE NewPortal]
Register(addr) ==
    portalsSeen' = IF addr \in DOMAIN portals THEN portalsSeen ELSE Append(portalsSeen, addr)

\* setAuth: "a SAML method should not be downgraded" to the credentials of a prompt.
SetFact(facts, field, value) ==
    IF field = "auth" /\ facts.auth # "" /\ value = "credentials" THEN facts
    ELSE [facts EXCEPT ![field] = value]

\* nameCurrent: what was held is the portal's.
WithHeld(p) ==
    [p EXCEPT !.facts = [f \in Fields |-> IF pending[f] # "" THEN pending[f] ELSE p.facts[f]],
              !.first = IF p.first = 0 THEN Len(fed') ELSE p.first,
              !.last = Len(fed')]
NamedIn(p, l) ==
    [WithHeld(p) EXCEPT !.user = IF l.value # "" THEN l.value ELSE @,
                        !.success = @ \/ l.says = "completed"]

----------------------------------------------------------------------------
(* Rounds of gateways.                                                     *)

NewPortalGateway(fqdn) == [fqdn |-> fqdn, name |-> "", manual |-> FALSE, excluded |-> "",
                           selected |-> FALSE]

\* roundGateway: the round with one of this name.
RoundWith(fqdn) ==
    IF \E k \in DOMAIN round : round[k].fqdn = fqdn THEN round
    ELSE Append(round, NewPortalGateway(fqdn))

Owner == IF roundOwner # "" THEN roundOwner ELSE current

\* The gateway of the chosen display name, the last of several.
Chosen(gateways, name) ==
    LET named == {k \in DOMAIN gateways : gateways[k].name = name}
    IN  IF name = "" \/ named = {} THEN {}
        ELSE {gateways[CHOOSE k \in named : \A l \in named : l <= k].fqdn}

Committed(p, gateways, name) ==
    [p EXCEPT !.gateways = gateways,
              !.count = IF roundCnt > 0 THEN roundCnt ELSE @,
              !.selected = IF Chosen(gateways, name) = {} THEN @
                           ELSE CHOOSE g \in Chosen(gateways, name) : TRUE]

Commits(gateways) == Owner # "" /\ gateways # <<>>

\* Mistake: the round goes to the portal that was named last.
CommitToCurrent(gateways, name) ==
    IF current = "" \/ gateways = <<>> THEN UNCHANGED <<portals, portalsSeen>>
    ELSE /\ Register(current)
         /\ portals' = [With(current) EXCEPT ![current] = Committed(@, gateways, name)]

\* commitRound: "the newest round is its current truth".
CommitPortalRound(gateways, name) ==
    IF ~Commits(gateways) THEN UNCHANGED <<portals, portalsSeen>>
    ELSE /\ Register(Owner)
         /\ portals' = [With(Owner) EXCEPT ![Owner] = Committed(@, gateways, name)]

----------------------------------------------------------------------------
(* The reading of one line.                                                *)

roundState == <<round, roundCnt, roundOwner, roundOpen>>

Feed(l) == fed' = Append(fed, l) /\ UNCHANGED feed

\* Mistake: the portal of the login before is not forgotten.
NewLoginKeepsCurrent(l) ==
    /\ l.says = "prelogin" /\ Feed(l)
    /\ pending' = NoFacts
    /\ round' = <<>> /\ roundOpen' = FALSE
    /\ UNCHANGED <<current, portals, portalsSeen, roundCnt, roundOwner>>

\* A pre-login: "the previous portal is forgotten".
NewLogin(l) ==
    /\ l.says = "prelogin" /\ Feed(l)
    /\ pending' = NoFacts /\ current' = ""
    /\ round' = <<>> /\ roundOpen' = FALSE
    /\ UNCHANGED <<portals, portalsSeen, roundCnt, roundOwner>>

\* setRegion, setAuth, setBrowser, setTenant, setCloudAuth.
Fact(l) ==
    /\ l.says = "fact" /\ Feed(l)
    /\ IF current = ""
       THEN pending' = SetFact(pending, l.field, l.value) /\ UNCHANGED portals
       ELSE /\ portals' = [portals EXCEPT ![current].facts = SetFact(@, l.field, l.value)]
            /\ UNCHANGED pending
    /\ UNCHANGED <<portalsSeen, current, roundState>>

\* A cookie, of a user or of none, and the completion of a login name the portal.
NamePortal(l) ==
    /\ l.says \in Naming /\ Feed(l)
    /\ current' = l.addr /\ pending' = NoFacts
    /\ Register(l.addr)
    /\ portals' = [With(l.addr) EXCEPT ![l.addr] = NamedIn(@, l)]
    /\ UNCHANGED roundState

\* "The round belongs to the portal that is current when discovery starts"; one
\* that is still open ends here.
Discover(l) ==
    /\ l.says = "discover" /\ Feed(l)
    /\ CommitPortalRound(round, "")
    /\ round' = <<>> /\ roundOwner' = current /\ roundOpen' = TRUE /\ roundCnt' = l.n
    /\ UNCHANGED <<current, pending>>

\* What a line says of its gateway.
Described(g, l) ==
    CASE l.says = "one" -> [g EXCEPT !.manual = @ \/ l.n = 1]
      [] l.says = "manual only" -> [g EXCEPT !.excluded = "manual-only"]
      [] l.says \in {"description", "weight"} -> [g EXCEPT !.name = l.value]
      [] l.says = "address" -> [g EXCEPT !.name = IF @ = "" THEN l.value ELSE @]
      [] OTHER -> g

\* A line about one gateway of the round.
DescribeGateway(l) ==
    /\ l.says \in OfGateway /\ Feed(l)
    /\ round' =
          IF ~roundOpen THEN round
          ELSE [k \in DOMAIN RoundWith(l.addr) |->
                  LET g == RoundWith(l.addr)[k]
                  IN  IF g.fqdn = l.addr THEN Described(g, l) ELSE g]
    /\ UNCHANGED <<portals, portalsSeen, current, pending, roundCnt, roundOwner, roundOpen>>

\* Regions exclude a gateway by its index in the round, from 0.
ExcludeByRegion(l) ==
    /\ l.says = "region mismatch" /\ Feed(l)
    /\ round' = IF roundOpen /\ l.n < Len(round)
                THEN [round EXCEPT ![l.n + 1].excluded = "region"] ELSE round
    /\ UNCHANGED <<portals, portalsSeen, current, pending, roundCnt, roundOwner, roundOpen>>

\* The gateways of the chosen name.
Marked(gateways, name) ==
    [k \in DOMAIN gateways |-> [gateways[k] EXCEPT !.selected = gateways[k].name = name]]

\* The choice ends a round that can be committed.
ChooseGateway(l) ==
    /\ l.says = "chosen" /\ Feed(l)
    /\ LET marked == Marked(round, l.value)
       IN  IF ~roundOpen THEN UNCHANGED <<portals, portalsSeen, round, roundOpen>>
           ELSE /\ CommitPortalRound(marked, l.value)
                /\ round' = IF Commits(marked) THEN <<>> ELSE marked
                /\ roundOpen' = ~Commits(marked)
    /\ UNCHANGED <<current, pending, roundCnt, roundOwner>>

\* portalOutcome: what happened is the current portal's.
Happened(p, l) ==
    CASE l.says = "tunnel" -> [p EXCEPT !.tunnels = @ + 1]
      [] l.says = "hip" -> [p EXCEPT !.hips = @ + 1]
      [] l.says = "reply" -> [p EXCEPT !.reply = l.value]
      [] OTHER -> [p EXCEPT !.user = IF @ = "" THEN l.value ELSE @]

PortalOutcome(l) ==
    /\ l.says \in {"tunnel", "hip", "reply", "user"} /\ Feed(l)
    /\ portals' = IF current = "" THEN portals
                  ELSE [portals EXCEPT ![current] = Happened(@, l)]
    /\ UNCHANGED <<portalsSeen, current, pending, roundState>>

\* result: portals that let the user in first, then the latest; in both the order in
\* which they were named.
PortalOf(k) == portals[portalsSeen[k]]
Precedes(k, l) ==
    LET p == PortalOf(k)  q == PortalOf(l)
    IN  \/ p.success /\ ~q.success
        \/ p.success = q.success /\ p.last > q.last
        \/ p.success = q.success /\ p.last = q.last /\ k < l

\* The portal that k - 1 others precede.
Ranked(k) ==
    CHOOSE l \in DOMAIN portalsSeen :
        Cardinality({j \in DOMAIN portalsSeen : Precedes(j, l)}) = k - 1

PortalResult ==
    [k \in DOMAIN portalsSeen |->
        LET p == PortalOf(Ranked(k))
        IN  [address |-> portalsSeen[Ranked(k)], portal |-> p,
             count |-> IF p.count = 0 THEN Len(p.gateways) ELSE p.count]]

FoldInit ==
    /\ feed \in Feeds /\ fed = <<>>
    /\ portals = <<>> /\ portalsSeen = <<>>
    /\ current = "" /\ pending = NoFacts
    /\ round = <<>> /\ roundCnt = 0 /\ roundOwner = "" /\ roundOpen = FALSE

FeedLine(l) ==
    \/ NewLogin(l) \/ Fact(l) \/ NamePortal(l) \/ Discover(l) \/ DescribeGateway(l)
    \/ ExcludeByRegion(l) \/ ChooseGateway(l) \/ PortalOutcome(l)

\* The line a start still holds, or any.
NextLines ==
    IF Len(fed) < Len(feed.start) THEN {feed.start[Len(fed) + 1]}
    ELSE IF Len(fed) < Len(feed.start) + MaxFed THEN feed.lines ELSE {}

FoldNext == \E l \in NextLines : FeedLine(l)

FoldSpec == FoldInit /\ [][FoldNext]_foldVars

----------------------------------------------------------------------------
(* The logins and rounds of a log, told from its lines alone.              *)

Lines(text, says) == {k \in DOMAIN text : text[k].says \in says}
LastOf(places) == CHOOSE k \in places : \A l \in places : l <= k
FirstOf(places) == CHOOSE k \in places : \A l \in places : k <= l

\* Lines of one login have no pre-login between them.
SameLogin(text, k, l) ==
    \A s \in Lines(text, {"prelogin"}) : ~(l < s /\ s <= k) /\ ~(k < s /\ s <= l)
NamingIn(text, k) == {l \in Lines(text, Naming) : SameLogin(text, k, l)}
NamedBefore(text, k) == {l \in NamingIn(text, k) : l < k}

\* The portal named last before line k in its login, or else the first behind it.
PortalAt(text, k) ==
    IF NamedBefore(text, k) # {} THEN {text[LastOf(NamedBefore(text, k))].addr}
    ELSE IF NamingIn(text, k) # {} THEN {text[FirstOf(NamingIn(text, k))].addr} ELSE {}

\* What was said of a portal is what the logins at it said last.
SaidOf(text, addr, f) ==
    {k \in Lines(text, {"fact"}) : text[k].field = f /\ PortalAt(text, k) = {addr}}
SaidLast(text, said, f, value) ==
    IF said = {} THEN value = ""
    ELSE \/ value = text[LastOf(said)].value
         \/ f = "auth" /\ text[LastOf(said)].value = "credentials"
            /\ value \in {text[k].value : k \in said}
FactsOfOwnLogin(text, addr, facts) ==
    \A f \in Fields : SaidLast(text, SaidOf(text, addr, f), f, facts[f])

RoundLines(text, d, e) == {k \in Lines(text, OfGateway) : d < k /\ k < e}
NamedWithin(text, d, e) == {l \in NamingIn(text, d) : d < l /\ l < e}

\* The portal of a round from d that is read up to line e.
RoundPortalAt(text, d, e) ==
    IF NamedBefore(text, d) # {} THEN {text[LastOf(NamedBefore(text, d))].addr}
    ELSE IF NamedWithin(text, d, e) # {} THEN {text[LastOf(NamedWithin(text, d, e))].addr}
    ELSE {}

\* A round from d that ends at e counts.
Counts(text, d, e) == RoundLines(text, d, e) # {} /\ RoundPortalAt(text, d, e) # {}

\* Line e ends the round from d, and the round counts.
EndsRound(text, d, e) ==
    /\ d \in Lines(text, {"discover"}) /\ e \in Lines(text, {"chosen", "discover"})
    /\ d < e /\ SameLogin(text, d, e)
    /\ Counts(text, d, e)
    /\ \A x \in Lines(text, {"discover"}) : ~(d < x /\ x < e)
    /\ \A x \in Lines(text, {"chosen"}) : d < x /\ x < e => ~Counts(text, d, x)

\* The gateways of a portal are those of its newest round, and no other's.
RoundsAt(text, addr) ==
    {x \in (DOMAIN text) \X (DOMAIN text) :
        EndsRound(text, x[1], x[2]) /\ RoundPortalAt(text, x[1], x[2]) = {addr}}
RoundOfOwnPortal(text, addr, gateways) ==
    LET rounds == RoundsAt(text, addr)
        newest == CHOOSE x \in rounds : \A y \in rounds : y[2] <= x[2]
    IN  {gateways[k].fqdn : k \in DOMAIN gateways} =
            IF rounds = {} THEN {}
            ELSE {text[k].addr : k \in RoundLines(text, newest[1], newest[2])}

\* An endpoint that talks to several portals does not mix them: each that is named
\* is reported once, and a region, a way to authenticate or a gateway is reported of
\* the portal whose login said it, although the lines that say it name no portal
\* (feed, nameCurrent, commitRound, result).
PortalsKeepTheirOwn ==
    LET reported == PortalResult
    IN  /\ {reported[k].address : k \in DOMAIN reported} =
              {fed[k].addr : k \in Lines(fed, Naming)}
        /\ IsInjective([k \in DOMAIN reported |-> reported[k].address])
        /\ \A k \in DOMAIN reported :
              /\ FactsOfOwnLogin(fed, reported[k].address, reported[k].portal.facts)
              /\ RoundOfOwnPortal(fed, reported[k].address, reported[k].portal.gateways)

=============================================================================
