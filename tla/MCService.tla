----------------------------- MODULE MCService -----------------------------
(***************************************************************************)
(* Instances of Service for TLC: archives chosen to take every branch of   *)
(* the upload and of the parser.                                           *)
(***************************************************************************)
EXTENDS Service, TLC

MCKinds == {"firewall", "gp-agent", "unknown"}

Tgz(kind, xml, series, yields) ==
    [zip |-> "no", listing |-> "files", kind |-> kind, xml |-> xml,
     series |-> series, yields |-> yields]

\* A tech-support file in which every pass finds something.
FullFirewall == Tgz("firewall", "good", "apps", {"sysinfo", "logsigs", "licenses"})

\* Another firewall's, with its own config.
PlainFirewall == Tgz("firewall", "good", "none", {"sysinfo"})

\* One whose config cannot be parsed and whose counters name no application.
BrokenConfig == Tgz("firewall", "broken", "plain", {"logsigs", "appstats"})

\* An archive nobody recognises, in which nothing is found, and one cut short.
Unrecognised == Tgz("unknown", "none", "none", {})
Truncated == [Unrecognised EXCEPT !.listing = "partial"]

\* A GlobalProtect collection from Windows, and a zip that cannot be converted.
AgentZip == [Tgz("gp-agent", "none", "none", {"logsigs"}) EXCEPT !.zip = "good"]
BadZip == [AgentZip EXCEPT !.zip = "bad"]

\* Not an archive, and an archive without files.
Unreadable == [Unrecognised EXCEPT !.listing = "unreadable"]
Empty == [Unrecognised EXCEPT !.listing = "empty"]

AllBundles == {FullFirewall, BrokenConfig, Truncated, AgentZip, BadZip, Unreadable, Empty}
PairBundles == {FullFirewall, PlainFirewall, AgentZip, Unreadable}
OneBundle == {FullFirewall}

ClientSymmetry == Permutations(Clients)

----------------------------------------------------------------------------
(* Progress, in two scenes: the parsers of two files compete for the slot, *)
(* while a client uploads and deletes, or two clients of one file, whose   *)
(* config may not parse, compete for cfgMu.  A content request waits where *)
(* a search does.  All that the scenes forbid is the beginning of a request*)
(* or its kind, and fairness asks nothing of either.                       *)

LiveBundles == {FullFirewall, Unreadable, BrokenConfig}

FirstId == CHOOSE id \in Ids : TRUE
FirstClient == CHOOSE c \in Clients : TRUE

SlotScene ==
    /\ \A c \in Clients \ {FirstClient} : req[c] = NoRequest
    /\ req[FirstClient].op \in {NoRequest.op, "upload", "delete"}
    /\ \A id \in Minted : body[id] \in {FullFirewall, Unreadable}
LockScene ==
    /\ \A c \in Clients : req[c].op # "content"
    /\ Minted \subseteq {FirstId} /\ \A id \in Minted : body[id] # Unreadable

LiveNext == Next /\ (SlotScene \/ LockScene)'
LiveSpec == Init /\ [][LiveNext]_vars /\ Fairness

=============================================================================
