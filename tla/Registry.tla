------------------------------ MODULE Registry ------------------------------
(***************************************************************************)
(* What the file endpoints promise a client that polls them: the life of   *)
(* an uploaded file as one entry, without goroutines, slots or disk.       *)
(*                                                                         *)
(* An entry appears as "parsing" and empty, gains results one by one,      *)
(* settles once, never changes again, and may disappear at any time, with  *)
(* everything extracted from it at once and for good.                      *)
(***************************************************************************)
CONSTANTS Ids, Tables, Kinds, NoKind

VARIABLE entry

New == [state |-> "new", kind |-> NoKind, results |-> {}]
Gone == [state |-> "gone", kind |-> NoKind, results |-> {}]

Listed(id) == entry[id].state \in {"parsing", "parsed", "failed"}

Init == entry = [id \in Ids |-> New]

Register(id) ==
    /\ entry[id] = New
    /\ entry' = [entry EXCEPT ![id] = [New EXCEPT !.state = "parsing"]]

Publish(id, t) ==
    /\ entry[id].state = "parsing"
    /\ entry' = [entry EXCEPT ![id].results = @ \cup {t}]

Classify(id, k) ==
    /\ entry[id].state = "parsing" /\ entry[id].kind = NoKind
    /\ entry' = [entry EXCEPT ![id].kind = k]

\* "parsed" says that the archive can be browsed and that its kind is known.
SettleParsed(id) ==
    /\ entry[id].state = "parsing"
    /\ "archive" \in entry[id].results /\ entry[id].kind # NoKind
    /\ entry' = [entry EXCEPT ![id].state = "parsed"]

\* A failed file has nothing to show.
SettleFailed(id) ==
    /\ entry[id].state = "parsing"
    /\ entry[id].results = {}
    /\ entry' = [entry EXCEPT ![id].state = "failed"]

Remove(id) ==
    /\ Listed(id)
    /\ entry' = [entry EXCEPT ![id] = Gone]

\* A restart loses every entry: the registry is in memory only.
Forget == entry' = [id \in Ids |-> IF Listed(id) THEN Gone ELSE entry[id]]

Next ==
    \/ \E id \in Ids :
          \/ Register(id) \/ SettleParsed(id) \/ SettleFailed(id) \/ Remove(id)
          \/ \E t \in Tables : Publish(id, t)
          \/ \E k \in Kinds : Classify(id, k)
    \/ Forget

Spec == Init /\ [][Next]_entry

=============================================================================
