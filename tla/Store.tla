------------------------------- MODULE Store -------------------------------
(***************************************************************************)
(* The in-memory file registry (backend/internal/store/store.go).          *)
(*                                                                         *)
(* Every method of store.Memory takes the store's mutex for its whole      *)
(* body, so each is one atomic action here.  A record of the files map     *)
(* keeps the two fields other components act on: the status and the kind.  *)
(* The eleven result maps become one function from table names to the set  *)
(* of ids that have an entry; what an entry holds is the parsers' matter.  *)
(***************************************************************************)
EXTENDS Naturals

CONSTANTS
    Ids,      \* file identifiers (newID draws them at random)
    Tables,   \* names of the result maps beside the files map
    Kinds,    \* what DetectKind may answer
    NoKind,   \* the zero value of the kind field, before DetectKind ran
    Absent    \* what a lookup of an unknown id yields (ErrNotFound)

Statuses == {"parsing", "parsed", "failed"}

FileRecord == [status : Statuses, kind : Kinds \cup {NoKind}]

ASSUME StoreAssumption == Absent \notin FileRecord /\ NoKind \notin Kinds

VARIABLES
    files,    \* the files map: a record, or Absent
    tables    \* tables[t]: the ids that have an entry in result map t

storeVars == <<files, tables>>

----------------------------------------------------------------------------

Known(id) == files[id] # Absent

\* The result maps in which id has an entry.
Holdings(id) == {t \in Tables : id \in tables[t]}

StoreInit ==
    /\ files = [id \in Ids |-> Absent]
    /\ tables = [t \in Tables |-> {}]

\* Create never looks: an existing record of that id is overwritten.
Create(id) ==
    /\ files' = [files EXCEPT ![id] = [status |-> "parsing", kind |-> NoKind]]
    /\ UNCHANGED tables

\* Delete cascades over every result map; an unknown id is ErrNotFound.
Delete(id) ==
    IF Known(id)
    THEN /\ files' = [files EXCEPT ![id] = Absent]
         /\ tables' = [t \in Tables |-> tables[t] \ {id}]
    ELSE UNCHANGED storeVars

\* Mistake: no lookup, as a map would allow.
SaveUnchecked(t, id) ==
    /\ tables' = [tables EXCEPT ![t] = @ \cup {id}]
    /\ UNCHANGED files

\* SaveSearchIndex, SaveGP, SaveConfig, ...: refused for an unknown id.
Save(t, id) ==
    /\ tables' = IF Known(id) THEN [tables EXCEPT ![t] = @ \cup {id}] ELSE tables
    /\ UNCHANGED files

\* SaveArchiveIndex and SetKind, which the parser calls in a row, are kept
\* apart: a DELETE may come between them.
SetKind(id, kind) ==
    /\ files' = IF Known(id) THEN [files EXCEPT ![id].kind = kind] ELSE files
    /\ UNCHANGED tables

\* Mistake: write the record back without looking whether it was there.
SetStatusUpsert(id, status) ==
    /\ files' = [files EXCEPT ![id] =
                   [status |-> status, kind |-> IF Known(id) THEN files[id].kind ELSE NoKind]]
    /\ UNCHANGED tables

SetStatus(id, status) ==
    /\ files' = IF Known(id) THEN [files EXCEPT ![id].status = status] ELSE files
    /\ UNCHANGED tables

\* The store on its own, under any caller.
StoreNext ==
    \E id \in Ids :
        \/ Create(id)
        \/ Delete(id)
        \/ \E t \in Tables : Save(t, id)
        \/ \E k \in Kinds : SetKind(id, k)
        \/ \E s \in Statuses : SetStatus(id, s)

StoreSpec == StoreInit /\ [][StoreNext]_storeVars

----------------------------------------------------------------------------

\* Type invariant of the registry.
StoreTypeOK ==
    /\ files \in [Ids -> FileRecord \cup {Absent}]
    /\ tables \in [Tables -> SUBSET Ids]

\* No result outlives its file: an id with an entry in any result map is in
\* the files map.  It is what "cascade: extracted data goes with the file"
\* (store.go, Delete) and the guard of every Save together maintain.
Cascade == \A id \in Ids : Holdings(id) # {} => Known(id)

BornFresh ==
    \A id \in Ids :
        (~Known(id) /\ Known(id)') =>
            /\ files'[id] = [status |-> "parsing", kind |-> NoKind]
            /\ Holdings(id)' = {}

\* A deleted file is not brought back by a call that still carries its id:
\* an unknown id becomes known only as a fresh record without results, which
\* only Create makes.
NoResurrection == [][BornFresh]_storeVars

=============================================================================
