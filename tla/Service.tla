------------------------------ MODULE Service ------------------------------
(***************************************************************************)
(* The API server (backend/internal/api/server.go) over the registry       *)
(* (Store) and the upload directory.                                       *)
(*                                                                         *)
(* Three kinds of processes interleave: HTTP handlers (one per request),   *)
(* the parser goroutine every accepted upload starts, and the restart of   *)
(* the whole process.  They share the registry, the files on disk, the     *)
(* parse slot (a channel of capacity one) and the config-tree cache.       *)
(*                                                                         *)
(* A step is one call another process could notice: a method of the store, *)
(* an operation on a file of the upload directory, a slot or lock          *)
(* operation.  The bytes of an archive are abstracted to a Bundle: what    *)
(* the passes of the parser make of it.                                    *)
(***************************************************************************)
EXTENDS Store, Sequences

CONSTANTS
    Clients,   \* concurrent HTTP requests
    Bundles,   \* archives that may be uploaded
    NoFile,    \* no file at that path, or no open descriptor
    Nobody     \* no request, no id

Bundle ==
    [zip     : {"no", "good", "bad"},              \* needs converting, and does it work
     listing : {"unreadable", "empty", "files",    \* what IndexArchive makes of it;
                "partial"},                        \* ... of one that breaks off
     kind    : Kinds,                              \* what DetectKind makes of it
     xml     : {"none", "good", "broken"},         \* its running config
     series  : {"none", "plain", "apps"},          \* its counters; with per-app ones?
     yields  : SUBSET Tables]                      \* other passes that find something

ResultTables == {"archive", "searchIdx", "gp", "sysinfo", "counters", "config",
                 "logsigs", "anomalies", "memory", "appstats", "licenses"}

ASSUME ServiceAssumption ==
    /\ Tables = ResultTables
    /\ {"firewall", "gp-agent", "unknown"} = Kinds
    /\ Bundles \subseteq Bundle
    /\ NoFile \notin Bundle
    /\ Nobody \notin Clients /\ Nobody \notin Ids

VARIABLES
    tgz,         \* <id>.tgz on disk: the archive it holds, or NoFile
    conv,        \* ids with a <id>.tgz.conv on disk
    blob,        \* ids with a <id>.tgz.sblob on disk
    slotTaken,   \* parseSlot holds its one token
    job,         \* the parser goroutine of each id
    req,         \* the request each client last made
    cfgLock,     \* holder of cfgMu, or Nobody
    cfgCache,    \* cfgID and cfgTree
    body,        \* history: what was uploaded under each id newID returned
    registered,  \* history: ids Create was called with
    lost         \* history: ids from before the last restart

disk == <<tgz, conv, blob>>
cache == <<cfgLock, cfgCache>>
history == <<body, registered, lost>>
vars == <<files, tables, tgz, conv, blob, slotTaken, job, req,
          cfgLock, cfgCache, body, registered, lost>>

Minted == {id \in Ids : body[id] # NoFile}

----------------------------------------------------------------------------
(* Process states.                                                         *)

JobStates == {"none", "queued", "open", "extract", "kind", "blob", "settle", "release"}

Job == [at : JobStates, pass : Nat \ {0}, fd : Bundles \cup {NoFile},
        status : {"parsed", "failed"}, kind : Kinds,
        series : {"none", "plain", "apps"}]

NoJob == [at |-> "none", pass |-> 1, fd |-> NoFile, status |-> "parsed",
          kind |-> "unknown", series |-> "none"]

\* The passes of parseArchive over an archive of that kind, in order; the
\* first decides the kind, so it heads both.
Passes(kind) ==
    IF kind = "gp-agent"
    THEN <<"archive", "searchIdx", "gp", "logsigs">>
    ELSE <<"archive", "searchIdx", "sysinfo", "counters", "config", "logsigs",
           "anomalies", "memory", "appstats", "licenses">>

Pass(id) == Passes(job[id].kind)[job[id].pass]

\* The goroutine of id has received the parse slot and not yet returned it.
Parsing(id) == job[id].at \notin {"none", "queued"}

Ops == {"none", "upload", "delete", "search", "content", "config"}

RequestStates ==
    {"idle", "done", "copy", "convert", "rename", "register", "unlink", "unlinkBlob",
     "unregister", "openTgz", "lookup", "openBlob", "scan", "doc", "lock",
     "openConfig", "parseConfig"}

Codes == {0, 200, 201, 204, 400, 404, 500}

Request == [op : Ops, id : Ids \cup {Nobody}, at : RequestStates,
            fd : Bundles \cup {NoFile}, code : Codes]

NoRequest == [op |-> "none", id |-> Nobody, at |-> "idle", fd |-> NoFile, code |-> 0]

Active(c) == req[c].at \notin {"idle", "done"}

Doing(c, op, at) == req[c].op = op /\ req[c].at = at

Start(c, op, id, at, fd) ==
    /\ ~Active(c)
    /\ req' = [req EXCEPT ![c] = [op |-> op, id |-> id, at |-> at, fd |-> fd, code |-> 0]]

\* The handler's first lookup of the file fails.
NotFound(c, op, id) ==
    /\ ~Active(c)
    /\ req' = [req EXCEPT ![c] =
                 [op |-> op, id |-> id, at |-> "done", fd |-> NoFile, code |-> 404]]

Goto(c, at) == req' = [req EXCEPT ![c].at = at]

Answer(c, code) == req' = [req EXCEPT ![c].at = "done", ![c].code = code]

Init ==
    /\ StoreInit
    /\ tgz = [id \in Ids |-> NoFile] /\ conv = {} /\ blob = {}
    /\ slotTaken = FALSE
    /\ job = [id \in Ids |-> NoJob]
    /\ req = [c \in Clients |-> NoRequest]
    /\ cfgLock = Nobody /\ cfgCache = [id |-> Nobody, tree |-> NoFile]
    /\ body = [id \in Ids |-> NoFile] /\ registered = {} /\ lost = {}

----------------------------------------------------------------------------
(* handleUpload.  A request refused before os.Create touches nothing and   *)
(* is left out.                                                            *)

UploadBegin(c) == \E id \in Ids \ Minted, b \in Bundles :
    /\ Start(c, "upload", id, "copy", NoFile)
    /\ body' = [body EXCEPT ![id] = b]
    /\ tgz' = [tgz EXCEPT ![id] = b]
    /\ UNCHANGED <<storeVars, conv, blob, slotTaken, job, cache, registered, lost>>

UploadCopy(c) == LET id == req[c].id IN
    /\ Doing(c, "upload", "copy")
    /\ \/ /\ Answer(c, 500)                      \* io.Copy failed
          /\ tgz' = [tgz EXCEPT ![id] = NoFile]
          /\ UNCHANGED conv
       \/ /\ tgz[id].zip = "no"
          /\ Goto(c, "register")
          /\ UNCHANGED <<tgz, conv>>
       \/ /\ tgz[id].zip # "no"                  \* LooksLikeZip
          /\ Goto(c, "convert")
          /\ conv' = conv \cup {id}
          /\ UNCHANGED tgz
    /\ UNCHANGED <<storeVars, blob, slotTaken, job, cache, history>>

\* Mistake: only the archive is removed.
UploadDiscardArchive(c, code) ==
    /\ Answer(c, code)
    /\ tgz' = [tgz EXCEPT ![req[c].id] = NoFile]
    /\ UNCHANGED conv

\* os.Remove of the conversion and of the archive, then an error answer.
UploadDiscard(c, code) ==
    /\ Answer(c, code)
    /\ conv' = conv \ {req[c].id}
    /\ tgz' = [tgz EXCEPT ![req[c].id] = NoFile]

UploadConvert(c) ==
    /\ Doing(c, "upload", "convert")
    /\ IF tgz[req[c].id].zip = "bad"
       THEN UploadDiscard(c, 400)
       ELSE Goto(c, "rename") /\ UNCHANGED <<tgz, conv>>
    /\ UNCHANGED <<storeVars, blob, slotTaken, job, cache, history>>

\* Mistake: no return after a failed rename.
UploadRenameGoesOn(c) ==
    /\ Doing(c, "upload", "rename")
    /\ Goto(c, "register")
    /\ conv' = conv \ {req[c].id}
    /\ tgz' \in {tgz, [tgz EXCEPT ![req[c].id] = NoFile]}
    /\ UNCHANGED <<storeVars, blob, slotTaken, job, cache, history>>

UploadRename(c) ==
    /\ Doing(c, "upload", "rename")
    /\ \/ UploadDiscard(c, 500)
       \/ /\ Goto(c, "register")
          /\ conv' = conv \ {req[c].id}
          /\ UNCHANGED tgz
    /\ UNCHANGED <<storeVars, blob, slotTaken, job, cache, history>>

\* store.Create, go s.parseArchive(rec), 201.
UploadRegister(c) == LET id == req[c].id IN
    /\ Doing(c, "upload", "register")
    /\ Create(id)
    /\ registered' = registered \cup {id}
    /\ job' = [job EXCEPT ![id] = [NoJob EXCEPT !.at = "queued"]]
    /\ Answer(c, 201)
    /\ UNCHANGED <<disk, slotTaken, cache, body, lost>>

----------------------------------------------------------------------------
(* parseArchive, the goroutine of id.                                      *)

parserKeeps == <<tgz, conv, req, cache, history>>

\* Mistake: a channel with room for a second parser.
AcquireSecondSlot(id) ==
    /\ job[id].at = "queued"
    /\ slotTaken' = TRUE
    /\ job' = [job EXCEPT ![id].at = "open"]
    /\ UNCHANGED <<storeVars, blob, parserKeeps>>

AcquireSlot(id) ==
    /\ job[id].at = "queued"
    /\ ~slotTaken
    /\ slotTaken' = TRUE
    /\ job' = [job EXCEPT ![id].at = "open"]
    /\ UNCHANGED <<storeVars, blob, parserKeeps>>

\* Every pass opens the stored archive anew; an open that fails leaves NoFile.
OpenArchive(id) ==
    /\ job[id].at = "open"
    /\ job' = [job EXCEPT ![id].at = "extract", ![id].fd = tgz[id]]
    /\ UNCHANGED <<storeVars, blob, slotTaken, parserKeeps>>

\* The pass is over: close the archive, go on to the next one.
Advance(id, j) ==
    job' = [job EXCEPT ![id] =
              IF j.pass < Len(Passes(j.kind))
              THEN [j EXCEPT !.at = "open", !.fd = NoFile, !.pass = @ + 1]
              ELSE [j EXCEPT !.at = "settle", !.fd = NoFile]]

Readable(b) == b # NoFile /\ b.listing \in {"files", "partial"}

\* Mistake: an unreadable archive is logged, not failed.
IndexArchiveLenient(id) == LET fd == job[id].fd IN
    /\ job[id].at = "extract" /\ Pass(id) = "archive"
    /\ IF Readable(fd) THEN Save("archive", id) ELSE UNCHANGED storeVars
    /\ job' = [job EXCEPT ![id] =
                 [@ EXCEPT !.at = "kind", !.kind = IF Readable(fd) THEN fd.kind ELSE "unknown"]]
    /\ UNCHANGED <<blob, slotTaken, parserKeeps>>

\* Mistake: return at once from an archive that cannot be read.
IndexArchiveReturns(id) == LET fd == job[id].fd IN
    /\ job[id].at = "extract" /\ Pass(id) = "archive"
    /\ IF Readable(fd) THEN Save("archive", id) ELSE UNCHANGED storeVars
    /\ job' = [job EXCEPT ![id] =
                 IF Readable(fd) THEN [@ EXCEPT !.at = "kind", !.kind = fd.kind]
                                 ELSE [@ EXCEPT !.at = "release", !.fd = NoFile]]
    /\ UNCHANGED <<blob, slotTaken, parserKeeps>>

\* Pass 1: only a stored listing lets the parse go on.
IndexArchive(id) == LET fd == job[id].fd IN
    /\ job[id].at = "extract" /\ Pass(id) = "archive"
    /\ IF Readable(fd) THEN Save("archive", id) ELSE UNCHANGED storeVars
    /\ job' = [job EXCEPT ![id] =
                 IF Readable(fd) /\ Known(id)
                 THEN [@ EXCEPT !.at = "kind", !.kind = fd.kind]
                 ELSE [@ EXCEPT !.at = "settle", !.fd = NoFile, !.status = "failed"]]
    /\ UNCHANGED <<blob, slotTaken, parserKeeps>>

RecordKind(id) ==
    /\ job[id].at = "kind"
    /\ SetKind(id, job[id].kind)
    /\ Advance(id, job[id])
    /\ UNCHANGED <<blob, slotTaken, parserKeeps>>

\* Mistake: hand the index out while its blob is being written.
CreateBlobSavesEarly(id) ==
    /\ job[id].at = "extract" /\ Pass(id) = "searchIdx"
    /\ IF job[id].fd # NoFile
       THEN /\ blob' = blob \cup {id}
            /\ job' = [job EXCEPT ![id].at = "blob"]
            /\ Save("searchIdx", id)
       ELSE Advance(id, job[id]) /\ UNCHANGED <<blob, storeVars>>
    /\ UNCHANGED <<slotTaken, parserKeeps>>

\* Pass 1b, BuildSearchIndex: the blob appears at os.Create ...
CreateBlob(id) ==
    /\ job[id].at = "extract" /\ Pass(id) = "searchIdx"
    /\ \/ /\ job[id].fd # NoFile
          /\ blob' = blob \cup {id}
          /\ job' = [job EXCEPT ![id].at = "blob"]
       \/ /\ Advance(id, job[id])       \* no archive to read, or os.Create failed
          /\ UNCHANGED blob
    /\ UNCHANGED <<storeVars, slotTaken, parserKeeps>>

\* ... and stays whether or not it could be written to the end.
FinishBlob(id) ==
    /\ job[id].at = "blob"
    /\ \/ Save("searchIdx", id)
       \/ UNCHANGED storeVars           \* Flush failed: logged only
    /\ Advance(id, job[id])
    /\ UNCHANGED <<blob, slotTaken, parserKeeps>>

\* Does pass p store a result?  Some passes do without the archive.
Stores(p, j) ==
    \/ p \in {"gp", "anomalies"}
    \/ p = "appstats" /\ j.series = "apps"
    \/ /\ j.fd # NoFile
       /\ CASE p = "memory"   -> TRUE
            [] p = "counters" -> j.fd.series # "none"
            [] p = "config"   -> j.fd.xml # "none"
            [] OTHER          -> p \in j.fd.yields

\* Passes 1c and 2 to 7: extract, store what was found, go on.
Extract(id) == LET j == job[id] IN
    /\ j.at = "extract" /\ Pass(id) \notin {"archive", "searchIdx"}
    /\ IF Stores(Pass(id), j) THEN Save(Pass(id), id) ELSE UNCHANGED storeVars
    /\ Advance(id, IF Pass(id) = "counters" /\ j.fd # NoFile
                   THEN [j EXCEPT !.series = j.fd.series]
                   ELSE j)
    /\ UNCHANGED <<blob, slotTaken, parserKeeps>>

Settle(id) ==
    /\ job[id].at = "settle"
    /\ SetStatus(id, job[id].status)
    /\ job' = [job EXCEPT ![id].at = "release"]
    /\ UNCHANGED <<blob, slotTaken, parserKeeps>>

\* The deferred receive from parseSlot; the goroutine ends.
ReleaseSlot(id) ==
    /\ job[id].at = "release"
    /\ slotTaken' = FALSE
    /\ job' = [job EXCEPT ![id] = NoJob]
    /\ UNCHANGED <<storeVars, blob, parserKeeps>>

----------------------------------------------------------------------------
(* handleDelete.                                                           *)

DeleteGet(c) == \E id \in Minted :
    /\ IF Known(id)
       THEN Start(c, "delete", id, "unlink", NoFile)
       ELSE NotFound(c, "delete", id)
    /\ UNCHANGED <<storeVars, disk, slotTaken, job, cache, history>>

DeleteUnlink(c) ==
    /\ Doing(c, "delete", "unlink")
    /\ tgz' = [tgz EXCEPT ![req[c].id] = NoFile]
    /\ Goto(c, "unlinkBlob")
    /\ UNCHANGED <<storeVars, conv, blob, slotTaken, job, cache, history>>

DeleteUnlinkBlob(c) ==
    /\ Doing(c, "delete", "unlinkBlob")
    /\ blob' = blob \ {req[c].id}
    /\ Goto(c, "unregister")
    /\ UNCHANGED <<storeVars, tgz, conv, slotTaken, job, cache, history>>

\* Mistake: the error of store.Delete is ignored.
DeleteUnregisterAnyway(c) ==
    /\ Doing(c, "delete", "unregister")
    /\ Delete(req[c].id)
    /\ Answer(c, 204)
    /\ UNCHANGED <<disk, slotTaken, job, cache, history>>

DeleteUnregister(c) ==
    /\ Doing(c, "delete", "unregister")
    /\ Delete(req[c].id)
    /\ Answer(c, IF Known(req[c].id) THEN 204 ELSE 500)
    /\ UNCHANGED <<disk, slotTaken, job, cache, history>>

----------------------------------------------------------------------------
(* handleSearch and handleContent.  They begin alike: look the file up,    *)
(* open its archive.                                                       *)

clientKeeps == <<storeVars, disk, slotTaken, job, history>>

ReadGet(c, op) == \E id \in Minted :
    /\ IF Known(id)
       THEN Start(c, op, id, "openTgz", NoFile)
       ELSE NotFound(c, op, id)
    /\ UNCHANGED <<clientKeeps, cache>>

ReadOpen(c) == LET id == req[c].id IN
    /\ req[c].at = "openTgz"
    /\ IF tgz[id] = NoFile
       THEN Answer(c, 500)
       ELSE req' = [req EXCEPT ![c].fd = tgz[id],
                      ![c].at = IF req[c].op = "search" THEN "lookup" ELSE "scan"]
    /\ UNCHANGED <<clientKeeps, cache>>

\* Mistake: no search while the file is still being parsed.
SearchLookupOrFail(c) ==
    /\ Doing(c, "search", "lookup")
    /\ IF req[c].id \in tables["searchIdx"] THEN Goto(c, "openBlob") ELSE Answer(c, 500)
    /\ UNCHANGED <<clientKeeps, cache>>

\* SearchIndexFor: without an index the archive itself is scanned.
SearchLookup(c) ==
    /\ Doing(c, "search", "lookup")
    /\ Goto(c, IF req[c].id \in tables["searchIdx"] THEN "openBlob" ELSE "scan")
    /\ UNCHANGED <<clientKeeps, cache>>

\* SearchIndexed: a blob that is gone also falls back to the archive.
SearchBlob(c) ==
    /\ Doing(c, "search", "openBlob")
    /\ IF req[c].id \in blob THEN Answer(c, 200) ELSE Goto(c, "scan")
    /\ UNCHANGED <<clientKeeps, cache>>

\* SearchArchive, or EntryReader, which looks for a path the archive has not:
\* 404 at its end, an error where it breaks off.
ReadScan(c) == LET listing == req[c].fd.listing IN
    /\ req[c].at = "scan"
    /\ \/ listing = "unreadable" /\ Answer(c, 500)
       \/ listing # "unreadable" /\ Answer(c, 200)
       \/ req[c].op = "content" /\ listing = "partial" /\ Answer(c, 500)
       \/ req[c].op = "content" /\ listing \in {"files", "empty"} /\ Answer(c, 404)
    /\ UNCHANGED <<clientKeeps, cache>>

----------------------------------------------------------------------------
(* handleConfig and configTree.                                            *)

ConfigDoc(c) == \E id \in Minted :
    /\ IF id \in tables["config"]
       THEN Start(c, "config", id, "doc", NoFile)
       ELSE NotFound(c, "config", id)
    /\ UNCHANGED <<clientKeeps, cache>>

ConfigGet(c) ==
    /\ Doing(c, "config", "doc")
    /\ IF Known(req[c].id) THEN Goto(c, "lock") ELSE Answer(c, 404)
    /\ UNCHANGED <<clientKeeps, cache>>

\* Mistake: any cached tree will do.
ConfigLockAnyTree(c) ==
    /\ Doing(c, "config", "lock")
    /\ cfgLock = Nobody
    /\ IF cfgCache.tree # NoFile
       THEN /\ req' = [req EXCEPT ![c].at = "done", ![c].code = 200,
                                  ![c].fd = cfgCache.tree]
            /\ UNCHANGED cfgLock
       ELSE /\ cfgLock' = c
            /\ Goto(c, "openConfig")
    /\ UNCHANGED <<clientKeeps, cfgCache>>

\* A hit is answered at once; a miss parses with cfgMu held.
ConfigLock(c) ==
    /\ Doing(c, "config", "lock")
    /\ cfgLock = Nobody
    /\ IF cfgCache.id = req[c].id
       THEN /\ req' = [req EXCEPT ![c].at = "done", ![c].code = 200,
                                  ![c].fd = cfgCache.tree]
            /\ UNCHANGED cfgLock
       ELSE /\ cfgLock' = c
            /\ Goto(c, "openConfig")
    /\ UNCHANGED <<clientKeeps, cfgCache>>

ConfigOpen(c) == LET id == req[c].id IN
    /\ Doing(c, "config", "openConfig")
    /\ IF tgz[id] = NoFile
       THEN Answer(c, 500) /\ cfgLock' = Nobody
       ELSE /\ req' = [req EXCEPT ![c].fd = tgz[id], ![c].at = "parseConfig"]
            /\ UNCHANGED cfgLock
    /\ UNCHANGED <<clientKeeps, cfgCache>>

\* Mistake: cfgMu is unlocked by hand, and the return on an error is forgotten.
ConfigParseKeepsLock(c) ==
    /\ Doing(c, "config", "parseConfig")
    /\ IF req[c].fd.xml = "good"
       THEN /\ cfgCache' = [id |-> req[c].id, tree |-> req[c].fd]
            /\ Answer(c, 200)
            /\ cfgLock' = Nobody
       ELSE /\ UNCHANGED <<cfgCache, cfgLock>>
            /\ Answer(c, 500)
    /\ UNCHANGED clientKeeps

ConfigParse(c) ==
    /\ Doing(c, "config", "parseConfig")
    /\ cfgLock' = Nobody
    /\ IF req[c].fd.xml = "good"
       THEN /\ cfgCache' = [id |-> req[c].id, tree |-> req[c].fd]
            /\ Answer(c, 200)
       ELSE /\ UNCHANGED cfgCache
            /\ Answer(c, 500)
    /\ UNCHANGED clientKeeps

----------------------------------------------------------------------------
(* The process is killed (parsing is known to exhaust the container) and   *)
(* started again: main builds an empty registry and NewServer clears the   *)
(* blobs.  The uploaded archives stay on the volume.                       *)

Restart ==
    /\ files' = [id \in Ids |-> Absent]
    /\ tables' = [t \in Tables |-> {}]
    /\ blob' = {}
    /\ slotTaken' = FALSE
    /\ job' = [id \in Ids |-> NoJob]
    /\ req' = [c \in Clients |-> NoRequest]
    /\ cfgLock' = Nobody /\ cfgCache' = [id |-> Nobody, tree |-> NoFile]
    /\ lost' = Minted
    /\ UNCHANGED <<tgz, conv, body, registered>>

----------------------------------------------------------------------------

ParserStep(id) ==
    \/ AcquireSlot(id) \/ OpenArchive(id) \/ IndexArchive(id) \/ RecordKind(id)
    \/ CreateBlob(id) \/ FinishBlob(id) \/ Extract(id) \/ Settle(id) \/ ReleaseSlot(id)

\* The steps of a request after its first one.
RequestStep(c) ==
    \/ UploadCopy(c) \/ UploadConvert(c) \/ UploadRename(c) \/ UploadRegister(c)
    \/ DeleteUnlink(c) \/ DeleteUnlinkBlob(c) \/ DeleteUnregister(c)
    \/ ReadOpen(c) \/ SearchLookup(c) \/ SearchBlob(c) \/ ReadScan(c)
    \/ ConfigGet(c) \/ ConfigLock(c) \/ ConfigOpen(c) \/ ConfigParse(c)

RequestStart(c) ==
    \/ UploadBegin(c) \/ DeleteGet(c) \/ ConfigDoc(c)
    \/ \E op \in {"search", "content"} : ReadGet(c, op)

Next ==
    \/ \E id \in Ids : ParserStep(id)
    \/ \E c \in Clients : RequestStart(c) \/ RequestStep(c)
    \/ Restart

Spec == Init /\ [][Next]_vars

\* A goroutine that can run does.  The slot and cfgMu are handed to waiters
\* in turn (a channel queues its senders; a mutex goes to a starving waiter),
\* so a process that could have them again and again gets them.  Nothing
\* obliges a client to send a request, nor the process to be restarted.
Fairness ==
    /\ \A id \in Ids : WF_vars(ParserStep(id)) /\ SF_vars(AcquireSlot(id))
    /\ \A c \in Clients : WF_vars(RequestStep(c)) /\ SF_vars(ConfigLock(c))

FairSpec == Spec /\ Fairness

----------------------------------------------------------------------------
(* Properties.                                                             *)

\* Type invariant of the server (the registry's is StoreTypeOK).
TypeOK ==
    /\ StoreTypeOK
    /\ tgz \in [Ids -> Bundles \cup {NoFile}]
    /\ conv \subseteq Ids /\ blob \subseteq Ids
    /\ slotTaken \in BOOLEAN
    /\ job \in [Ids -> Job]
    /\ req \in [Clients -> Request]
    /\ \A c \in Clients : req[c].at # "idle" => req[c].id \in Ids
    /\ cfgLock \in Clients \cup {Nobody}
    /\ cfgCache \in [id : Ids \cup {Nobody}, tree : Bundles \cup {NoFile}]
    /\ body \in [Ids -> Bundles \cup {NoFile}]
    /\ registered \subseteq Ids /\ lost \subseteq Ids

\* "Archives are parsed one at a time" (server.go, Server.parseSlot): no two
\* goroutines are ever between receiving the slot and returning it, whatever
\* passes fail and whatever files are deleted under them.
OneParseAtATime ==
    \A i, j \in Ids : Parsing(i) /\ Parsing(j) => i = j

\* The inductive form: a goroutine past the slot accounts for the token, and
\* for all of it.
SlotInvariant == OneParseAtATime /\ \A i \in Ids : Parsing(i) => slotTaken

\* An upload of id is still going on.
Uploading(id) == \E c \in Clients : Active(c) /\ req[c].op = "upload" /\ req[c].id = id

\* A DELETE of id has already removed its archive from disk, and goes on.
BeingDeleted(id) ==
    \E c \in Clients : /\ req[c].op = "delete" /\ req[c].id = id
                       /\ req[c].at \in {"unlinkBlob", "unregister"}

\* A file the registry lists can be opened, except between the unlink and
\* the unregistering of a DELETE: the order of handleDelete, and that no error
\* path of handleUpload registers what it removed.
ListedHasArchive ==
    \A id \in Ids : Known(id) => tgz[id] # NoFile \/ BeingDeleted(id)

\* An index the store hands out has its whole blob beside the archive, with
\* the same exception; a search never reads a blob still being written.
IndexHasBlob ==
    \A id \in tables["searchIdx"] :
        /\ job[id].at # "blob"
        /\ id \in blob \/ BeingDeleted(id)

\* A request is answered 500 over a file only when its archive cannot be read
\* to its end or the file is being deleted under it: no interleaving of parsing, config
\* caching and uploads of other files shows as a server error.
NoSpuriousError ==
    \A c \in Clients : LET id == req[c].id IN
        (req[c].at = "done" /\ req[c].code = 500 /\ req[c].op # "upload") =>
            \/ ~Known(id) \/ BeingDeleted(id)
            \/ /\ req[c].fd # NoFile
               /\ \/ req[c].fd.listing \in {"unreadable", "partial"}
                  \/ req[c].op = "config" /\ req[c].fd.xml = "broken"

\* Of two DELETEs of one file at most one is told that it deleted it.
DeletedOnce ==
    \A c, d \in Clients :
        (/\ req[c].op = "delete" /\ req[c].code = 204
         /\ req[d].op = "delete" /\ req[d].code = 204
         /\ req[c].id = req[d].id) => c = d

\* Config documents are answered from the archive they were asked for, also
\* out of the one-entry cache, and the cache is filled by its holder only.
ConfigOfOwnFile ==
    \A c \in Clients :
        (req[c].op = "config" /\ req[c].code = 200) =>
            req[c].fd # NoFile /\ req[c].fd = body[req[c].id]

\* Nothing of an upload that was refused stays on disk, and no conversion
\* outlives its request: what is on disk belongs to a registered file, to an
\* upload still going on, or was left behind by a restart.
NoUploadLeftovers ==
    /\ \A id \in Ids : (tgz[id] # NoFile /\ id \notin lost) => Known(id) \/ Uploading(id)
    /\ \A id \in conv : id \notin lost => Uploading(id)

\* The search blob is "deleted with its file" (README): when no request and no
\* parser works on a file that is not registered, it has no blob.
NoOrphanBlob ==
    \A id \in blob : Known(id) \/ BeingDeleted(id) \/ Parsing(id)

\* What a polling client may rely on is the abstract Registry: results appear
\* only while the file is "parsing", a settled entry never changes, "parsed"
\* comes with the listing and the kind, and a deleted file stays deleted while
\* its parser still runs.
EntryOf(id) ==
    IF Known(id)
    THEN [state |-> files[id].status, kind |-> files[id].kind, results |-> Holdings(id)]
    ELSE [state |-> IF id \in registered THEN "gone" ELSE "new",
          kind |-> NoKind, results |-> {}]

Entries == [id \in Ids |-> EntryOf(id)]

R == INSTANCE Registry WITH entry <- Entries

ImplementsRegistry == R!Spec

\* An uploaded file does not stay "parsing" forever: it settles, or is gone.
EventuallySettled ==
    \A id \in Ids : [](Known(id) /\ files[id].status = "parsing"
                        => <>(~Known(id) \/ files[id].status # "parsing"))

\* Every request is answered, or dies with the process: no request is left
\* waiting for cfgMu by a holder that went away on an error path.
EveryRequestAnswered == \A c \in Clients : Active(c) ~> ~Active(c)

=============================================================================
