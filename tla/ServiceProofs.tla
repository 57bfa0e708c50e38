--------------------------- MODULE ServiceProofs ----------------------------
(***************************************************************************)
(* The registry keeps its types and its cascade under any caller; the      *)
(* server over it keeps its types, parses one archive at a time, and its   *)
(* upload directory tells the same story as the registry - for any number  *)
(* of files, of concurrent requests and of archives.                       *)
(***************************************************************************)
EXTENDS Service, TLAPS

(***************************************************************************)
(* The registry alone, for any set of ids and of result maps.              *)
(***************************************************************************)

LEMMA StoreInitTypes == StoreInit => StoreTypeOK /\ Cascade
BY DEF StoreInit, StoreTypeOK, Cascade, Holdings, FileRecord

\* Each method of the store keeps the types ...
LEMMA CreateTypes ==
    ASSUME NEW id \in Ids, StoreTypeOK, Create(id)
    PROVE  StoreTypeOK'
BY DEF StoreTypeOK, Create, FileRecord, Statuses

LEMMA DeleteTypes ==
    ASSUME NEW id \in Ids, StoreTypeOK, Delete(id)
    PROVE  StoreTypeOK'
BY DEF StoreTypeOK, Delete, storeVars

LEMMA SaveTypes ==
    ASSUME NEW id \in Ids, NEW t, StoreTypeOK, Save(t, id)
    PROVE  StoreTypeOK'
BY DEF StoreTypeOK, Save

LEMMA SetKindTypes ==
    ASSUME NEW id \in Ids, NEW k \in Kinds, StoreTypeOK, SetKind(id, k)
    PROVE  StoreTypeOK'
BY DEF StoreTypeOK, SetKind, FileRecord, Known

LEMMA SetStatusTypes ==
    ASSUME NEW id \in Ids, NEW s \in Statuses, StoreTypeOK, SetStatus(id, s)
    PROVE  StoreTypeOK'
BY DEF StoreTypeOK, SetStatus, FileRecord, Known

\* ... and the cascade.
LEMMA CreateCascade ==
    ASSUME NEW id \in Ids, StoreTypeOK, Cascade, Create(id)
    PROVE  Cascade'
BY StoreAssumption DEF StoreTypeOK, Cascade, Holdings, Known, Create, FileRecord, Statuses

LEMMA DeleteCascade ==
    ASSUME NEW id \in Ids, StoreTypeOK, Cascade, Delete(id)
    PROVE  Cascade'
BY DEF StoreTypeOK, Cascade, Holdings, Known, Delete, storeVars

LEMMA SaveCascade ==
    ASSUME NEW id \in Ids, NEW t, StoreTypeOK, Cascade, Save(t, id)
    PROVE  Cascade'
BY DEF StoreTypeOK, Cascade, Holdings, Known, Save

LEMMA SetKindCascade ==
    ASSUME NEW id \in Ids, NEW k \in Kinds, StoreTypeOK, Cascade, SetKind(id, k)
    PROVE  Cascade'
<1>1. \A i \in Ids : Known(i) => Known(i)'
  BY StoreAssumption, SetKindTypes DEF StoreTypeOK, SetKind, Known, FileRecord
<1> QED BY <1>1 DEF Cascade, Holdings, SetKind

LEMMA SetStatusCascade ==
    ASSUME NEW id \in Ids, NEW s \in Statuses, StoreTypeOK, Cascade, SetStatus(id, s)
    PROVE  Cascade'
<1>1. \A i \in Ids : Known(i) => Known(i)'
  BY StoreAssumption, SetStatusTypes DEF StoreTypeOK, SetStatus, Known, FileRecord
<1> QED BY <1>1 DEF Cascade, Holdings, SetStatus

LEMMA StoreStutter ==
    ASSUME StoreTypeOK, Cascade, UNCHANGED storeVars
    PROVE  StoreTypeOK' /\ Cascade'
BY DEF StoreTypeOK, Cascade, Holdings, Known, storeVars

\* The registry's types hold of every sequence of calls.
THEOREM StoreTypes == StoreSpec => []StoreTypeOK
<1>1. StoreInit => StoreTypeOK
  BY StoreInitTypes
<1>2. StoreTypeOK /\ [StoreNext]_storeVars => StoreTypeOK'
  BY CreateTypes, DeleteTypes, SaveTypes, SetKindTypes, SetStatusTypes
  DEF StoreNext, StoreTypeOK, storeVars
<1> QED BY <1>1, <1>2, PTL DEF StoreSpec

\* No result outlives its file, whoever calls the store and in whatever order.
THEOREM StoreCascade == StoreSpec => []Cascade
<1>1. StoreInit => Cascade
  BY StoreInitTypes
<1>2. StoreTypeOK /\ Cascade /\ [StoreNext]_storeVars => Cascade'
  BY CreateCascade, DeleteCascade, SaveCascade, SetKindCascade, SetStatusCascade,
     StoreStutter
  DEF StoreNext
<1> QED BY <1>1, <1>2, StoreTypes, PTL DEF StoreSpec

\* Only Create makes an unknown id known, and then without results.
THEOREM StoreNoResurrection == StoreSpec => NoResurrection
<1>1. StoreTypeOK /\ Cascade /\ [StoreNext]_storeVars =>
        [BornFresh]_storeVars
  <2> SUFFICES ASSUME StoreTypeOK, Cascade, StoreNext, NEW i \in Ids, ~Known(i), Known(i)'
               PROVE  /\ files'[i] = [status |-> "parsing", kind |-> NoKind]
                      /\ Holdings(i)' = {}
    BY DEF BornFresh
  <2> USE DEF StoreTypeOK, Known
  <2>1. PICK id \in Ids : \/ Create(id)
                          \/ Delete(id)
                          \/ \E t \in Tables : Save(t, id)
                          \/ \E k \in Kinds : SetKind(id, k)
                          \/ \E s \in Statuses : SetStatus(id, s)
    BY DEF StoreNext
  <2>2. CASE Create(id)
    BY <2>2 DEF Create, Cascade, Holdings
  <2>3. CASE Delete(id)
    BY <2>3 DEF Delete, storeVars
  <2>4. CASE \E t \in Tables : Save(t, id)
    BY <2>4 DEF Save
  <2>5. CASE \E k \in Kinds : SetKind(id, k)
    BY <2>5 DEF SetKind
  <2>6. CASE \E s \in Statuses : SetStatus(id, s)
    BY <2>6 DEF SetStatus
  <2> QED BY <2>1, <2>2, <2>3, <2>4, <2>5, <2>6
<1> QED BY <1>1, StoreTypes, StoreCascade, PTL DEF StoreSpec, NoResurrection

(***************************************************************************)
(* The server: its types, the parse slot, and the registry under it.       *)
(***************************************************************************)

LEMMA KindsAreThree == "unknown" \in Kinds /\ Kinds = {"firewall", "gp-agent", "unknown"}
BY ServiceAssumption

LEMMA JobStatesListed == {"open", "extract", "kind", "blob", "settle", "release", "queued", "none"} = JobStates
BY DEF JobStates

LEMMA NoJobType == NoJob \in Job
BY KindsAreThree DEF NoJob, Job, JobStates

LEMMA NoRequestType == NoRequest \in Request
BY DEF NoRequest, Request, Ops, RequestStates, Codes

\* A bundle, or what stands for none, is what a descriptor may hold.
LEMMA PassesType ==
    ASSUME NEW k
    PROVE  /\ Passes(k) \in Seq(Tables)
           /\ Len(Passes(k)) \in Nat \ {0, 1, 2, 3}
           /\ Passes(k)[1] = "archive" /\ Passes(k)[2] = "searchIdx"
<1>1. CASE k = "gp-agent"
  <2>1. Passes(k) = <<"archive", "searchIdx", "gp", "logsigs">>
    BY <1>1 DEF Passes
  <2> QED BY <2>1, ServiceAssumption DEF ResultTables
<1>2. CASE k # "gp-agent"
  <2>1. Passes(k) = <<"archive", "searchIdx", "sysinfo", "counters", "config", "logsigs",
                      "anomalies", "memory", "appstats", "licenses">>
    BY <1>2 DEF Passes
  <2> QED BY <2>1, ServiceAssumption DEF ResultTables
<1> QED BY <1>1, <1>2

LEMMA StoreTypesStutter == StoreTypeOK /\ UNCHANGED storeVars => StoreTypeOK'
BY DEF StoreTypeOK, storeVars

\* The requests' part of the type invariant, and the two ways a request begins.
RequestsTyped ==
    /\ req \in [Clients -> Request]
    /\ \A c \in Clients : req[c].at # "idle" => req[c].id \in Ids

LEMMA BeginTypes ==
    ASSUME TypeOK, NEW c \in Clients, NEW r \in Request, r.id \in Ids,
           req' = [req EXCEPT ![c] = r]
    PROVE  RequestsTyped'
BY DEF RequestsTyped, TypeOK

LEMMA StartTypes ==
    ASSUME TypeOK, NEW c \in Clients, NEW id \in Ids,
           NEW op \in {"upload", "delete", "search", "content", "config"},
           NEW at \in {"copy", "unlink", "openTgz", "doc"},
           Start(c, op, id, at, NoFile)
    PROVE  RequestsTyped'
<1>1. [op |-> op, id |-> id, at |-> at, fd |-> NoFile, code |-> 0] \in Request
  BY DEF Request, Ops, RequestStates, Codes
<1> QED BY <1>1, BeginTypes DEF Start

LEMMA NotFoundTypes ==
    ASSUME TypeOK, NEW c \in Clients, NEW id \in Ids,
           NEW op \in {"delete", "search", "content", "config"},
           NotFound(c, op, id)
    PROVE  RequestsTyped'
<1>1. [op |-> op, id |-> id, at |-> "done", fd |-> NoFile, code |-> 404] \in Request
  BY DEF Request, Ops, RequestStates, Codes
<1> QED BY <1>1, BeginTypes DEF NotFound

\* A handler that goes on, or answers, keeps its request well typed.
LEMMA GotoTypes ==
    ASSUME TypeOK, NEW c \in Clients, NEW at \in RequestStates, Active(c), Goto(c, at)
    PROVE  RequestsTyped'
<1>1. req[c] \in Request /\ req[c].id \in Ids
  BY DEF TypeOK, Active
<1>2. [req[c] EXCEPT !.at = at] \in Request
  BY <1>1 DEF Request
<1> QED BY <1>1, <1>2, BeginTypes DEF Goto, TypeOK, RequestsTyped, Request

LEMMA AnswerTypes ==
    ASSUME TypeOK, NEW c \in Clients, NEW code \in Codes, Active(c), Answer(c, code)
    PROVE  RequestsTyped'
<1>1. req[c] \in Request /\ req[c].id \in Ids
  BY DEF TypeOK, Active
<1>2. [req[c] EXCEPT !.at = "done", !.code = code] \in Request
  <2>1. "done" \in RequestStates
    BY DEF RequestStates
  <2> QED BY <1>1, <2>1 DEF Request
<1>3. [req[c] EXCEPT !.at = "done", !.code = code].id = req[c].id
  BY <1>1 DEF Request
<1>4. req' = [req EXCEPT ![c] = [req[c] EXCEPT !.at = "done", !.code = code]]
  BY <1>1 DEF Answer, TypeOK
<1> QED BY <1>1, <1>2, <1>3, <1>4, BeginTypes

\* ... and so does opening an archive on the way.
LEMMA OpenTypes ==
    ASSUME TypeOK, NEW c \in Clients, NEW at \in RequestStates,
           NEW fd \in Bundles \cup {NoFile}, Active(c),
           req' = [req EXCEPT ![c].fd = fd, ![c].at = at]
    PROVE  RequestsTyped'
<1>1. req[c] \in Request /\ req[c].id \in Ids
  BY DEF TypeOK, Active
<1>2. [req[c] EXCEPT !.fd = fd, !.at = at] \in Request
  BY <1>1 DEF Request
<1>3. [req[c] EXCEPT !.fd = fd, !.at = at].id = req[c].id
  BY <1>1 DEF Request
<1>4. req' = [req EXCEPT ![c] = [req[c] EXCEPT !.fd = fd, !.at = at]]
  BY <1>1 DEF TypeOK
<1> QED BY <1>1, <1>2, <1>3, <1>4, BeginTypes

LEMMA HitTypes ==
    ASSUME TypeOK, NEW c \in Clients, NEW fd \in Bundles \cup {NoFile}, Active(c),
           req' = [req EXCEPT ![c].at = "done", ![c].code = 200, ![c].fd = fd]
    PROVE  RequestsTyped'
<1>1. req[c] \in Request /\ req[c].id \in Ids
  BY DEF TypeOK, Active
<1>2. "done" \in RequestStates /\ 200 \in Codes
  BY DEF RequestStates, Codes
<1>3. [req[c] EXCEPT !.at = "done", !.code = 200, !.fd = fd] \in Request
  BY <1>1, <1>2 DEF Request
<1>4. [req[c] EXCEPT !.at = "done", !.code = 200, !.fd = fd].id = req[c].id
  BY <1>1 DEF Request
<1>5. req' = [req EXCEPT ![c] = [req[c] EXCEPT !.at = "done", !.code = 200, !.fd = fd]]
  BY <1>1 DEF TypeOK
<1> QED BY <1>1, <1>3, <1>4, <1>5, BeginTypes

\* Advance keeps the goroutine well typed whatever record it starts from.
LEMMA AdvanceType ==
    ASSUME TypeOK, NEW id \in Ids, NEW j \in Job, Advance(id, j)
    PROVE  job' \in [Ids -> Job]
<1> DEFINE next == IF j.pass < Len(Passes(j.kind))
                   THEN [j EXCEPT !.at = "open", !.fd = NoFile, !.pass = @ + 1]
                   ELSE [j EXCEPT !.at = "settle", !.fd = NoFile]
<1>a. [j EXCEPT !.at = "open", !.fd = NoFile, !.pass = j.pass + 1] \in Job
  <2>1. j.pass + 1 \in Nat \ {0}
    BY DEF Job
  <2> QED BY <2>1 DEF Job, JobStates
<1>b. [j EXCEPT !.at = "settle", !.fd = NoFile] \in Job
  BY DEF Job, JobStates
<1>1. next \in Job
  BY <1>a, <1>b
<1> QED BY <1>1 DEF Advance, TypeOK

----------------------------------------------------------------------------

LEMMA InitTypes == Init => TypeOK
<1> SUFFICES ASSUME Init PROVE TypeOK
  OBVIOUS
<1>1. StoreTypeOK
  BY StoreInitTypes DEF Init
<1>2. job \in [Ids -> Job]
  BY NoJobType DEF Init
<1>3. req \in [Clients -> Request] /\ \A c \in Clients : req[c].at # "idle" => req[c].id \in Ids
  BY NoRequestType DEF Init, NoRequest
<1> QED BY <1>1, <1>2, <1>3 DEF Init, TypeOK

\* handleUpload.
LEMMA UploadTypes ==
    ASSUME TypeOK, NEW c \in Clients,
           \/ UploadBegin(c) \/ UploadCopy(c) \/ UploadConvert(c) \/ UploadRename(c)
           \/ UploadRegister(c)
    PROVE  TypeOK'
<1>1. CASE UploadBegin(c)
  <2>1. RequestsTyped'
    BY <1>1, StartTypes DEF UploadBegin
  <2> QED BY <1>1, <2>1 DEF TypeOK, RequestsTyped, StoreTypeOK, UploadBegin, storeVars, cache
<1>2. CASE UploadCopy(c)
  <2>1. RequestsTyped'
    BY <1>2, GotoTypes, AnswerTypes DEF UploadCopy, Doing, Active, RequestStates, Codes
  <2>2. req[c].id \in Ids
    BY <1>2 DEF TypeOK, UploadCopy, Doing
  <2> QED BY <1>2, <2>1, <2>2 DEF TypeOK, RequestsTyped, StoreTypeOK, UploadCopy,
             storeVars, cache, history
<1>3. CASE UploadConvert(c)
  <2>1. RequestsTyped'
    BY <1>3, GotoTypes, AnswerTypes
    DEF UploadConvert, UploadDiscard, Doing, Active, RequestStates, Codes
  <2> QED BY <1>3, <2>1 DEF TypeOK, RequestsTyped, StoreTypeOK, UploadConvert, UploadDiscard,
             storeVars, cache, history
<1>4. CASE UploadRename(c)
  <2>1. RequestsTyped'
    BY <1>4, GotoTypes, AnswerTypes
    DEF UploadRename, UploadDiscard, Doing, Active, RequestStates, Codes
  <2> QED BY <1>4, <2>1 DEF TypeOK, RequestsTyped, StoreTypeOK, UploadRename, UploadDiscard,
             storeVars, cache, history
<1>5. CASE UploadRegister(c)
  <2>1. req[c].id \in Ids /\ StoreTypeOK'
    BY <1>5, CreateTypes DEF TypeOK, UploadRegister, Doing
  <2>2. [NoJob EXCEPT !.at = "queued"] \in Job
    BY NoJobType, JobStatesListed DEF Job
  <2>3. job' \in [Ids -> Job]
    BY <1>5, <2>2 DEF TypeOK, UploadRegister
  <2>4. RequestsTyped'
    BY <1>5, AnswerTypes DEF UploadRegister, Doing, Active, Codes
  <2> QED BY <1>5, <2>1, <2>3, <2>4 DEF TypeOK, RequestsTyped, UploadRegister, cache, disk
<1> QED BY <1>1, <1>2, <1>3, <1>4, <1>5

\* parseArchive.
LEMMA ParserTypes ==
    ASSUME TypeOK, NEW id \in Ids, ParserStep(id)
    PROVE  TypeOK'
<1> DEFINE Others == /\ slotTaken' \in BOOLEAN
                     /\ blob' \subseteq Ids
                     /\ UNCHANGED parserKeeps
<1>0. ASSUME StoreTypeOK', job' \in [Ids -> Job], Others
      PROVE  TypeOK'
  BY <1>0 DEF TypeOK, parserKeeps, cache, history
<1>1. CASE AcquireSlot(id)
  BY <1>1, <1>0, StoreTypesStutter DEF TypeOK, AcquireSlot, Job, JobStates
<1>2. CASE OpenArchive(id)
  <2>1. [job[id] EXCEPT !.at = "extract", !.fd = tgz[id]] \in Job
    <3>1. job[id] \in Job /\ tgz[id] \in Bundles \cup {NoFile}
      BY DEF TypeOK
    <3>2. "extract" \in JobStates
      BY JobStatesListed
    <3> QED BY <3>1, <3>2 DEF Job
  <2>2. job' \in [Ids -> Job]
    BY <1>2, <2>1 DEF TypeOK, OpenArchive
  <2> QED BY <1>2, <1>0, <2>2, StoreTypesStutter DEF TypeOK, OpenArchive
<1>3. CASE IndexArchive(id)
  <2>1. StoreTypeOK'
    BY <1>3, SaveTypes, StoreTypesStutter
    DEF TypeOK, IndexArchive
  <2>2. Readable(job[id].fd) => job[id].fd.kind \in Kinds
    BY ServiceAssumption DEF TypeOK, Readable, Job, Bundle
  <2>3. job' \in [Ids -> Job]
    <3>1. Readable(job[id].fd) =>
            [job[id] EXCEPT !.at = "kind", !.kind = job[id].fd.kind] \in Job
      <4>1. job[id] \in Job /\ "kind" \in JobStates
        BY JobStatesListed DEF TypeOK
      <4> QED BY <2>2, <4>1 DEF Job
    <3>2. [job[id] EXCEPT !.at = "settle", !.fd = NoFile, !.status = "failed"] \in Job
      <4>1. job[id] \in Job /\ "settle" \in JobStates
        BY JobStatesListed DEF TypeOK
      <4> QED BY <4>1 DEF Job
    <3> QED BY <1>3, <3>1, <3>2 DEF TypeOK, IndexArchive
  <2> QED BY <1>3, <2>1, <2>3, <1>0 DEF TypeOK, IndexArchive
<1>4. CASE RecordKind(id)
  <2>1. StoreTypeOK'
    BY <1>4, SetKindTypes DEF TypeOK, RecordKind, Job
  <2> QED BY <1>4, <2>1, <1>0, AdvanceType DEF TypeOK, RecordKind
<1>5. CASE CreateBlob(id)
  <2>1. job' \in [Ids -> Job]
    BY <1>5, AdvanceType DEF TypeOK, CreateBlob, Job, JobStates
  <2> QED BY <1>5, <2>1, <1>0, StoreTypesStutter DEF TypeOK, CreateBlob
<1>6. CASE FinishBlob(id)
  <2>1. StoreTypeOK'
    BY <1>6, SaveTypes, StoreTypesStutter
    DEF TypeOK, FinishBlob
  <2> QED BY <1>6, <2>1, <1>0, AdvanceType DEF TypeOK, FinishBlob
<1>7. CASE Extract(id)
  <2>1. StoreTypeOK'
    BY <1>7, SaveTypes, StoreTypesStutter DEF TypeOK, Extract
  <2>2. job[id].fd # NoFile => job[id].fd.series \in {"none", "plain", "apps"}
    BY ServiceAssumption DEF TypeOK, Job, Bundle
  <2>3. (IF Pass(id) = "counters" /\ job[id].fd # NoFile
         THEN [job[id] EXCEPT !.series = job[id].fd.series] ELSE job[id]) \in Job
    BY <2>2 DEF TypeOK, Job
  <2> QED BY <1>7, <2>1, <2>3, <1>0, AdvanceType DEF TypeOK, Extract
<1>8. CASE Settle(id)
  <2>1. StoreTypeOK'
    BY <1>8, SetStatusTypes DEF TypeOK, Settle, Job, Statuses
  <2> QED BY <1>8, <2>1, <1>0 DEF TypeOK, Settle, Job, JobStates
<1>9. CASE ReleaseSlot(id)
  BY <1>9, <1>0, StoreTypesStutter, NoJobType DEF TypeOK, ReleaseSlot
<1> QED BY <1>1, <1>2, <1>3, <1>4, <1>5, <1>6, <1>7, <1>8, <1>9 DEF ParserStep

\* handleDelete.
LEMMA DeleteStepTypes ==
    ASSUME TypeOK, NEW c \in Clients,
           DeleteGet(c) \/ DeleteUnlink(c) \/ DeleteUnlinkBlob(c) \/ DeleteUnregister(c)
    PROVE  TypeOK'
<1>1. CASE DeleteGet(c)
  <2>1. RequestsTyped'
    BY <1>1, StartTypes, NotFoundTypes DEF DeleteGet, Minted
  <2> QED BY <1>1, <2>1 DEF TypeOK, RequestsTyped, StoreTypeOK, DeleteGet,
             storeVars, disk, cache, history
<1>2. CASE DeleteUnlink(c)
  <2>1. RequestsTyped'
    BY <1>2, GotoTypes DEF DeleteUnlink, Doing, Active, RequestStates
  <2> QED BY <1>2, <2>1 DEF TypeOK, RequestsTyped, StoreTypeOK, DeleteUnlink, storeVars, cache, history
<1>3. CASE DeleteUnlinkBlob(c)
  <2>1. RequestsTyped'
    BY <1>3, GotoTypes DEF DeleteUnlinkBlob, Doing, Active, RequestStates
  <2> QED BY <1>3, <2>1 DEF TypeOK, RequestsTyped, StoreTypeOK, DeleteUnlinkBlob, storeVars, cache, history
<1>4. CASE DeleteUnregister(c)
  <2>1. StoreTypeOK'
    BY <1>4, DeleteTypes DEF TypeOK, DeleteUnregister, Doing, Request
  <2>2. RequestsTyped'
    BY <1>4, AnswerTypes DEF DeleteUnregister, Doing, Active, Codes
  <2> QED BY <1>4, <2>1, <2>2 DEF TypeOK, RequestsTyped, DeleteUnregister, disk, cache, history
<1> QED BY <1>1, <1>2, <1>3, <1>4

\* handleSearch, handleContent and handleConfig.
LEMMA ReadTypes ==
    ASSUME TypeOK, NEW c \in Clients,
           \/ \E op \in {"search", "content"} : ReadGet(c, op)
           \/ ReadOpen(c) \/ SearchLookup(c) \/ SearchBlob(c) \/ ReadScan(c)
    PROVE  TypeOK'
<1> SUFFICES RequestsTyped'
  BY DEF TypeOK, RequestsTyped, StoreTypeOK, ReadGet, ReadOpen, SearchLookup, SearchBlob, ReadScan,
         clientKeeps, storeVars, disk, cache, history
<1>1. CASE \E op \in {"search", "content"} : ReadGet(c, op)
  BY <1>1, StartTypes, NotFoundTypes DEF ReadGet, Minted
<1>2. CASE ReadOpen(c)
  <2>1. tgz[req[c].id] \in Bundles \cup {NoFile}
    BY <1>2 DEF TypeOK, ReadOpen
  <2>2. CASE tgz[req[c].id] = NoFile
    BY <1>2, <2>2, AnswerTypes DEF ReadOpen, Active, Codes
  <2>3. CASE tgz[req[c].id] # NoFile
    <3> DEFINE at == IF req[c].op = "search" THEN "lookup" ELSE "scan"
    <3>1. at \in RequestStates
      BY DEF RequestStates
    <3>2. req' = [req EXCEPT ![c].fd = tgz[req[c].id], ![c].at = at] /\ Active(c)
      BY <1>2, <2>3 DEF ReadOpen, Active
    <3> HIDE DEF at
    <3> QED BY <2>1, <3>1, <3>2, OpenTypes
  <2> QED BY <2>2, <2>3
<1>3. CASE SearchLookup(c)
  BY <1>3, GotoTypes DEF SearchLookup, Doing, Active, RequestStates
<1>4. CASE SearchBlob(c)
  BY <1>4, GotoTypes, AnswerTypes DEF SearchBlob, Doing, Active, RequestStates, Codes
<1>5. CASE ReadScan(c)
  BY <1>5, AnswerTypes DEF ReadScan, Active, Codes
<1> QED BY <1>1, <1>2, <1>3, <1>4, <1>5

LEMMA ConfigTypes ==
    ASSUME TypeOK, NEW c \in Clients,
           ConfigDoc(c) \/ ConfigGet(c) \/ ConfigLock(c) \/ ConfigOpen(c) \/ ConfigParse(c)
    PROVE  TypeOK'
<1> DEFINE Rest == /\ cfgLock' \in Clients \cup {Nobody}
                   /\ cfgCache' \in [id : Ids \cup {Nobody}, tree : Bundles \cup {NoFile}]
                   /\ UNCHANGED clientKeeps
<1>0. ASSUME RequestsTyped', Rest PROVE TypeOK'
  BY <1>0 DEF TypeOK, RequestsTyped, StoreTypeOK, clientKeeps, storeVars, disk, history
<1>1. CASE ConfigDoc(c)
  <2>1. RequestsTyped'
    BY <1>1, StartTypes, NotFoundTypes DEF ConfigDoc, Minted
  <2> QED BY <1>1, <2>1, <1>0 DEF TypeOK, ConfigDoc, cache
<1>2. CASE ConfigGet(c)
  <2>1. RequestsTyped'
    BY <1>2, GotoTypes, AnswerTypes DEF ConfigGet, Doing, Active, RequestStates, Codes
  <2> QED BY <1>2, <2>1, <1>0 DEF TypeOK, ConfigGet, cache
<1>3. CASE ConfigLock(c)
  <2>1. cfgCache.tree \in Bundles \cup {NoFile}
    BY DEF TypeOK
  <2>2. RequestsTyped'
    BY <1>3, <2>1, GotoTypes, HitTypes DEF ConfigLock, Doing, Active, RequestStates, Codes
  <2> QED BY <1>3, <2>2, <1>0 DEF TypeOK, ConfigLock
<1>4. CASE ConfigOpen(c)
  <2>1. tgz[req[c].id] \in Bundles \cup {NoFile}
    BY <1>4 DEF TypeOK, ConfigOpen, Doing
  <2>2. RequestsTyped'
    <3>1. CASE tgz[req[c].id] = NoFile
      BY <1>4, <3>1, AnswerTypes DEF ConfigOpen, Doing, Active, Codes
    <3>2. CASE tgz[req[c].id] # NoFile
      <4>1. "parseConfig" \in RequestStates
        BY DEF RequestStates
      <4>2. /\ req' = [req EXCEPT ![c].fd = tgz[req[c].id], ![c].at = "parseConfig"]
            /\ Active(c)
        BY <1>4, <3>2 DEF ConfigOpen, Doing, Active
      <4> QED BY <2>1, <4>1, <4>2, OpenTypes
    <3> QED BY <3>1, <3>2
  <2> QED BY <1>4, <2>2, <1>0 DEF TypeOK, ConfigOpen
<1>5. CASE ConfigParse(c)
  <2>1. RequestsTyped'
    BY <1>5, AnswerTypes DEF ConfigParse, Doing, Active, Codes
  <2>2. req[c].id \in Ids /\ req[c].fd \in Bundles \cup {NoFile}
    BY <1>5 DEF TypeOK, ConfigParse, Doing, Request
  <2> QED BY <1>5, <2>1, <2>2, <1>0 DEF TypeOK, ConfigParse
<1> QED BY <1>1, <1>2, <1>3, <1>4, <1>5

LEMMA RestartTypes == TypeOK /\ Restart => TypeOK'
<1> SUFFICES ASSUME TypeOK, Restart PROVE TypeOK'
  OBVIOUS
<1>1. StoreTypeOK'
  BY DEF TypeOK, StoreTypeOK, Restart
<1>2. job' \in [Ids -> Job]
  BY NoJobType DEF Restart
<1>3. RequestsTyped'
  BY NoRequestType DEF Restart, RequestsTyped, NoRequest
<1> QED BY <1>1, <1>2, <1>3 DEF TypeOK, RequestsTyped, Restart, Minted

LEMMA StutterTypes == TypeOK /\ UNCHANGED vars => TypeOK'
BY DEF TypeOK, StoreTypeOK, vars

LEMMA NextTypes == TypeOK /\ [Next]_vars => TypeOK'
<1> SUFFICES ASSUME TypeOK, [Next]_vars PROVE TypeOK'
  OBVIOUS
<1>1. CASE \E id \in Ids : ParserStep(id)
  BY <1>1, ParserTypes
<1>2. ASSUME NEW c \in Clients, RequestStart(c) \/ RequestStep(c)
      PROVE  TypeOK'
  BY <1>2, UploadTypes, DeleteStepTypes, ReadTypes, ConfigTypes
  DEF RequestStart, RequestStep
<1>3. CASE Restart
  BY <1>3, RestartTypes
<1>4. CASE UNCHANGED vars
  BY <1>4, StutterTypes
<1> QED BY <1>1, <1>2, <1>3, <1>4 DEF Next

\* The server's state keeps its types.
THEOREM ServiceTypes == Spec => []TypeOK
<1>1. Init => TypeOK
  BY InitTypes
<1> QED BY <1>1, NextTypes, PTL DEF Spec

----------------------------------------------------------------------------

\* Handlers do not touch the slot, nor move a goroutine past it.
LEMMA RequestKeepsSlot ==
    ASSUME TypeOK, SlotInvariant, NEW c \in Clients, RequestStart(c) \/ RequestStep(c)
    PROVE  SlotInvariant'
<1>1. CASE UploadRegister(c)
  <2>1. /\ req[c].id \in Ids /\ UNCHANGED slotTaken
        /\ job' = [job EXCEPT ![req[c].id] = [NoJob EXCEPT !.at = "queued"]]
    BY <1>1 DEF TypeOK, UploadRegister, Doing
  <2>2. \A i \in Ids : Parsing(i)' => Parsing(i)
    BY <2>1 DEF TypeOK, Parsing, NoJob
  <2> QED BY <2>1, <2>2 DEF SlotInvariant, OneParseAtATime
<1>2. CASE ~UploadRegister(c)
  <2>1. UNCHANGED <<slotTaken, job>>
    BY <1>2 DEF RequestStart, RequestStep, UploadBegin, UploadCopy, UploadConvert, UploadRename,
                DeleteGet, DeleteUnlink, DeleteUnlinkBlob, DeleteUnregister, ReadGet, ReadOpen,
                SearchLookup, SearchBlob, ReadScan, ConfigDoc, ConfigGet, ConfigLock, ConfigOpen,
                ConfigParse, clientKeeps
  <2> QED BY <2>1 DEF SlotInvariant, OneParseAtATime, Parsing
<1> QED BY <1>1, <1>2

\* A goroutine that holds the slot keeps it through every pass.
LEMMA ParserKeepsSlot ==
    ASSUME TypeOK, SlotInvariant, NEW id \in Ids, ParserStep(id)
    PROVE  SlotInvariant'
<1>1. CASE AcquireSlot(id)
  <2>1. ~slotTaken /\ slotTaken' /\ \A i \in Ids : i # id => job'[i] = job[i]
    BY <1>1 DEF AcquireSlot, TypeOK
  <2> QED BY <2>1 DEF SlotInvariant, OneParseAtATime, Parsing
<1>2. CASE ReleaseSlot(id)
  <2>1. Parsing(id) /\ job' = [job EXCEPT ![id] = NoJob]
    BY <1>2 DEF ReleaseSlot, Parsing
  <2>2. \A i \in Ids : ~Parsing(i)'
    BY <2>1 DEF SlotInvariant, OneParseAtATime, Parsing, TypeOK, NoJob
  <2> QED BY <2>2 DEF SlotInvariant, OneParseAtATime
<1>3. CASE ~AcquireSlot(id) /\ ~ReleaseSlot(id)
  <2>1. Parsing(id) /\ UNCHANGED slotTaken
    BY <1>3 DEF ParserStep, Parsing, OpenArchive, IndexArchive, RecordKind, CreateBlob, FinishBlob,
                Extract, Settle
  <2>2. \A i \in Ids : i # id => job'[i] = job[i]
    BY <1>3 DEF ParserStep, TypeOK, OpenArchive, IndexArchive, RecordKind, CreateBlob, FinishBlob,
                Extract, Settle, Advance
  <2>3. \A i \in Ids : Parsing(i)' => Parsing(i)
    BY <2>1, <2>2 DEF Parsing
  <2> QED BY <2>1, <2>3 DEF SlotInvariant, OneParseAtATime
<1> QED BY <1>1, <1>2, <1>3

\* Archives are parsed one at a time, whatever fails and whatever is deleted
\* under the parsers.
THEOREM SlotExclusion == Spec => []OneParseAtATime
<1>1. Init => SlotInvariant
  BY DEF Init, SlotInvariant, OneParseAtATime, Parsing, NoJob
<1>2. TypeOK /\ SlotInvariant /\ [Next]_vars => SlotInvariant'
  <2> SUFFICES ASSUME TypeOK, SlotInvariant, [Next]_vars PROVE SlotInvariant'
    OBVIOUS
  <2>1. CASE \E id \in Ids : ParserStep(id)
    BY <2>1, ParserKeepsSlot
  <2>2. CASE \E c \in Clients : RequestStart(c) \/ RequestStep(c)
    BY <2>2, RequestKeepsSlot
  <2>3. CASE Restart
    BY <2>3 DEF Restart, SlotInvariant, OneParseAtATime, Parsing, NoJob
  <2>4. CASE UNCHANGED vars
    BY <2>4 DEF vars, SlotInvariant, OneParseAtATime, Parsing
  <2> QED BY <2>1, <2>2, <2>3, <2>4 DEF Next
<1>3. SlotInvariant => OneParseAtATime
  BY DEF SlotInvariant
<1> QED BY <1>1, <1>2, <1>3, ServiceTypes, PTL DEF Spec

----------------------------------------------------------------------------

\* Every step of the server uses the registry through its methods.
LEMMA StepIsStoreCall ==
    ASSUME TypeOK, [Next]_vars
    PROVE  \/ [StoreNext]_storeVars
           \/ files' = [id \in Ids |-> Absent] /\ tables' = [t \in Tables |-> {}]
<1>1. ASSUME NEW id \in Ids, ParserStep(id) PROVE [StoreNext]_storeVars
  <2>1. ASSUME NEW t, Save(t, id) PROVE [StoreNext]_storeVars
    <3>1. t \notin Tables => UNCHANGED storeVars
      BY <2>1 DEF TypeOK, StoreTypeOK, Save, storeVars
    <3> QED BY <2>1, <3>1 DEF StoreNext
  <2>2. job[id].kind \in Kinds /\ job[id].status \in Statuses
    BY DEF TypeOK, Job, Statuses
  <2> QED BY <1>1, <2>1, <2>2
      DEF ParserStep, AcquireSlot, OpenArchive, IndexArchive, RecordKind, CreateBlob, FinishBlob,
          Extract, Settle, ReleaseSlot, StoreNext
<1>2. ASSUME NEW c \in Clients, RequestStart(c) \/ RequestStep(c) PROVE [StoreNext]_storeVars
  <2>1. CASE UploadRegister(c)
    BY <2>1 DEF UploadRegister, Doing, TypeOK, StoreNext
  <2>2. CASE DeleteUnregister(c)
    BY <2>2 DEF DeleteUnregister, Doing, TypeOK, StoreNext
  <2>3. CASE ~UploadRegister(c) /\ ~DeleteUnregister(c)
    BY <1>2, <2>3
    DEF RequestStart, RequestStep, UploadBegin, UploadCopy, UploadConvert, UploadRename,
        DeleteGet, DeleteUnlink, DeleteUnlinkBlob, ReadGet, ReadOpen, SearchLookup, SearchBlob,
        ReadScan, ConfigDoc, ConfigGet, ConfigLock, ConfigOpen, ConfigParse, clientKeeps
  <2> QED BY <2>1, <2>2, <2>3
<1>3. CASE Restart
  BY <1>3 DEF Restart
<1>4. CASE UNCHANGED vars
  BY <1>4 DEF vars, storeVars
<1> QED BY <1>1, <1>2, <1>3, <1>4 DEF Next

\* Under the server, with its parsers, its deletes and its restarts, no result
\* outlives its file.
THEOREM ServiceCascade == Spec => []Cascade
<1>1. Init => Cascade
  BY StoreInitTypes DEF Init
<1>2. TypeOK /\ Cascade /\ [Next]_vars => Cascade'
  <2> SUFFICES ASSUME TypeOK, Cascade, [Next]_vars PROVE Cascade'
    OBVIOUS
  <2>1. CASE [StoreNext]_storeVars
    BY <2>1, CreateCascade, DeleteCascade, SaveCascade, SetKindCascade, SetStatusCascade,
       StoreStutter
    DEF StoreNext, TypeOK
  <2>2. CASE files' = [id \in Ids |-> Absent] /\ tables' = [t \in Tables |-> {}]
    BY <2>2 DEF Cascade, Holdings
  <2> QED BY <2>1, <2>2, StepIsStoreCall
<1> QED BY <1>1, <1>2, ServiceTypes, PTL DEF Spec

(***************************************************************************)
(* The upload directory and the registry: what is listed can be opened,    *)
(* what was refused is gone, and an id is deleted once.                    *)
(***************************************************************************)

\* What one step does to the requests: all others stay, and c's keeps its
\* operation and its file ...
Moved(c, at, code, fd) ==
    /\ \A d \in Clients : d # c => req'[d] = req[d]
    /\ req'[c].op = req[c].op /\ req'[c].id = req[c].id
    /\ req'[c].at = at /\ req'[c].code = code /\ req'[c].fd = fd

\* ... or is a new one.
Began(c, op, id, at, code) ==
    /\ \A d \in Clients : d # c => req'[d] = req[d]
    /\ ~Active(c)
    /\ req'[c].op = op /\ req'[c].id = id
    /\ req'[c].at = at /\ req'[c].code = code /\ req'[c].fd = NoFile

LEMMA StartEffect ==
    ASSUME TypeOK, NEW c \in Clients, NEW op, NEW id, NEW at, Start(c, op, id, at, NoFile)
    PROVE  Began(c, op, id, at, 0)
BY DEF TypeOK, Start, Began

LEMMA NotFoundEffect ==
    ASSUME TypeOK, NEW c \in Clients, NEW op, NEW id, NotFound(c, op, id)
    PROVE  Began(c, op, id, "done", 404)
BY DEF TypeOK, NotFound, Began

LEMMA GotoEffect ==
    ASSUME TypeOK, NEW c \in Clients, NEW at, Goto(c, at)
    PROVE  Moved(c, at, req[c].code, req[c].fd)
<1>1. req[c] \in Request
  BY DEF TypeOK
<1> QED BY <1>1 DEF TypeOK, Goto, Moved, Request

LEMMA AnswerEffect ==
    ASSUME TypeOK, NEW c \in Clients, NEW code, Answer(c, code)
    PROVE  Moved(c, "done", code, req[c].fd)
<1>1. req[c] \in Request
  BY DEF TypeOK
<1> QED BY <1>1 DEF TypeOK, Answer, Moved, Request

LEMMA OpenEffect ==
    ASSUME TypeOK, NEW c \in Clients, NEW at, NEW fd,
           req' = [req EXCEPT ![c].fd = fd, ![c].at = at]
    PROVE  Moved(c, at, req[c].code, fd)
<1>1. req[c] \in Request
  BY DEF TypeOK
<1> QED BY <1>1 DEF TypeOK, Moved, Request

LEMMA HitEffect ==
    ASSUME TypeOK, NEW c \in Clients, NEW fd,
           req' = [req EXCEPT ![c].at = "done", ![c].code = 200, ![c].fd = fd]
    PROVE  Moved(c, "done", 200, fd)
<1>1. req[c] \in Request
  BY DEF TypeOK
<1> QED BY <1>1 DEF TypeOK, Moved, Request

----------------------------------------------------------------------------
(* Who owns an id: nobody before newID drew it, then the one upload that   *)
(* drew it, then the registry, and after a DELETE nobody ever again.       *)

\* c is uploading the archive of its id.
Uploads(c) == Active(c) /\ req[c].op = "upload"

\* c's request is about a file its first lookup found.
Found(c) == req[c].op \notin {"none", "upload"} /\ (Active(c) \/ req[c].code # 404)

Ownership ==
    /\ registered \subseteq Minted
    /\ \A id \in Ids : Known(id) => id \in registered
    /\ \A id \in Ids : tgz[id] \in {NoFile, body[id]}
    /\ \A c \in Clients : Uploads(c) =>
          req[c].id \notin registered /\ tgz[req[c].id] # NoFile
    /\ \A c, d \in Clients : Uploads(c) /\ Uploads(d) /\ req[c].id = req[d].id => c = d
    /\ \A c \in Clients : Found(c) => req[c].id \in registered
    /\ \A c \in Clients :
          (req[c].op = "delete" /\ req[c].at \in {"unlinkBlob", "unregister"}) =>
              tgz[req[c].id] = NoFile
    /\ \A c \in Clients :
          (req[c].op = "delete" /\ req[c].code = 204) => ~Known(req[c].id)

\* A conversion lies beside the archive only while its upload makes it.
Conversions ==
    /\ conv \subseteq Minted
    /\ \A c \in Clients :
          (Uploads(c) /\ req[c].at \notin {"convert", "rename"}) => req[c].id \notin conv

\* Only searches and downloads read an archive through.
Readers ==
    \A c \in Clients :
        req[c].at \in {"openTgz", "scan"} => req[c].op \in {"search", "content"}

DiskInvariant ==
    Readers /\ Ownership /\ Conversions /\ DeletedOnce /\ ListedHasArchive /\ NoUploadLeftovers

LEMMA DiskInit == Init => DiskInvariant
BY DEF Init, DiskInvariant, Readers, Ownership, Conversions, DeletedOnce, ListedHasArchive,
       NoUploadLeftovers, StoreInit, Known, Minted, Uploads, Found, Uploading, Active, NoRequest

\* A parser changes what is recorded about a file, never whether it is listed.
LEMMA ParserKeepsListing ==
    ASSUME TypeOK, NEW id \in Ids, ParserStep(id)
    PROVE  /\ UNCHANGED <<tgz, conv, req, cfgLock, cfgCache, body, registered, lost>>
           /\ \A i \in Ids : Known(i)' <=> Known(i)
<1>1. ASSUME NEW t, Save(t, id) PROVE \A i \in Ids : Known(i)' <=> Known(i)
  BY <1>1 DEF Save, Known
<1>2. ASSUME NEW k \in Kinds, SetKind(id, k) PROVE \A i \in Ids : Known(i)' <=> Known(i)
  <2>1. Known(id) => [files[id] EXCEPT !.kind = k] \in FileRecord
    BY <1>2 DEF TypeOK, StoreTypeOK, FileRecord, Known
  <2>2. Known(id) => files' = [files EXCEPT ![id] = [files[id] EXCEPT !.kind = k]]
    BY <1>2 DEF SetKind
  <2> QED BY <1>2, <2>1, <2>2, StoreAssumption DEF SetKind, Known, TypeOK, StoreTypeOK
<1>3. ASSUME NEW s \in Statuses, SetStatus(id, s) PROVE \A i \in Ids : Known(i)' <=> Known(i)
  <2>1. Known(id) => [files[id] EXCEPT !.status = s] \in FileRecord
    BY <1>3 DEF TypeOK, StoreTypeOK, FileRecord, Known
  <2>2. Known(id) => files' = [files EXCEPT ![id] = [files[id] EXCEPT !.status = s]]
    BY <1>3 DEF SetStatus
  <2> QED BY <1>3, <2>1, <2>2, StoreAssumption DEF SetStatus, Known, TypeOK, StoreTypeOK
<1>4. UNCHANGED storeVars => \A i \in Ids : Known(i)' <=> Known(i)
  BY DEF storeVars, Known
<1>5. job[id].kind \in Kinds /\ job[id].status \in Statuses
  BY DEF TypeOK, Job, Statuses
<1>6. UNCHANGED <<tgz, conv, req, cfgLock, cfgCache, body, registered, lost>>
  BY DEF ParserStep, AcquireSlot, OpenArchive, IndexArchive, RecordKind, CreateBlob, FinishBlob,
         Extract, Settle, ReleaseSlot, parserKeeps, cache, history
<1> QED BY <1>1, <1>2, <1>3, <1>4, <1>5, <1>6
    DEF ParserStep, AcquireSlot, OpenArchive, IndexArchive, RecordKind, CreateBlob, FinishBlob,
        Extract, Settle, ReleaseSlot

LEMMA ParserKeepsDisk ==
    ASSUME TypeOK, DiskInvariant, NEW id \in Ids, ParserStep(id)
    PROVE  DiskInvariant'
<1>1. /\ UNCHANGED <<tgz, conv, req, body, registered, lost>>
      /\ \A i \in Ids : Known(i)' <=> Known(i)
  BY ParserKeepsListing
<1>2. \A c \in Clients : req[c].at # "idle" => req[c].id \in Ids
  BY DEF TypeOK
<1> QED BY <1>1, <1>2
    DEF DiskInvariant, Readers, Ownership, Conversions, DeletedOnce, ListedHasArchive,
        NoUploadLeftovers, Minted, Uploads, Found, Uploading, BeingDeleted, Active

\* Requests that only read: their steps move nothing but themselves.
LEMMA ReadersKeepDisk ==
    ASSUME TypeOK, DiskInvariant, NEW c \in Clients,
           NEW op \in {"search", "content", "config"},
           UNCHANGED <<files, tgz, conv, body, registered, lost>>,
           \/ \E id \in Ids : \E at, code :
                 Began(c, op, id, at, code) /\ ((at = "done" /\ code = 404) \/ Known(id))
           \/ \E at, code, fd : Moved(c, at, code, fd) /\ req[c].op = op /\ Active(c),
           req'[c].at \in {"openTgz", "scan"} => op # "config"
    PROVE  DiskInvariant'
<1>1. \A d \in Clients : d # c => req'[d] = req[d]
  BY DEF Began, Moved
<1>2. req'[c].op = op /\ ~Uploads(c)'
  BY DEF Began, Moved, Uploads
<1>3. Found(c)' => req'[c].id \in registered
  <2>1. ASSUME NEW id \in Ids, NEW at, NEW code, Began(c, op, id, at, code),
               (at = "done" /\ code = 404) \/ Known(id)
        PROVE  Found(c)' => req'[c].id \in registered
    BY <2>1 DEF Began, DiskInvariant, Ownership, Found, Active
  <2> QED BY <2>1 DEF Moved, DiskInvariant, Ownership, Found
<1>4. ~Uploads(c)
  BY DEF Began, Moved, Uploads
<1>5. ~(req[c].op = "delete" /\ req[c].at \in {"unlinkBlob", "unregister"})
  BY DEF Began, Moved, Active
<1>6. \A d \in Clients : /\ Uploads(d)' <=> Uploads(d)
                         /\ Uploads(d) => req'[d] = req[d]
  BY <1>1, <1>2, <1>4 DEF Uploads, Active
<1>7. \A id \in Ids : /\ Uploading(id)' <=> Uploading(id)
                      /\ BeingDeleted(id)' <=> BeingDeleted(id)
  BY <1>1, <1>2, <1>4, <1>5 DEF Uploading, Uploads, BeingDeleted, Active
<1>8. \A d \in Clients : req'[d].op = "delete" => req'[d] = req[d]
  BY <1>1, <1>2
<1>9. Ownership'
  BY <1>1, <1>3, <1>6, <1>8 DEF DiskInvariant, Ownership, Minted, Known, Found, Active
<1>10. Conversions'
  BY <1>6 DEF DiskInvariant, Conversions, Minted
<1>11. DeletedOnce'
  BY <1>8 DEF DiskInvariant, DeletedOnce
<1>12. ListedHasArchive' /\ NoUploadLeftovers'
  BY <1>7 DEF DiskInvariant, ListedHasArchive, NoUploadLeftovers, Known, TypeOK
<1>13. Readers'
  BY <1>1, <1>2 DEF DiskInvariant, Readers
<1> QED BY <1>9, <1>10, <1>11, <1>12, <1>13 DEF DiskInvariant

\* handleSearch, handleContent and handleConfig.
LEMMA SearchKeepsDisk ==
    ASSUME TypeOK, DiskInvariant, NEW c \in Clients,
           \/ \E op \in {"search", "content"} : ReadGet(c, op)
           \/ ReadOpen(c) \/ SearchLookup(c) \/ SearchBlob(c) \/ ReadScan(c)
    PROVE  DiskInvariant'
<1>0. UNCHANGED <<files, tgz, conv, body, registered, lost>>
  BY DEF ReadGet, ReadOpen, SearchLookup, SearchBlob, ReadScan, clientKeeps, storeVars, disk,
         history
<1>1. ASSUME NEW op \in {"search", "content"}, ReadGet(c, op) PROVE DiskInvariant'
  <2>1. PICK id \in Minted : IF Known(id) THEN Start(c, op, id, "openTgz", NoFile)
                                        ELSE NotFound(c, op, id)
    BY <1>1 DEF ReadGet
  <2>2. \/ Began(c, op, id, "openTgz", 0) /\ Known(id)
        \/ Began(c, op, id, "done", 404)
    BY <2>1, StartEffect, NotFoundEffect
  <2>3. id \in Ids
    BY DEF Minted
  <2> QED BY <1>0, <2>2, <2>3, ReadersKeepDisk
<1>2. ASSUME NEW op \in {"search", "content"}, req[c].op = op, Active(c),
             \E at, code, fd : Moved(c, at, code, fd)
      PROVE  DiskInvariant'
  BY <1>0, <1>2, ReadersKeepDisk
<1>3. CASE ReadOpen(c) \/ ReadScan(c)
  <2>1. Active(c) /\ req[c].op \in {"search", "content"}
    BY <1>3 DEF ReadOpen, ReadScan, Active, DiskInvariant, Readers
  <2>2. \E at, code, fd : Moved(c, at, code, fd)
    <3>1. CASE ReadScan(c)
      BY <3>1, AnswerEffect DEF ReadScan
    <3>2. CASE ReadOpen(c) /\ tgz[req[c].id] = NoFile
      BY <3>2, AnswerEffect DEF ReadOpen
    <3>3. CASE ReadOpen(c) /\ tgz[req[c].id] # NoFile
      BY <3>3, OpenEffect DEF ReadOpen
    <3> QED BY <1>3, <3>1, <3>2, <3>3
  <2> QED BY <1>2, <2>1, <2>2
<1>4. CASE SearchLookup(c) \/ SearchBlob(c)
  <2>1. Active(c) /\ req[c].op = "search"
    BY <1>4 DEF SearchLookup, SearchBlob, Doing, Active
  <2>2. \E at, code, fd : Moved(c, at, code, fd)
    BY <1>4, GotoEffect, AnswerEffect DEF SearchLookup, SearchBlob
  <2> QED BY <1>2, <2>1, <2>2
<1> QED BY <1>1, <1>3, <1>4

LEMMA ConfigKeepsDisk ==
    ASSUME TypeOK, DiskInvariant, Cascade, NEW c \in Clients,
           ConfigDoc(c) \/ ConfigGet(c) \/ ConfigLock(c) \/ ConfigOpen(c) \/ ConfigParse(c)
    PROVE  DiskInvariant'
<1>0. UNCHANGED <<files, tgz, conv, body, registered, lost>>
  BY DEF ConfigDoc, ConfigGet, ConfigLock, ConfigOpen, ConfigParse, clientKeeps, storeVars, disk,
         history
<1>1. CASE ConfigDoc(c)
  <2>1. PICK id \in Minted : IF id \in tables["config"] THEN Start(c, "config", id, "doc", NoFile)
                                                       ELSE NotFound(c, "config", id)
    BY <1>1 DEF ConfigDoc
  <2>2. id \in Ids /\ (id \in tables["config"] => Known(id))
    BY ServiceAssumption DEF Minted, Cascade, Holdings, ResultTables
  <2>3. \/ Began(c, "config", id, "doc", 0) /\ Known(id)
        \/ Began(c, "config", id, "done", 404)
    BY <2>1, <2>2, StartEffect, NotFoundEffect
  <2>4. req'[c].at \notin {"openTgz", "scan"}
    BY <2>3 DEF Began
  <2> QED BY <1>0, <2>2, <2>3, <2>4, ReadersKeepDisk
<1>2. ASSUME NEW at \in {"done", "lock", "openConfig", "parseConfig"}, NEW code, NEW fd,
             req[c].op = "config", Active(c), Moved(c, at, code, fd)
      PROVE  DiskInvariant'
  <2>1. req'[c].at \notin {"openTgz", "scan"}
    BY <1>2 DEF Moved
  <2> QED BY <1>0, <1>2, <2>1, ReadersKeepDisk
<1>3. ASSUME ConfigGet(c) \/ ConfigLock(c) \/ ConfigOpen(c) \/ ConfigParse(c)
      PROVE  req[c].op = "config" /\ Active(c)
  BY <1>3 DEF ConfigGet, ConfigLock, ConfigOpen, ConfigParse, Doing, Active
<1>4. CASE ConfigGet(c)
  BY <1>2, <1>3, <1>4, GotoEffect, AnswerEffect DEF ConfigGet
<1>5. CASE ConfigLock(c)
  <2>1. req[c].op = "config" /\ Active(c)
    BY <1>3, <1>5
  <2>2. \/ req' = [req EXCEPT ![c].at = "done", ![c].code = 200, ![c].fd = cfgCache.tree]
        \/ Goto(c, "openConfig")
    BY <1>5 DEF ConfigLock
  <2>3. CASE req' = [req EXCEPT ![c].at = "done", ![c].code = 200, ![c].fd = cfgCache.tree]
    <3>1. Moved(c, "done", 200, cfgCache.tree)
      BY <2>3, HitEffect
    <3> QED BY <1>2, <2>1, <3>1
  <2>4. CASE Goto(c, "openConfig")
    <3>1. Moved(c, "openConfig", req[c].code, req[c].fd)
      BY <2>4, GotoEffect
    <3> QED BY <1>2, <2>1, <3>1
  <2> QED BY <2>2, <2>3, <2>4
<1>6. CASE ConfigOpen(c)
  BY <1>2, <1>3, <1>6, OpenEffect, AnswerEffect DEF ConfigOpen
<1>7. CASE ConfigParse(c)
  BY <1>2, <1>3, <1>7, AnswerEffect DEF ConfigParse
<1> QED BY <1>1, <1>4, <1>5, <1>6, <1>7

\* handleDelete: the archive goes first, the record last.
LEMMA DeleteKeepsDisk ==
    ASSUME TypeOK, DiskInvariant, NEW c \in Clients,
           DeleteGet(c) \/ DeleteUnlink(c) \/ DeleteUnlinkBlob(c) \/ DeleteUnregister(c)
    PROVE  DiskInvariant'
<1>0. UNCHANGED <<conv, body, registered, lost>>
  BY DEF DeleteGet, DeleteUnlink, DeleteUnlinkBlob, DeleteUnregister, disk, history
<1>1. CASE DeleteGet(c)
  <2>1. PICK id \in Minted : IF Known(id) THEN Start(c, "delete", id, "unlink", NoFile)
                                        ELSE NotFound(c, "delete", id)
    BY <1>1 DEF DeleteGet
  <2>2. /\ id \in Ids
        /\ \/ Began(c, "delete", id, "unlink", 0) /\ Known(id)
           \/ Began(c, "delete", id, "done", 404)
    BY <2>1, StartEffect, NotFoundEffect DEF Minted
  <2>3. UNCHANGED <<files, tgz>>
    BY <1>1 DEF DeleteGet, storeVars, disk
  <2>4. \A d \in Clients : /\ Uploads(d)' <=> Uploads(d)
                           /\ Uploads(d) => req'[d] = req[d]
    BY <2>2 DEF Began, Uploads, Active
  <2>5. \A i \in Ids : /\ Uploading(i)' <=> Uploading(i)
                       /\ BeingDeleted(i) => BeingDeleted(i)'
    BY <2>2, <2>4 DEF Uploading, Uploads, BeingDeleted, Began, Active
  <2>6. \A d \in Clients : d # c => req'[d] = req[d]
    BY <2>2 DEF Began
  <2>7. /\ req'[c].at \in {"unlink", "done"} /\ req'[c].code \in {0, 404}
        /\ Found(c)' => req'[c].id \in registered
        /\ ~Uploads(c)'
    BY <2>2 DEF Began, DiskInvariant, Ownership, Found, Active, Uploads
  <2>8. Ownership'
    BY <1>0, <2>3, <2>4, <2>6, <2>7 DEF DiskInvariant, Ownership, Minted, Known, Found, Active
  <2>9. Conversions' /\ Readers' /\ DeletedOnce'
    BY <1>0, <2>4, <2>6, <2>7 DEF DiskInvariant, Conversions, Minted, Readers, DeletedOnce
  <2>10. ListedHasArchive' /\ NoUploadLeftovers'
    BY <1>0, <2>3, <2>5 DEF DiskInvariant, ListedHasArchive, NoUploadLeftovers, Known, TypeOK
  <2> QED BY <2>8, <2>9, <2>10 DEF DiskInvariant
<1>2. CASE DeleteUnlink(c) \/ DeleteUnlinkBlob(c)
  <2> DEFINE at == IF DeleteUnlink(c) THEN "unlinkBlob" ELSE "unregister"
  <2>1. /\ Moved(c, at, req[c].code, req[c].fd)
        /\ Active(c) /\ req[c].op = "delete" /\ req[c].id \in Ids
    BY <1>2, GotoEffect DEF DeleteUnlink, DeleteUnlinkBlob, Doing, Active, TypeOK
  <2>2. at \in {"unlinkBlob", "unregister"}
    OBVIOUS
  <2>3. UNCHANGED files /\ tgz' = [tgz EXCEPT ![req[c].id] = NoFile]
    <3>1. CASE DeleteUnlink(c)
      BY <3>1 DEF DeleteUnlink, storeVars
    <3>2. CASE DeleteUnlinkBlob(c)
      BY <3>2 DEF DeleteUnlinkBlob, Doing, storeVars, DiskInvariant, Ownership, TypeOK
    <3> QED BY <1>2, <3>1, <3>2
  <2> HIDE DEF at
  <2>4. \A d \in Clients : /\ Uploads(d)' <=> Uploads(d)
                           /\ Uploads(d) => req'[d] = req[d]
    BY <2>1, <2>2 DEF Moved, Uploads, Active
  <2>5. \A i \in Ids : /\ Uploading(i)' <=> Uploading(i)
                       /\ BeingDeleted(i) => BeingDeleted(i)'
    BY <2>1, <2>2, <2>4 DEF Uploading, Uploads, BeingDeleted, Moved, Active
  <2>6. \A i \in Ids : i = req[c].id => BeingDeleted(i)'
    BY <2>1, <2>2 DEF Moved, BeingDeleted
  <2>7. \A d \in Clients : Uploads(d) => req[d].id # req[c].id
    BY <2>1 DEF DiskInvariant, Ownership, Found
  <2>8. \A i \in Ids : tgz'[i] = IF i = req[c].id THEN NoFile ELSE tgz[i]
    BY <2>3 DEF TypeOK
  <2>9. Ownership'
    BY <1>0, <2>1, <2>2, <2>3, <2>4, <2>7, <2>8
    DEF DiskInvariant, Ownership, Minted, Known, Found, Active, Moved, Uploads, TypeOK
  <2>10. Conversions' /\ Readers' /\ DeletedOnce'
    BY <1>0, <2>1, <2>2, <2>4 DEF DiskInvariant, Conversions, Minted, Readers, DeletedOnce, Moved
  <2>11. ListedHasArchive' /\ NoUploadLeftovers'
    BY <1>0, <2>1, <2>3, <2>5, <2>6, <2>8
    DEF DiskInvariant, ListedHasArchive, NoUploadLeftovers, Known, TypeOK
  <2> QED BY <2>9, <2>10, <2>11 DEF DiskInvariant
<1>3. CASE DeleteUnregister(c)
  <2> DEFINE id == req[c].id
             code == IF Known(id) THEN 204 ELSE 500
  <2>1. /\ Moved(c, "done", code, req[c].fd)
        /\ req[c].op = "delete" /\ req[c].at = "unregister" /\ id \in Ids
        /\ tgz[id] = NoFile /\ id \in registered /\ UNCHANGED tgz
    BY <1>3, AnswerEffect
    DEF DeleteUnregister, Doing, TypeOK, disk, DiskInvariant, Ownership, Found, Active
  <2>2. \A i \in Ids : Known(i)' <=> Known(i) /\ i # id
    BY <1>3, <2>1 DEF DeleteUnregister, Delete, Known, storeVars, TypeOK, StoreTypeOK
  <2>3. Known(id) => \A d \in Clients : req[d].op = "delete" /\ req[d].id = id => req[d].code # 204
    BY <2>1 DEF DiskInvariant, Ownership
  <2> HIDE DEF id
  <2>4. \A d \in Clients : /\ Uploads(d)' <=> Uploads(d)
                           /\ Uploads(d) => req'[d] = req[d]
    BY <2>1 DEF Moved, Uploads, Active
  <2>5. \A i \in Ids : Uploading(i)' <=> Uploading(i)
    BY <2>1, <2>4 DEF Uploading, Uploads, Moved, Active
  <2>6. \A i \in Ids : i # id /\ BeingDeleted(i) => BeingDeleted(i)'
    BY <2>1 DEF BeingDeleted, Moved, id
  <2>9. Ownership'
    BY <1>0, <2>1, <2>2, <2>4
    DEF DiskInvariant, Ownership, Minted, Found, Active, Moved, Uploads, TypeOK, id
  <2>10. Conversions' /\ Readers'
    BY <1>0, <2>1, <2>4 DEF DiskInvariant, Conversions, Minted, Readers, Moved
  <2>11. DeletedOnce'
    BY <2>1, <2>3 DEF DiskInvariant, DeletedOnce, Moved, id
  <2>12. ListedHasArchive' /\ NoUploadLeftovers'
    BY <1>0, <2>1, <2>2, <2>5, <2>6
    DEF DiskInvariant, ListedHasArchive, NoUploadLeftovers, TypeOK
  <2> QED BY <2>9, <2>10, <2>11, <2>12 DEF DiskInvariant
<1> QED BY <1>1, <1>2, <1>3

\* handleUpload.  The id is drawn anew, so nothing is known of it yet.
LEMMA BeginKeepsDisk ==
    ASSUME TypeOK, DiskInvariant, NEW c \in Clients, UploadBegin(c)
    PROVE  DiskInvariant'
<1>1. PICK id \in Ids \ Minted, b \in Bundles :
        /\ Start(c, "upload", id, "copy", NoFile)
        /\ body' = [body EXCEPT ![id] = b]
        /\ tgz' = [tgz EXCEPT ![id] = b]
  BY DEF UploadBegin
<1>2. UNCHANGED <<files, conv, registered, lost>>
  BY DEF UploadBegin, storeVars
<1>3. Began(c, "upload", id, "copy", 0)
  BY <1>1, StartEffect
<1>4. b # NoFile /\ body[id] = NoFile /\ id \notin registered /\ id \notin conv
  BY <1>1, ServiceAssumption DEF Minted, DiskInvariant, Ownership, Conversions
<1>5. \A i \in Ids : /\ body'[i] = (IF i = id THEN b ELSE body[i])
                     /\ tgz'[i] = (IF i = id THEN b ELSE tgz[i])
  BY <1>1 DEF TypeOK
<1>6. Minted' = Minted \cup {id}
  BY <1>4, <1>5 DEF Minted
<1>7. \A d \in Clients : /\ d # c => req'[d] = req[d]
                         /\ d # c => (Uploads(d)' <=> Uploads(d))
                         /\ Uploads(d) => req[d].id # id /\ d # c
  BY <1>3, <1>4 DEF Began, Uploads, Active, DiskInvariant, Ownership, TypeOK
<1>8. /\ req'[c].op = "upload" /\ req'[c].id = id /\ req'[c].at = "copy" /\ req'[c].code = 0
      /\ ~Found(c)' /\ ~Active(c)
  BY <1>3 DEF Began, Found
<1>9. \A i \in Ids : /\ Uploading(i) => Uploading(i)'
                     /\ Uploading(id)'
                     /\ BeingDeleted(i) => BeingDeleted(i)'
  BY <1>7, <1>8 DEF Uploading, Uploads, BeingDeleted, Active
<1>10. Ownership'
  <2>1. registered' \subseteq Minted' /\ \A i \in Ids : Known(i)' => i \in registered'
    BY <1>2, <1>6 DEF DiskInvariant, Ownership, Known
  <2>2. \A i \in Ids : tgz'[i] \in {NoFile, body'[i]}
    BY <1>5 DEF DiskInvariant, Ownership
  <2>3. \A d \in Clients : Uploads(d)' => req'[d].id \notin registered' /\ tgz'[req'[d].id] # NoFile
    BY <1>2, <1>4, <1>5, <1>7, <1>8 DEF DiskInvariant, Ownership, TypeOK, Uploads, Active
  <2>4. \A d, e \in Clients : Uploads(d)' /\ Uploads(e)' /\ req'[d].id = req'[e].id => d = e
    BY <1>7, <1>8 DEF DiskInvariant, Ownership
  <2>5. \A d \in Clients : Found(d)' => req'[d].id \in registered'
    BY <1>2, <1>7, <1>8 DEF DiskInvariant, Ownership, Found, Active
  <2>6. \A d \in Clients : (req'[d].op = "delete" /\ req'[d].at \in {"unlinkBlob", "unregister"})
                              => tgz'[req'[d].id] = NoFile
    <3>1. ASSUME NEW d \in Clients, req'[d].op = "delete",
                 req'[d].at \in {"unlinkBlob", "unregister"}
          PROVE  tgz'[req'[d].id] = NoFile
      <4>1. d # c /\ req'[d] = req[d] /\ Found(d) /\ req[d].id \in Ids
        BY <1>7, <1>8, <3>1 DEF Found, Active, TypeOK
      <4>2. req[d].id # id /\ tgz[req[d].id] = NoFile
        BY <1>4, <3>1, <4>1 DEF DiskInvariant, Ownership
      <4> QED BY <1>5, <4>1, <4>2
    <3> QED BY <3>1
  <2>7. \A d \in Clients : (req'[d].op = "delete" /\ req'[d].code = 204) => ~Known(req[d].id)'
    BY <1>2, <1>7, <1>8 DEF DiskInvariant, Ownership, Known
  <2> QED BY <1>2, <1>7, <1>8, <2>1, <2>2, <2>3, <2>4, <2>5, <2>6, <2>7 DEF Ownership, Known, DiskInvariant
<1>11. Conversions' /\ Readers' /\ DeletedOnce'
  BY <1>2, <1>4, <1>6, <1>7, <1>8 DEF DiskInvariant, Conversions, Readers, DeletedOnce
<1>12. ListedHasArchive' /\ NoUploadLeftovers'
  BY <1>2, <1>4, <1>5, <1>9 DEF DiskInvariant, ListedHasArchive, NoUploadLeftovers, Known, TypeOK
<1> QED BY <1>10, <1>11, <1>12 DEF DiskInvariant

\* An upload that goes on keeps its archive; one that is refused takes the
\* archive and the conversion along.
LEMMA UploadGoesOn ==
    ASSUME TypeOK, DiskInvariant, NEW c \in Clients, Uploads(c),
           NEW at \in {"convert", "rename", "register", "done"},
           NEW code \in {0, 400, 500, req[c].code}, Moved(c, at, code, req[c].fd),
           UNCHANGED <<files, body, registered, lost>>,
           \A i \in Ids : tgz'[i] = IF at = "done" /\ i = req[c].id THEN NoFile ELSE tgz[i],
           \A i : i # req[c].id => (i \in conv' <=> i \in conv),
           req[c].id \in conv' => at \in {"convert", "rename"}
    PROVE  DiskInvariant'
<1> DEFINE id == req[c].id
<1>1. /\ id \in Minted /\ id \in Ids /\ id \notin registered /\ ~Known(id)
      /\ \A d \in Clients : d # c /\ Uploads(d) => req[d].id # id
      /\ \A d \in Clients : Found(d) => req[d].id # id
      /\ Minted' = Minted
  BY DEF Uploads, Active, TypeOK, DiskInvariant, Ownership, Minted
<1>2. /\ \A d \in Clients : d # c => req'[d] = req[d]
      /\ req'[c].op = "upload" /\ req'[c].id = id /\ req'[c].at = at
      /\ Uploads(c)' <=> at # "done"
      /\ ~Found(c)'
  BY DEF Moved, Uploads, Found, Active
<1> HIDE DEF id
<1>3. \A d \in Clients : d # c => (Uploads(d)' <=> Uploads(d)) /\ (Found(d)' <=> Found(d))
  BY <1>2 DEF Uploads, Found, Active
<1>4. \A i \in Ids : /\ (i # id \/ at # "done") => (Uploading(i) => Uploading(i)')
                     /\ BeingDeleted(i) <=> BeingDeleted(i)'
  BY <1>2, <1>3 DEF Uploading, Uploads, BeingDeleted, Active, id
<1>5. Ownership'
  <2>1. registered' \subseteq Minted' /\ \A i \in Ids : Known(i)' => i \in registered'
    BY <1>1 DEF DiskInvariant, Ownership, Known
  <2>2. \A i \in Ids : tgz'[i] \in {NoFile, body'[i]}
    BY DEF DiskInvariant, Ownership
  <2>3. \A d \in Clients : Uploads(d)' => req'[d].id \notin registered' /\ tgz'[req'[d].id] # NoFile
    <3>1. ASSUME NEW d \in Clients, Uploads(d)'
          PROVE  req'[d].id \notin registered' /\ tgz'[req'[d].id] # NoFile
      <4>1. Uploads(d) /\ req'[d].id = req[d].id /\ req[d].id \in Ids
        BY <1>2, <1>3, <3>1 DEF Uploads, Active, TypeOK, id
      <4>2. at = "done" => req[d].id # id
        BY <1>1, <1>2, <3>1, <4>1
      <4> QED BY <4>1, <4>2 DEF DiskInvariant, Ownership, id
    <3> QED BY <3>1
  <2>4. \A d, e \in Clients : Uploads(d)' /\ Uploads(e)' /\ req'[d].id = req'[e].id => d = e
    BY <1>1, <1>2, <1>3 DEF DiskInvariant, Ownership
  <2>5. \A d \in Clients : Found(d)' => req'[d].id \in registered'
    BY <1>2, <1>3 DEF DiskInvariant, Ownership
  <2>6. \A d \in Clients : (req'[d].op = "delete" /\ req'[d].at \in {"unlinkBlob", "unregister"})
                              => tgz'[req'[d].id] = NoFile
    BY <1>2 DEF DiskInvariant, Ownership, TypeOK
  <2>7. \A d \in Clients : (req'[d].op = "delete" /\ req'[d].code = 204) => ~Known(req[d].id)'
    BY <1>2 DEF DiskInvariant, Ownership, Known
  <2> QED BY <1>2, <2>1, <2>2, <2>3, <2>4, <2>5, <2>6, <2>7 DEF Ownership, Known, DiskInvariant
<1>6. Conversions'
  BY <1>1, <1>2, <1>3 DEF DiskInvariant, Conversions, id
<1>7. Readers' /\ DeletedOnce'
  BY <1>2 DEF DiskInvariant, Readers, DeletedOnce
<1>8. ListedHasArchive'
  BY <1>1, <1>4 DEF DiskInvariant, ListedHasArchive, Known, id
<1>9. NoUploadLeftovers'
  <2>1. ASSUME NEW i \in Ids, i \notin lost', i \in conv' \/ (tgz'[i] # NoFile /\ ~Known(i)')
        PROVE  Uploading(i)'
    <3>1. CASE i = id
      BY <1>2, <2>1, <3>1 DEF Uploading, Uploads, id
    <3>2. CASE i # id
      BY <1>4, <2>1, <3>2 DEF DiskInvariant, NoUploadLeftovers, Known, id
    <3> QED BY <3>1, <3>2
  <2>2. conv' \subseteq Ids
    BY <1>1 DEF TypeOK, id
  <2> QED BY <2>1, <2>2 DEF NoUploadLeftovers
<1> QED BY <1>5, <1>6, <1>7, <1>8, <1>9 DEF DiskInvariant

LEMMA ConvertKeepsDisk ==
    ASSUME TypeOK, DiskInvariant, NEW c \in Clients,
           UploadCopy(c) \/ UploadConvert(c) \/ UploadRename(c)
    PROVE  DiskInvariant'
<1>0. UNCHANGED <<files, body, registered, lost>>
  BY DEF UploadCopy, UploadConvert, UploadRename, storeVars, history
<1>1. Uploads(c) /\ req[c].id \in Ids
  BY DEF UploadCopy, UploadConvert, UploadRename, Doing, Uploads, Active, TypeOK
<1>2. ASSUME NEW code \in {400, 500}, Answer(c, code),
             tgz' = [tgz EXCEPT ![req[c].id] = NoFile], conv' = conv \ {req[c].id}
      PROVE  DiskInvariant'
  <2>1. Moved(c, "done", code, req[c].fd)
    BY <1>2, AnswerEffect
  <2>2. \A i \in Ids : tgz'[i] = IF "done" = "done" /\ i = req[c].id THEN NoFile ELSE tgz[i]
    BY <1>2 DEF TypeOK
  <2>3. /\ \A i : i # req[c].id => (i \in conv' <=> i \in conv)
        /\ req[c].id \in conv' => "done" \in {"convert", "rename"}
    BY <1>2
  <2> QED BY <1>0, <1>1, <2>1, <2>2, <2>3, UploadGoesOn
<1>3. ASSUME NEW at \in {"convert", "rename", "register"}, Goto(c, at), UNCHANGED tgz,
             \A i : i # req[c].id => (i \in conv' <=> i \in conv),
             req[c].id \in conv' => at \in {"convert", "rename"}
      PROVE  DiskInvariant'
  <2>1. Moved(c, at, req[c].code, req[c].fd)
    BY <1>3, GotoEffect
  <2>2. \A i \in Ids : tgz'[i] = IF at = "done" /\ i = req[c].id THEN NoFile ELSE tgz[i]
    BY <1>3
  <2> QED BY <1>0, <1>1, <1>3, <2>1, <2>2, UploadGoesOn
<1>4. CASE UploadCopy(c)
  <2>1. req[c].id \notin conv
    BY <1>1, <1>4 DEF UploadCopy, Doing, DiskInvariant, Conversions
  <2>2. conv = conv \ {req[c].id}
    BY <2>1
  <2> QED BY <1>2, <1>3, <1>4, <2>1, <2>2 DEF UploadCopy
<1>5. CASE UploadConvert(c)
  BY <1>2, <1>3, <1>5 DEF UploadConvert, UploadDiscard
<1>6. CASE UploadRename(c)
  BY <1>2, <1>3, <1>6 DEF UploadRename, UploadDiscard
<1> QED BY <1>4, <1>5, <1>6

\* An upload that is accepted hands its id over to the registry.
LEMMA RegisterKeepsDisk ==
    ASSUME TypeOK, DiskInvariant, NEW c \in Clients, UploadRegister(c)
    PROVE  DiskInvariant'
<1> DEFINE id == req[c].id
<1>1. /\ Moved(c, "done", 201, req[c].fd) /\ Uploads(c) /\ req[c].at = "register"
      /\ UNCHANGED <<tgz, conv, body, lost>> /\ registered' = registered \cup {id}
  BY AnswerEffect DEF UploadRegister, Doing, Uploads, Active, disk
<1>2. /\ id \in Minted /\ id \in Ids /\ id \notin registered /\ ~Known(id)
      /\ tgz[id] # NoFile /\ id \notin conv
      /\ \A d \in Clients : d # c /\ Uploads(d) => req[d].id # id
      /\ \A d \in Clients : Found(d) => req[d].id # id
      /\ Minted' = Minted
  BY <1>1 DEF Uploads, Active, TypeOK, DiskInvariant, Ownership, Conversions, Minted
<1>3. \A i \in Ids : Known(i)' <=> Known(i) \/ i = id
  <2>1. [status |-> "parsing", kind |-> NoKind] \in FileRecord
    BY DEF FileRecord, Statuses
  <2>2. files' = [files EXCEPT ![id] = [status |-> "parsing", kind |-> NoKind]]
    BY DEF UploadRegister, Create
  <2> QED BY <1>2, <2>1, <2>2, StoreAssumption DEF Known, TypeOK, StoreTypeOK
<1>4. /\ \A d \in Clients : d # c => req'[d] = req[d]
      /\ req'[c].op = "upload" /\ req'[c].id = id /\ req'[c].at = "done"
      /\ ~Uploads(c)' /\ ~Found(c)'
  BY <1>1 DEF Moved, Uploads, Found, Active
<1> HIDE DEF id
<1>5. \A d \in Clients : d # c => (Uploads(d)' <=> Uploads(d)) /\ (Found(d)' <=> Found(d))
  BY <1>4 DEF Uploads, Found, Active
<1>6. \A i \in Ids : /\ i # id => (Uploading(i) => Uploading(i)')
                     /\ BeingDeleted(i) <=> BeingDeleted(i)'
  BY <1>1, <1>4, <1>5 DEF Uploading, Uploads, BeingDeleted, Active, id
<1>7. Ownership'
  <2>1. registered' \subseteq Minted' /\ \A i \in Ids : Known(i)' => i \in registered'
    BY <1>1, <1>2, <1>3 DEF DiskInvariant, Ownership
  <2>2. \A d \in Clients : Uploads(d)' => req'[d].id \notin registered' /\ tgz'[req'[d].id] # NoFile
    BY <1>1, <1>2, <1>4, <1>5 DEF DiskInvariant, Ownership
  <2>3. \A d, e \in Clients : Uploads(d)' /\ Uploads(e)' /\ req'[d].id = req'[e].id => d = e
    BY <1>4, <1>5 DEF DiskInvariant, Ownership
  <2>4. \A d \in Clients : (req'[d].op = "delete" /\ req'[d].at \in {"unlinkBlob", "unregister"})
                              => tgz'[req'[d].id] = NoFile
    BY <1>1, <1>4 DEF DiskInvariant, Ownership
  <2>5. \A d \in Clients : (req'[d].op = "delete" /\ req'[d].code = 204) => ~Known(req[d].id)'
    <3>1. ASSUME NEW d \in Clients, req'[d].op = "delete", req'[d].code = 204
          PROVE  req'[d] = req[d] /\ Found(d) /\ req[d].id # id /\ ~Known(req[d].id)
      BY <1>2, <1>4, <3>1 DEF Found, DiskInvariant, Ownership
    <3>2. \A d \in Clients : Found(d) => req[d].id \in Ids
      BY DEF DiskInvariant, Ownership, TypeOK
    <3> QED BY <1>3, <3>1, <3>2
  <2>6. \A d \in Clients : Found(d)' => req'[d].id \in registered'
    BY <1>1, <1>4, <1>5 DEF DiskInvariant, Ownership
  <2> QED BY <1>1, <2>1, <2>2, <2>3, <2>4, <2>5, <2>6 DEF Ownership, DiskInvariant, Known
<1>8. Conversions'
  BY <1>1, <1>2, <1>4, <1>5 DEF DiskInvariant, Conversions
<1>9. Readers' /\ DeletedOnce'
  BY <1>4 DEF DiskInvariant, Readers, DeletedOnce
<1>10. ListedHasArchive' /\ NoUploadLeftovers'
  BY <1>1, <1>2, <1>3, <1>6 DEF DiskInvariant, ListedHasArchive, NoUploadLeftovers, TypeOK
<1> QED BY <1>7, <1>8, <1>9, <1>10 DEF DiskInvariant

\* What a restart leaves on the volume is forgotten, not unfinished.
LEMMA RestartKeepsDisk ==
    ASSUME TypeOK, DiskInvariant, Restart
    PROVE  DiskInvariant'
<1>1. \A c \in Clients : req'[c].op = "none" /\ req'[c].at = "idle"
  BY DEF Restart, NoRequest
<1>2. \A i \in Ids : ~Known(i)'
  BY DEF Restart, Known
<1>3. UNCHANGED <<tgz, conv, body, registered>> /\ lost' = Minted /\ Minted' = Minted
  BY DEF Restart, Minted
<1>4. Ownership' /\ Conversions' /\ Readers' /\ DeletedOnce'
  BY <1>1, <1>2, <1>3
  DEF DiskInvariant, Ownership, Conversions, Readers, DeletedOnce, Uploads, Found, Active
<1>5. ListedHasArchive' /\ NoUploadLeftovers'
  BY <1>2, <1>3 DEF DiskInvariant, Ownership, Conversions, ListedHasArchive, NoUploadLeftovers, Minted
<1> QED BY <1>4, <1>5 DEF DiskInvariant

LEMMA DiskNext == TypeOK /\ Cascade /\ DiskInvariant /\ [Next]_vars => DiskInvariant'
<1> SUFFICES ASSUME TypeOK, Cascade, DiskInvariant, [Next]_vars PROVE DiskInvariant'
  OBVIOUS
<1>1. CASE \E id \in Ids : ParserStep(id)
  BY <1>1, ParserKeepsDisk
<1>2. ASSUME NEW c \in Clients, RequestStart(c) \/ RequestStep(c)
      PROVE  DiskInvariant'
  BY <1>2, BeginKeepsDisk, ConvertKeepsDisk, RegisterKeepsDisk, DeleteKeepsDisk, SearchKeepsDisk,
     ConfigKeepsDisk
  DEF RequestStart, RequestStep
<1>3. CASE Restart
  BY <1>3, RestartKeepsDisk
<1>4. CASE UNCHANGED vars
  BY <1>4
  DEF vars, TypeOK, DiskInvariant, Ownership, Conversions, Readers, DeletedOnce, ListedHasArchive,
      NoUploadLeftovers, Known, Minted, Uploads, Found, Uploading, BeingDeleted, Active
<1> QED BY <1>1, <1>2, <1>3, <1>4 DEF Next

LEMMA DiskSafe == Spec => []DiskInvariant
BY DiskInit, DiskNext, ServiceTypes, ServiceCascade, PTL DEF Spec

\* Every listed file can be opened, but for the moment between the unlink and
\* the unregistering of a DELETE.
THEOREM ListedFilesOpen == Spec => []ListedHasArchive
BY DiskSafe, PTL DEF DiskInvariant

\* A refused upload leaves nothing on disk.
THEOREM RefusedLeavesNothing == Spec => []NoUploadLeftovers
BY DiskSafe, PTL DEF DiskInvariant

\* Of concurrent DELETEs of one file at most one is answered 204.
THEOREM DeletedAtMostOnce == Spec => []DeletedOnce
BY DiskSafe, PTL DEF DiskInvariant

(***************************************************************************)
(* What the server hands out is what the file holds: an index with its     *)
(* blob, a config tree of the archive it was asked for, and an error only  *)
(* for an archive that cannot be read or is being deleted - whatever is    *)
(* parsed, deleted and cached meanwhile.  And each step of the server      *)
(* shows to its clients as one step of the abstract registry, or as none.  *)
(***************************************************************************)

\* The passes that list the archive and build its index come once each.
LEMMA IndexedOnce ==
    ASSUME NEW k, NEW n \in 1..Len(Passes(k))
    PROVE  (Passes(k)[n] = "archive" => n = 1) /\ (Passes(k)[n] = "searchIdx" => n = 2)
<1>1. CASE k = "gp-agent"
  <2>1. Passes(k) = <<"archive", "searchIdx", "gp", "logsigs">>
    BY <1>1 DEF Passes
  <2> QED BY <2>1
<1>2. CASE k # "gp-agent"
  <2>1. Passes(k) = <<"archive", "searchIdx", "sysinfo", "counters", "config", "logsigs",
                      "anomalies", "memory", "appstats", "licenses">>
    BY <1>2 DEF Passes
  <2> QED BY <2>1
<1> QED BY <1>1, <1>2

LEMMA AdvanceEffect ==
    ASSUME TypeOK, NEW id \in Ids, NEW j \in Job, Advance(id, j)
    PROVE  /\ \A i \in Ids : i # id => job'[i] = job[i]
           /\ job'[id].fd = NoFile /\ job'[id].kind = j.kind
           /\ \/ /\ job'[id].at = "open" /\ job'[id].pass = j.pass + 1
                 /\ j.pass + 1 <= Len(Passes(j.kind))
              \/ job'[id].at = "settle"
<1> DEFINE next == IF j.pass < Len(Passes(j.kind))
                   THEN [j EXCEPT !.at = "open", !.fd = NoFile, !.pass = j.pass + 1]
                   ELSE [j EXCEPT !.at = "settle", !.fd = NoFile]
<1>1. job' = [job EXCEPT ![id] = next]
  BY DEF Advance
<1>2. job'[id] = next /\ \A i \in Ids : i # id => job'[i] = job[i]
  BY <1>1 DEF TypeOK
<1>3. j.pass \in Nat /\ Len(Passes(j.kind)) \in Nat
  BY PassesType DEF Job
<1>4. CASE j.pass < Len(Passes(j.kind))
  <2>1. next.fd = NoFile /\ next.kind = j.kind /\ next.at = "open" /\ next.pass = j.pass + 1
    BY <1>4 DEF Job
  <2> QED BY <1>2, <1>3, <1>4, <2>1
<1>5. CASE ~(j.pass < Len(Passes(j.kind)))
  <2>1. next.fd = NoFile /\ next.kind = j.kind /\ next.at = "settle"
    BY <1>5 DEF Job
  <2> QED BY <1>2, <2>1
<1> QED BY <1>4, <1>5

\* A result is saved for the file the pass is about, if that is still listed.
LEMMA SavedOnly ==
    ASSUME TypeOK, Cascade, NEW id \in Ids, NEW t \in Tables,
           Save(t, id) \/ UNCHANGED storeVars
    PROVE  /\ \A u \in Tables : u # t => tables'[u] = tables[u]
           /\ \A i \in Ids : i # id => (i \in tables'[t] <=> i \in tables[t])
           /\ id \in tables'[t] => Known(id)
<1>1. \A u \in Tables : tables[u] \subseteq Ids
  BY DEF TypeOK, StoreTypeOK
<1>2. id \in tables[t] => Known(id)
  BY DEF Cascade, Holdings
<1>3. CASE UNCHANGED storeVars
  BY <1>2, <1>3 DEF storeVars
<1>4. CASE Save(t, id)
  BY <1>2, <1>4 DEF Save, TypeOK, StoreTypeOK
<1> QED BY <1>3, <1>4

----------------------------------------------------------------------------
(* The index and its blob.                                                 *)

\* Where the goroutine stands in its passes; until the blob is written the
\* store has no index of the file.
Progress(id) ==
    /\ job[id].at \in {"queued", "kind"} => job[id].pass = 1
    /\ job[id].at \in {"open", "extract", "blob"} => job[id].pass <= Len(Passes(job[id].kind))
    /\ job[id].at = "blob" => job[id].pass = 2
    /\ (job[id].at \in {"queued", "open", "extract", "kind", "blob"} /\ job[id].pass <= 2) =>
          id \notin tables["searchIdx"]

\* A blob on its way to the store is on disk, unless a DELETE took it.
BlobOnItsWay(id) ==
    (job[id].at = "blob" \/ id \in tables["searchIdx"]) =>
        id \in blob \/ BeingDeleted(id) \/ ~Known(id)

IndexInvariant == \A id \in Ids : Progress(id) /\ BlobOnItsWay(id)

LEMMA IndexImplied == Cascade /\ TypeOK /\ IndexInvariant => IndexHasBlob
<1> SUFFICES ASSUME Cascade, TypeOK, IndexInvariant, NEW id \in tables["searchIdx"]
             PROVE  job[id].at # "blob" /\ (id \in blob \/ BeingDeleted(id))
  BY DEF IndexHasBlob
<1>1. "searchIdx" \in Tables
  BY ServiceAssumption DEF ResultTables
<1>2. id \in Ids /\ Known(id)
  BY <1>1 DEF TypeOK, StoreTypeOK, Cascade, Holdings
<1> QED BY <1>2 DEF IndexInvariant, Progress, BlobOnItsWay

\* A file that is gone, or is going, does not come back.
LEMMA GoneStays ==
    ASSUME TypeOK, DiskInvariant, [Next]_vars, NEW id \in registered,
           ~Known(id) \/ BeingDeleted(id)
    PROVE  ~Known(id)' \/ BeingDeleted(id)'
<1> id \in Ids
  BY DEF TypeOK
<1>1. ASSUME NEW i \in Ids, ParserStep(i)
      PROVE  ~Known(id)' \/ BeingDeleted(id)'
  BY <1>1, ParserKeepsListing DEF BeingDeleted
<1>2. ASSUME NEW c \in Clients, UploadRegister(c)
      PROVE  ~Known(id)' \/ BeingDeleted(id)'
  <2>1. Moved(c, "done", 201, req[c].fd) /\ Uploads(c) /\ req[c].op = "upload"
    BY <1>2, AnswerEffect DEF UploadRegister, Doing, Uploads, Active
  <2>2. id # req[c].id
    BY <2>1 DEF DiskInvariant, Ownership
  <2>3. Known(id)' <=> Known(id)
    BY <1>2, <2>2 DEF UploadRegister, Create, Known, TypeOK, StoreTypeOK
  <2>4. BeingDeleted(id) => BeingDeleted(id)'
    BY <2>1 DEF BeingDeleted, Moved
  <2> QED BY <2>3, <2>4
<1>3. ASSUME NEW c \in Clients, DeleteUnregister(c)
      PROVE  ~Known(id)' \/ BeingDeleted(id)'
  <2>1. \A i \in Ids : Known(i)' <=> Known(i) /\ i # req[c].id
    BY <1>3 DEF DeleteUnregister, Delete, Known, storeVars, TypeOK, StoreTypeOK
  <2>2. \A d \in Clients : d # c => req'[d] = req[d]
    BY <1>3, AnswerEffect DEF DeleteUnregister, Moved
  <2> QED BY <2>1, <2>2 DEF BeingDeleted
<1>4. ASSUME NEW c \in Clients, DeleteUnlink(c) \/ DeleteUnlinkBlob(c)
      PROVE  ~Known(id)' \/ BeingDeleted(id)'
  <2>1. /\ UNCHANGED files
        /\ \/ Moved(c, "unlinkBlob", req[c].code, req[c].fd)
           \/ Moved(c, "unregister", req[c].code, req[c].fd)
    BY <1>4, GotoEffect DEF DeleteUnlink, DeleteUnlinkBlob, storeVars
  <2> QED BY <2>1 DEF BeingDeleted, Moved, Known
<1>5. ASSUME NEW c \in Clients, RequestStart(c) \/ RequestStep(c),
             ~UploadRegister(c), ~DeleteUnregister(c), ~DeleteUnlink(c), ~DeleteUnlinkBlob(c)
      PROVE  ~Known(id)' \/ BeingDeleted(id)'
  <2>1. UNCHANGED files
    BY <1>5
    DEF RequestStart, RequestStep, UploadBegin, UploadCopy, UploadConvert, UploadRename,
        DeleteGet, ReadGet, ReadOpen, SearchLookup, SearchBlob, ReadScan, ConfigDoc, ConfigGet,
        ConfigLock, ConfigOpen, ConfigParse, clientKeeps, storeVars
  <2>2. ~(req[c].op = "delete" /\ req[c].at \in {"unlinkBlob", "unregister"})
    BY <1>5
    DEF RequestStart, RequestStep, UploadBegin, UploadCopy, UploadConvert, UploadRename,
        DeleteGet, ReadGet, ReadOpen, SearchLookup, SearchBlob, ReadScan, ConfigDoc, ConfigGet,
        ConfigLock, ConfigOpen, ConfigParse, Start, NotFound, Doing, Active
  <2>3. \A d \in Clients : d # c => req'[d] = req[d]
    BY <1>5
    DEF RequestStart, RequestStep, UploadBegin, UploadCopy, UploadConvert, UploadRename,
        DeleteGet, ReadGet, ReadOpen, SearchLookup, SearchBlob, ReadScan, ConfigDoc, ConfigGet,
        ConfigLock, ConfigOpen, ConfigParse, Start, NotFound, Goto, Answer, UploadDiscard, TypeOK
  <2> QED BY <2>1, <2>2, <2>3 DEF BeingDeleted, Known
<1>6. CASE Restart
  BY <1>6 DEF Restart, Known
<1>7. CASE UNCHANGED vars
  BY <1>7 DEF vars, Known, BeingDeleted
<1> QED BY <1>1, <1>2, <1>3, <1>4, <1>5, <1>6, <1>7 DEF Next

\* The passes move the goroutine on, and only the second stores an index.
LEMMA ParserKeepsIndex ==
    ASSUME TypeOK, Cascade, DiskInvariant, IndexInvariant, NEW id \in Ids, ParserStep(id)
    PROVE  IndexInvariant'
<1>1. /\ \A i \in Ids : Known(i)' <=> Known(i)
      /\ \A i \in Ids : BeingDeleted(i)' <=> BeingDeleted(i)
  BY ParserKeepsListing DEF BeingDeleted
<1>2. "searchIdx" \in Tables /\ "archive" \in Tables /\ job[id] \in Job
  BY ServiceAssumption DEF ResultTables, TypeOK
<1>3. Progress(id) /\ BlobOnItsWay(id)
  BY DEF IndexInvariant
<1>4. job[id].pass \in Nat \ {0} /\ Len(Passes(job[id].kind)) \in Nat
  BY <1>2, PassesType DEF Job
<1>5. job[id].pass <= Len(Passes(job[id].kind)) =>
        (Pass(id) = "archive" => job[id].pass = 1) /\ (Pass(id) = "searchIdx" => job[id].pass = 2)
  BY <1>4, IndexedOnce DEF Pass
<1> DEFINE Others == /\ \A i \in Ids : i # id => job'[i] = job[i]
                     /\ \A i \in Ids : i # id =>
                           (i \in tables'["searchIdx"] <=> i \in tables["searchIdx"])
                     /\ blob \subseteq blob'
<1>6. ASSUME Others, Progress(id)', BlobOnItsWay(id)'
      PROVE  IndexInvariant'
  <2>1. ASSUME NEW i \in Ids PROVE Progress(i)' /\ BlobOnItsWay(i)'
    <3>1. CASE i # id
      BY <1>1, <1>6, <3>1 DEF IndexInvariant, Progress, BlobOnItsWay
    <3>2. CASE i = id
      BY <1>6, <3>2
    <3> QED BY <3>1, <3>2
  <2> QED BY <2>1 DEF IndexInvariant
<1>7. CASE AcquireSlot(id)
  <2>1. Others /\ UNCHANGED storeVars /\ job'[id].at = "open" /\ job[id].at = "queued"
        /\ job'[id].pass = job[id].pass /\ job'[id].kind = job[id].kind
    BY <1>2, <1>7 DEF AcquireSlot, storeVars, TypeOK, Job
  <2>2. Len(Passes(job[id].kind)) \in Nat \ {0, 1, 2, 3}
    BY PassesType
  <2>3. Progress(id)'
    BY <1>3, <2>1, <2>2 DEF Progress, storeVars
  <2>4. BlobOnItsWay(id)'
    BY <1>3, <2>1 DEF Progress, BlobOnItsWay, storeVars
  <2> QED BY <1>6, <2>1, <2>3, <2>4
<1>8. CASE OpenArchive(id)
  <2>1. Others /\ UNCHANGED storeVars /\ job'[id].at = "extract" /\ job[id].at = "open"
        /\ job'[id].pass = job[id].pass /\ job'[id].kind = job[id].kind
    BY <1>2, <1>8 DEF OpenArchive, storeVars, TypeOK, Job
  <2>2. Progress(id)'
    BY <1>3, <2>1 DEF Progress, storeVars
  <2>3. BlobOnItsWay(id)'
    BY <1>1, <1>3, <1>8, <2>1 DEF Progress, BlobOnItsWay, storeVars, OpenArchive
  <2> QED BY <1>6, <2>1, <2>2, <2>3
<1>9. CASE IndexArchive(id)
  <2>1. tables'["searchIdx"] = tables["searchIdx"] /\ UNCHANGED blob
    BY <1>2, <1>9, SavedOnly DEF IndexArchive, storeVars
  <2>2. /\ \A i \in Ids : i # id => job'[i] = job[i]
        /\ job[id].at = "extract" /\ job[id].pass = 1
        /\ \/ job'[id].at = "kind" /\ job'[id].pass = 1
           \/ job'[id].at = "settle"
    <3>1. job[id].at = "extract" /\ job[id].pass = 1
      BY <1>3, <1>5, <1>9 DEF IndexArchive, Progress
    <3>2. /\ [job[id] EXCEPT !.at = "kind", !.kind = job[id].fd.kind].at = "kind"
          /\ [job[id] EXCEPT !.at = "kind", !.kind = job[id].fd.kind].pass = job[id].pass
          /\ [job[id] EXCEPT !.at = "settle", !.fd = NoFile, !.status = "failed"].at = "settle"
      BY <1>2 DEF Job
    <3> QED BY <1>9, <3>1, <3>2 DEF IndexArchive, TypeOK
  <2>3. Progress(id)'
    BY <1>3, <2>1, <2>2 DEF Progress
  <2>4. BlobOnItsWay(id)'
    BY <1>1, <1>3, <2>1, <2>2 DEF Progress, BlobOnItsWay
  <2> QED BY <1>6, <2>1, <2>2, <2>3, <2>4
<1>10. ASSUME Advance(id, job[id]), tables'["searchIdx"] = tables["searchIdx"], UNCHANGED blob,
              job[id].at \in {"kind", "extract"}
       PROVE  IndexInvariant'
  <2>1. /\ \A i \in Ids : i # id => job'[i] = job[i]
        /\ job'[id].kind = job[id].kind
        /\ \/ /\ job'[id].at = "open" /\ job'[id].pass = job[id].pass + 1
              /\ job[id].pass + 1 <= Len(Passes(job[id].kind))
           \/ job'[id].at = "settle"
    BY <1>2, <1>10, AdvanceEffect
  <2>2. Progress(id)'
    BY <1>3, <1>4, <1>10, <2>1 DEF Progress
  <2>3. BlobOnItsWay(id)'
    BY <1>1, <1>3, <1>10, <2>1 DEF BlobOnItsWay
  <2> QED BY <1>6, <1>10, <2>1, <2>2, <2>3
<1>11. CASE RecordKind(id)
  BY <1>10, <1>11 DEF RecordKind, SetKind
<1>12. CASE CreateBlob(id)
  <2>1. CASE Advance(id, job[id]) /\ UNCHANGED blob
    BY <1>10, <1>12, <2>1 DEF CreateBlob, storeVars
  <2>2. CASE blob' = blob \cup {id} /\ job' = [job EXCEPT ![id].at = "blob"]
    <3>1. Others /\ UNCHANGED storeVars /\ job'[id].at = "blob" /\ job[id].at = "extract"
          /\ job'[id].pass = job[id].pass /\ job'[id].kind = job[id].kind /\ id \in blob'
      BY <1>2, <1>12, <2>2 DEF CreateBlob, storeVars, TypeOK, Job
    <3>2. job[id].pass = 2
      BY <1>3, <1>5, <1>12 DEF CreateBlob, Progress
    <3>3. Progress(id)'
      BY <1>3, <3>1, <3>2 DEF Progress, storeVars
    <3>4. BlobOnItsWay(id)'
      BY <3>1 DEF BlobOnItsWay
    <3> QED BY <1>6, <3>1, <3>3, <3>4
  <2> QED BY <1>12, <2>1, <2>2 DEF CreateBlob
<1>13. CASE FinishBlob(id)
  <2>1. /\ job[id].at = "blob" /\ job[id].pass = 2 /\ UNCHANGED blob
        /\ \A i \in Ids : i # id => job'[i] = job[i]
        /\ \/ job'[id].at = "open" /\ job'[id].pass = 3 /\ 3 <= Len(Passes(job[id].kind))
           \/ job'[id].at = "settle"
        /\ job'[id].kind = job[id].kind
    BY <1>2, <1>3, <1>13, AdvanceEffect DEF FinishBlob, Progress
  <2>2. \A i \in Ids : i # id => (i \in tables'["searchIdx"] <=> i \in tables["searchIdx"])
    BY <1>2, <1>13, SavedOnly DEF FinishBlob
  <2>3. Progress(id)'
    BY <2>1 DEF Progress
  <2>4. BlobOnItsWay(id)'
    BY <1>1, <1>3, <2>1 DEF BlobOnItsWay
  <2> QED BY <1>6, <2>1, <2>2, <2>3, <2>4
<1>14. CASE Extract(id)
  <2> DEFINE j == IF Pass(id) = "counters" /\ job[id].fd # NoFile
                  THEN [job[id] EXCEPT !.series = job[id].fd.series] ELSE job[id]
  <2>1. j \in Job /\ j.pass = job[id].pass /\ j.kind = job[id].kind
    BY <1>2, ServiceAssumption DEF Job, Bundle
  <2>2. Advance(id, j) /\ job[id].at = "extract" /\ UNCHANGED blob
        /\ Pass(id) \notin {"archive", "searchIdx"}
    BY <1>14 DEF Extract
  <2>3. job[id].pass <= Len(Passes(job[id].kind))
    BY <1>3, <2>2 DEF Progress
  <2>4. Pass(id) \in Tables
    BY <1>4, <2>3, PassesType DEF Pass
  <2>5. tables'["searchIdx"] = tables["searchIdx"]
    BY <1>2, <1>14, <2>2, <2>4, SavedOnly DEF Extract, storeVars
  <2>6. job[id].pass > 2
    BY <1>4, <2>2, <2>3, PassesType DEF Pass
  <2> HIDE DEF j
  <2>7. /\ \A i \in Ids : i # id => job'[i] = job[i]
        /\ job'[id].kind = job[id].kind
        /\ \/ /\ job'[id].at = "open" /\ job'[id].pass = job[id].pass + 1
              /\ job[id].pass + 1 <= Len(Passes(job[id].kind))
           \/ job'[id].at = "settle"
    BY <2>1, <2>2, AdvanceEffect
  <2>8. Progress(id)'
    BY <1>4, <2>6, <2>7 DEF Progress
  <2>9. BlobOnItsWay(id)'
    BY <1>1, <1>3, <2>2, <2>5, <2>7 DEF BlobOnItsWay
  <2> QED BY <1>6, <2>2, <2>5, <2>7, <2>8, <2>9
<1>15. ASSUME UNCHANGED <<storeVars, blob>>, \A i \in Ids : i # id => job'[i] = job[i],
              job'[id].at \in {"release", "none"}
       PROVE  IndexInvariant'
  <2>1. Progress(id)' /\ BlobOnItsWay(id)'
    BY <1>1, <1>3, <1>15 DEF Progress, BlobOnItsWay, storeVars
  <2> QED BY <1>6, <1>15, <2>1 DEF storeVars
<1>16. CASE Settle(id)
  <2>1. /\ tables' = tables /\ UNCHANGED blob /\ job'[id].at = "release"
        /\ \A i \in Ids : i # id => job'[i] = job[i]
    BY <1>2, <1>16 DEF Settle, SetStatus, TypeOK, Job
  <2>2. Progress(id)' /\ BlobOnItsWay(id)'
    BY <1>1, <1>3, <2>1 DEF Progress, BlobOnItsWay
  <2> QED BY <1>6, <2>1, <2>2
<1>17. CASE ReleaseSlot(id)
  BY <1>15, <1>17 DEF ReleaseSlot, TypeOK, NoJob
<1> QED BY <1>7, <1>8, <1>9, <1>11, <1>12, <1>13, <1>14, <1>16, <1>17 DEF ParserStep

LEMMA IndexNext == TypeOK /\ Cascade /\ DiskInvariant /\ IndexInvariant /\ [Next]_vars => IndexInvariant'
<1> SUFFICES ASSUME TypeOK, Cascade, DiskInvariant, IndexInvariant, [Next]_vars
             PROVE  IndexInvariant'
  OBVIOUS
<1>0. /\ \A id \in Ids : id \in tables["searchIdx"] => Known(id)
      /\ \A id \in Ids : Known(id) => id \in registered
      /\ "searchIdx" \in Tables
  BY ServiceAssumption DEF ResultTables, Cascade, Holdings, DiskInvariant, Ownership
<1>1. CASE \E id \in Ids : ParserStep(id)
  BY <1>1, ParserKeepsIndex
<1>2. ASSUME NEW c \in Clients, UploadRegister(c) PROVE IndexInvariant'
  <2> DEFINE id == req[c].id
  <2>1. id \in Ids /\ id \notin registered /\ ~Known(id)
        /\ UNCHANGED <<blob, tables>> /\ job' = [job EXCEPT ![id] = [NoJob EXCEPT !.at = "queued"]]
    BY <1>2
    DEF UploadRegister, Create, Doing, disk, TypeOK, Uploads, Active, DiskInvariant, Ownership
  <2>2. job'[id].at = "queued" /\ job'[id].pass = 1 /\ \A i \in Ids : i # id => job'[i] = job[i]
    BY <2>1 DEF TypeOK, NoJob
  <2>3. \A i \in Ids : /\ i # id => (Known(i)' <=> Known(i))
                       /\ BeingDeleted(i) => BeingDeleted(i)'
    <3>1. files' = [files EXCEPT ![id] = [status |-> "parsing", kind |-> NoKind]]
          /\ Moved(c, "done", 201, req[c].fd) /\ req[c].op = "upload"
      BY <1>2, AnswerEffect DEF UploadRegister, Create, Doing
    <3> QED BY <3>1 DEF Known, TypeOK, StoreTypeOK, BeingDeleted, Moved
  <2>4. ASSUME NEW i \in Ids PROVE Progress(i)' /\ BlobOnItsWay(i)'
    <3>1. CASE i = id
      BY <1>0, <2>1, <2>2, <3>1 DEF Progress, BlobOnItsWay
    <3>2. CASE i # id
      BY <2>1, <2>2, <2>3, <3>2 DEF IndexInvariant, Progress, BlobOnItsWay
    <3> QED BY <3>1, <3>2
  <2> QED BY <2>4 DEF IndexInvariant
<1>3. ASSUME NEW c \in Clients, RequestStart(c) \/ RequestStep(c), ~UploadRegister(c)
      PROVE  IndexInvariant'
  <2>1. UNCHANGED job
    BY <1>3
    DEF RequestStart, RequestStep, UploadBegin, UploadCopy, UploadConvert, UploadRename,
        DeleteGet, DeleteUnlink, DeleteUnlinkBlob, DeleteUnregister, ReadGet, ReadOpen,
        SearchLookup, SearchBlob, ReadScan, ConfigDoc, ConfigGet, ConfigLock, ConfigOpen,
        ConfigParse, clientKeeps
  <2>2. tables'["searchIdx"] \subseteq tables["searchIdx"]
    <3>1. CASE DeleteUnregister(c)
      BY <1>0, <3>1 DEF DeleteUnregister, Delete, storeVars
    <3>2. CASE ~DeleteUnregister(c)
      BY <1>3, <3>2
      DEF RequestStart, RequestStep, UploadBegin, UploadCopy, UploadConvert, UploadRename,
          DeleteGet, DeleteUnlink, DeleteUnlinkBlob, ReadGet, ReadOpen, SearchLookup, SearchBlob,
          ReadScan, ConfigDoc, ConfigGet, ConfigLock, ConfigOpen, ConfigParse, clientKeeps, storeVars
    <3> QED BY <3>1, <3>2
  <2>3. ASSUME NEW i \in Ids, i \in blob \/ BeingDeleted(i) \/ ~Known(i)
        PROVE  i \in blob' \/ BeingDeleted(i)' \/ ~Known(i)'
    <3>1. CASE DeleteUnlinkBlob(c)
      <4>1. Moved(c, "unregister", req[c].code, req[c].fd) /\ req[c].op = "delete"
            /\ blob' = blob \ {req[c].id} /\ UNCHANGED files /\ req[c].at = "unlinkBlob"
        BY <3>1, GotoEffect DEF DeleteUnlinkBlob, Doing, storeVars
      <4> QED BY <2>3, <4>1 DEF BeingDeleted, Moved, Known
    <3>2. CASE ~DeleteUnlinkBlob(c)
      <4>1. UNCHANGED blob
        BY <1>3, <3>2
        DEF RequestStart, RequestStep, UploadBegin, UploadCopy, UploadConvert, UploadRename,
            DeleteGet, DeleteUnlink, DeleteUnregister, ReadGet, ReadOpen, SearchLookup, SearchBlob,
            ReadScan, ConfigDoc, ConfigGet, ConfigLock, ConfigOpen, ConfigParse, clientKeeps, disk
      <4>2. i \in registered /\ (~Known(i) \/ BeingDeleted(i)) => ~Known(i)' \/ BeingDeleted(i)'
        BY GoneStays
      <4>3. i \notin registered => ~Known(i)'
        <5>1. UNCHANGED files \/ DeleteUnregister(c)
          BY <1>3
          DEF RequestStart, RequestStep, UploadBegin, UploadCopy, UploadConvert, UploadRename,
              DeleteGet, DeleteUnlink, DeleteUnlinkBlob, ReadGet, ReadOpen, SearchLookup, SearchBlob,
              ReadScan, ConfigDoc, ConfigGet, ConfigLock, ConfigOpen, ConfigParse, clientKeeps, storeVars
        <5>2. CASE DeleteUnregister(c)
          BY <1>0, <5>2 DEF DeleteUnregister, Delete, Known, storeVars, TypeOK, StoreTypeOK
        <5> QED BY <1>0, <5>1, <5>2 DEF Known
      <4> QED BY <2>3, <4>1, <4>2, <4>3
    <3> QED BY <3>1, <3>2
  <2>4. ASSUME NEW i \in Ids PROVE Progress(i)' /\ BlobOnItsWay(i)'
    BY <2>1, <2>2, <2>3, <2>4 DEF IndexInvariant, Progress, BlobOnItsWay
  <2> QED BY <2>4 DEF IndexInvariant
<1>4. CASE Restart
  BY <1>0, <1>4 DEF Restart, IndexInvariant, Progress, BlobOnItsWay, NoJob
<1>5. CASE UNCHANGED vars
  BY <1>5 DEF vars, IndexInvariant, Progress, BlobOnItsWay, Known, BeingDeleted
<1> QED BY <1>1, <1>2, <1>3, <1>4, <1>5 DEF Next

LEMMA IndexSafe == Spec => []IndexInvariant
<1>1. Init => IndexInvariant
  <2> SUFFICES ASSUME Init, NEW id \in Ids PROVE Progress(id) /\ BlobOnItsWay(id)
    BY DEF IndexInvariant
  <2>1. "searchIdx" \in Tables
    BY ServiceAssumption DEF ResultTables
  <2>2. id \notin tables["searchIdx"] /\ job[id] = NoJob
    BY <2>1 DEF Init, StoreInit
  <2> QED BY <2>2 DEF Progress, BlobOnItsWay, NoJob
<1> QED BY <1>1, IndexNext, DiskSafe, ServiceTypes, ServiceCascade, PTL DEF Spec

\* The store never hands out an index whose blob is not there in full, but for
\* the moment a DELETE takes it.
THEOREM IndexComesWithBlob == Spec => []IndexHasBlob
BY IndexSafe, IndexImplied, ServiceTypes, ServiceCascade, PTL

----------------------------------------------------------------------------
(* Answers.                                                                *)

\* What c has been handed, or is about to be, is of the file it asked for, and
\* an error it got has its reason.
Own(c) == LET r == req[c] IN
    /\ r.at # "idle" => r.op # "none"
    /\ r.at \in {"lookup", "openBlob", "scan", "parseConfig"} =>
          r.fd # NoFile /\ r.fd = body[r.id]
    /\ (r.op = "config" /\ Active(c)) => body[r.id].xml # "none"
    /\ (r.op = "config" /\ r.code = 200) => r.fd # NoFile /\ r.fd = body[r.id]
    /\ (r.at = "done" /\ r.code = 500 /\ r.op # "upload") =>
          \/ ~Known(r.id) \/ BeingDeleted(r.id)
          \/ /\ r.fd # NoFile
             /\ \/ r.fd.listing \in {"unreadable", "partial"}
                \/ r.op = "config" /\ r.fd.xml = "broken"

\* A parser reads its own archive, the cache holds the tree of the file it
\* names, and only a file with a running config has a config document.
Contents ==
    /\ \A id \in Ids : job[id].fd \in {NoFile, body[id]}
    /\ \A id \in tables["config"] : body[id].xml # "none"
    /\ cfgCache.id # Nobody => cfgCache.tree # NoFile /\ cfgCache.tree = body[cfgCache.id]

AnswerInvariant == Contents /\ \A c \in Clients : Own(c)

\* What was uploaded under an id never changes.
LEMMA BodyStays ==
    ASSUME TypeOK, [Next]_vars, NEW id \in Minted
    PROVE  body'[id] = body[id]
<1>1. ASSUME NEW c \in Clients, UploadBegin(c) PROVE body'[id] = body[id]
  BY <1>1 DEF UploadBegin, TypeOK, Minted
<1>2. CASE \A c \in Clients : ~UploadBegin(c)
  <2>1. UNCHANGED body
    BY <1>2, ParserKeepsListing
    DEF Next, RequestStart, RequestStep, UploadCopy, UploadConvert, UploadRename,
        UploadRegister, DeleteGet, DeleteUnlink, DeleteUnlinkBlob, DeleteUnregister, ReadGet,
        ReadOpen, SearchLookup, SearchBlob, ReadScan, ConfigDoc, ConfigGet, ConfigLock, ConfigOpen,
        ConfigParse, Restart, clientKeeps, history, vars
  <2> QED BY <2>1
<1> QED BY <1>1, <1>2

\* A request no step was taken for is still answered rightly.
LEMMA Bystander ==
    ASSUME TypeOK, DiskInvariant, [Next]_vars, NEW d \in Clients, Own(d), req'[d] = req[d]
    PROVE  Own(d)'
<1> DEFINE r == req[d]
<1>1. r.at # "idle" => r.id \in Ids
  BY DEF TypeOK
<1>2. Found(d) => r.id \in registered /\ r.id \in Minted
  BY DEF DiskInvariant, Ownership
<1>3. r.id \in Minted => body'[r.id] = body[r.id]
  BY BodyStays
<1>4. r.id \in Ids /\ body[r.id] # NoFile => r.id \in Minted
  BY DEF Minted
<1>5. r.at \in {"lookup", "openBlob", "scan", "parseConfig"} => r.fd # NoFile /\ r.fd = body'[r.id]
  BY <1>1, <1>3, <1>4 DEF Own
<1>6. (r.op = "config" /\ Active(d)) => body'[r.id].xml # "none"
  BY <1>2, <1>3 DEF Own, Found
<1>7. (r.op = "config" /\ r.code = 200) => r.fd # NoFile /\ r.fd = body'[r.id]
  BY <1>2, <1>3 DEF Own, Found
<1>8. r.id \in registered /\ (~Known(r.id) \/ BeingDeleted(r.id)) =>
        \A i \in {r.id} : ~Known(i)' \/ BeingDeleted(i)'
  BY GoneStays
<1>9. (r.at = "done" /\ r.code = 500 /\ r.op # "upload") =>
        \/ \A i \in {r.id} : ~Known(i)' \/ BeingDeleted(i)'
        \/ /\ r.fd # NoFile
           /\ \/ r.fd.listing \in {"unreadable", "partial"}
              \/ r.op = "config" /\ r.fd.xml = "broken"
  BY <1>2, <1>8 DEF Own, Found
<1>10. r.at # "idle" => r.op # "none"
  BY DEF Own
<1>11. req'[d] = r
  OBVIOUS
<1> HIDE DEF r
<1> QED BY <1>5, <1>6, <1>7, <1>9, <1>10, <1>11 DEF Own, Known, BeingDeleted, Active, r

\* A step of an upload or of a DELETE hands out nothing.
LEMMA WritersOwn ==
    ASSUME TypeOK, DiskInvariant, AnswerInvariant, NEW c \in Clients,
           \/ UploadBegin(c) \/ UploadCopy(c) \/ UploadConvert(c) \/ UploadRename(c)
           \/ UploadRegister(c)
           \/ DeleteGet(c) \/ DeleteUnlink(c) \/ DeleteUnlinkBlob(c) \/ DeleteUnregister(c)
    PROVE  Own(c)'
<1>1. ASSUME req'[c].op \in {"upload", "delete"},
             req'[c].at \notin {"lookup", "openBlob", "scan", "parseConfig"},
             req'[c].op = "delete" /\ req'[c].at = "done" => req'[c].code # 500
      PROVE  Own(c)'
  BY <1>1 DEF Own
<1>2. CASE \/ UploadBegin(c) \/ UploadCopy(c) \/ UploadConvert(c) \/ UploadRename(c)
           \/ UploadRegister(c)
  <2>1. CASE UploadBegin(c)
    <3>1. \E id : Began(c, "upload", id, "copy", 0)
      BY <2>1, StartEffect DEF UploadBegin
    <3> QED BY <1>1, <3>1 DEF Began
  <2>2. CASE ~UploadBegin(c)
    <3>1. req[c].op = "upload"
      BY <1>2, <2>2 DEF UploadCopy, UploadConvert, UploadRename, UploadRegister, Doing
    <3>2. \E at \in {"convert", "rename", "register", "done"} : \E code :
             Moved(c, at, code, req[c].fd)
      BY <1>2, <2>2, GotoEffect, AnswerEffect
      DEF UploadCopy, UploadConvert, UploadRename, UploadRegister, UploadDiscard
    <3> QED BY <1>1, <3>1, <3>2 DEF Moved
  <2> QED BY <2>1, <2>2
<1>3. CASE DeleteGet(c)
  <2>1. \/ \E id : Began(c, "delete", id, "unlink", 0)
        \/ \E id : Began(c, "delete", id, "done", 404)
    BY <1>3, StartEffect, NotFoundEffect DEF DeleteGet
  <2> QED BY <1>1, <2>1 DEF Began
<1>4. CASE DeleteUnlink(c) \/ DeleteUnlinkBlob(c)
  <2>1. /\ req[c].op = "delete"
        /\ \E at \in {"unlinkBlob", "unregister"} : Moved(c, at, req[c].code, req[c].fd)
    BY <1>4, GotoEffect DEF DeleteUnlink, DeleteUnlinkBlob, Doing
  <2> QED BY <1>1, <2>1 DEF Moved
<1>5. CASE DeleteUnregister(c)
  <2>1. /\ req[c].op = "delete" /\ req[c].id \in Ids
        /\ Moved(c, "done", IF Known(req[c].id) THEN 204 ELSE 500, req[c].fd)
    BY <1>5, AnswerEffect DEF DeleteUnregister, Doing, TypeOK
  <2>2. \A i \in Ids : Known(i)' => Known(i) /\ i # req[c].id
    BY <1>5, <2>1 DEF DeleteUnregister, Delete, Known, storeVars, TypeOK, StoreTypeOK
  <2>3. req'[c].id = req[c].id /\ req'[c].op = "delete" /\ req'[c].at = "done"
        /\ ~(files'[req[c].id] # Absent)
    BY <2>1, <2>2 DEF Moved, Known
  <2> QED BY <2>3 DEF Own, Known, Active
<1> QED BY <1>2, <1>3, <1>4, <1>5

\* handleSearch and handleContent.
LEMMA ReadersOwn ==
    ASSUME TypeOK, DiskInvariant, AnswerInvariant, [Next]_vars, NEW c \in Clients,
           \/ \E op \in {"search", "content"} : ReadGet(c, op)
           \/ ReadOpen(c) \/ SearchLookup(c) \/ SearchBlob(c) \/ ReadScan(c)
    PROVE  Own(c)'
<1>0. UNCHANGED body
  BY DEF ReadGet, ReadOpen, SearchLookup, SearchBlob, ReadScan, clientKeeps, history
<1>1. CASE \E op \in {"search", "content"} : ReadGet(c, op)
  <2>1. \E op \in {"search", "content"} : \E id : \/ Began(c, op, id, "openTgz", 0)
                                             \/ Began(c, op, id, "done", 404)
    BY <1>1, StartEffect, NotFoundEffect DEF ReadGet
  <2> QED BY <2>1 DEF Began, Own
<1>2. CASE ReadOpen(c)
  <2> DEFINE id == req[c].id
  <2>1. req[c].op \in {"search", "content"} /\ id \in registered /\ id \in Ids
    BY <1>2 DEF ReadOpen, DiskInvariant, Readers, Ownership, Found, Active, TypeOK
  <2>2. CASE tgz[id] = NoFile
    <3>1. Moved(c, "done", 500, req[c].fd)
      BY <1>2, <2>2, AnswerEffect DEF ReadOpen
    <3>2. ~Known(id) \/ BeingDeleted(id)
      BY <2>1, <2>2 DEF DiskInvariant, ListedHasArchive
    <3>3. \A i \in {id} : ~Known(i)' \/ BeingDeleted(i)'
      BY <2>1, <3>2, GoneStays
    <3> QED BY <2>1, <3>1, <3>3 DEF Moved, Own, Known, BeingDeleted
  <2>3. CASE tgz[id] # NoFile
    <3>1. tgz[id] = body[id] /\ body[id] # NoFile
      BY <2>1, <2>3 DEF DiskInvariant, Ownership
    <3>2. \E at \in {"lookup", "scan"} : Moved(c, at, req[c].code, tgz[id])
      BY <1>2, <2>3, OpenEffect DEF ReadOpen
    <3> QED BY <1>0, <2>1, <3>1, <3>2 DEF Moved, Own
  <2> QED BY <2>2, <2>3
<1>3. CASE SearchLookup(c) \/ SearchBlob(c)
  <2>1. /\ req[c].op = "search" /\ req[c].at \in {"lookup", "openBlob"}
        /\ \/ \E at \in {"openBlob", "scan"} : Moved(c, at, req[c].code, req[c].fd)
           \/ Moved(c, "done", 200, req[c].fd)
    BY <1>3, GotoEffect, AnswerEffect DEF SearchLookup, SearchBlob, Doing
  <2>2. req[c].fd # NoFile /\ req[c].fd = body[req[c].id]
    BY <2>1 DEF AnswerInvariant, Own
  <2> QED BY <1>0, <2>1, <2>2 DEF Moved, Own
<1>4. CASE ReadScan(c)
  <2>1. /\ req[c].op \in {"search", "content"} /\ req[c].at = "scan"
        /\ \E code \in {200, 404, 500} :
              /\ Moved(c, "done", code, req[c].fd)
              /\ code = 500 => req[c].fd.listing \in {"unreadable", "partial"}
    BY <1>4, AnswerEffect DEF ReadScan, DiskInvariant, Readers
  <2>2. req[c].fd # NoFile
    BY <2>1 DEF AnswerInvariant, Own
  <2> QED BY <2>1, <2>2 DEF Moved, Own
<1> QED BY <1>1, <1>2, <1>3, <1>4

\* handleConfig and configTree.
LEMMA ConfigOwn ==
    ASSUME TypeOK, Cascade, DiskInvariant, AnswerInvariant, [Next]_vars, NEW c \in Clients,
           ConfigDoc(c) \/ ConfigGet(c) \/ ConfigLock(c) \/ ConfigOpen(c) \/ ConfigParse(c)
    PROVE  Own(c)'
<1>0. UNCHANGED body
  BY DEF ConfigDoc, ConfigGet, ConfigLock, ConfigOpen, ConfigParse, clientKeeps, history
<1>1. CASE ConfigDoc(c)
  <2>1. \E id : \/ Began(c, "config", id, "doc", 0) /\ body[id].xml # "none"
               \/ Began(c, "config", id, "done", 404)
    BY <1>1, StartEffect, NotFoundEffect DEF ConfigDoc, AnswerInvariant, Contents
  <2> QED BY <1>0, <2>1 DEF Began, Own, Active
<1> DEFINE id == req[c].id
<1>2. ASSUME ConfigGet(c) \/ ConfigLock(c) \/ ConfigOpen(c) \/ ConfigParse(c)
      PROVE  /\ req[c].op = "config" /\ Active(c) /\ body[id].xml # "none"
             /\ id \in registered /\ id \in Ids /\ id # Nobody
             /\ req[c].code = 200 => req[c].fd # NoFile /\ req[c].fd = body[id]
  <2>1. req[c].op = "config" /\ Active(c)
    BY <1>2 DEF ConfigGet, ConfigLock, ConfigOpen, ConfigParse, Doing, Active
  <2>2. Own(c) /\ id \in registered /\ id \in Ids
    BY <2>1 DEF AnswerInvariant, DiskInvariant, Ownership, Found, Active, TypeOK
  <2> QED BY <2>1, <2>2, ServiceAssumption DEF Own
<1>3. CASE ConfigGet(c)
  <2>1. \/ Moved(c, "lock", req[c].code, req[c].fd)
        \/ Moved(c, "done", 404, req[c].fd)
    BY <1>3, GotoEffect, AnswerEffect DEF ConfigGet
  <2> QED BY <1>0, <1>2, <1>3, <2>1 DEF Moved, Own, Active
<1>4. CASE ConfigLock(c)
  <2>1. CASE cfgCache.id = id
    <3>1. Moved(c, "done", 200, cfgCache.tree)
      BY <1>4, <2>1, HitEffect DEF ConfigLock
    <3>2. cfgCache.tree # NoFile /\ cfgCache.tree = body[id]
      BY <1>2, <1>4, <2>1 DEF AnswerInvariant, Contents
    <3> QED BY <1>0, <1>2, <1>4, <3>1, <3>2 DEF Moved, Own, Active
  <2>2. CASE cfgCache.id # id
    <3>1. Moved(c, "openConfig", req[c].code, req[c].fd)
      BY <1>4, <2>2, GotoEffect DEF ConfigLock
    <3> QED BY <1>0, <1>2, <1>4, <3>1 DEF Moved, Own, Active
  <2> QED BY <2>1, <2>2
<1>5. CASE ConfigOpen(c)
  <2>1. CASE tgz[id] = NoFile
    <3>1. Moved(c, "done", 500, req[c].fd)
      BY <1>5, <2>1, AnswerEffect DEF ConfigOpen
    <3>2. ~Known(id) \/ BeingDeleted(id)
      BY <1>2, <1>5, <2>1 DEF DiskInvariant, ListedHasArchive
    <3>3. \A i \in {id} : ~Known(i)' \/ BeingDeleted(i)'
      BY <1>2, <1>5, <3>2, GoneStays
    <3> QED BY <1>2, <1>5, <3>1, <3>3 DEF Moved, Own, Known, BeingDeleted, Active
  <2>2. CASE tgz[id] # NoFile
    <3>1. tgz[id] = body[id] /\ body[id] # NoFile
      BY <1>2, <1>5, <2>2 DEF DiskInvariant, Ownership
    <3>2. Moved(c, "parseConfig", req[c].code, tgz[id])
      BY <1>5, <2>2, OpenEffect DEF ConfigOpen
    <3> QED BY <1>0, <1>2, <1>5, <3>1, <3>2 DEF Moved, Own, Active
  <2> QED BY <2>1, <2>2
<1>6. CASE ConfigParse(c)
  <2>1. req[c].at = "parseConfig"
    BY <1>6 DEF ConfigParse, Doing
  <2>2. req[c].fd # NoFile /\ req[c].fd = body[id] /\ req[c].fd \in Bundles
    BY <2>1 DEF AnswerInvariant, Own, TypeOK, Request
  <2>3. req[c].fd.xml \in {"none", "good", "broken"}
    BY <2>2, ServiceAssumption DEF Bundle
  <2>4. \/ Moved(c, "done", 200, req[c].fd)
        \/ Moved(c, "done", 500, req[c].fd) /\ req[c].fd.xml # "good"
    BY <1>6, AnswerEffect DEF ConfigParse
  <2> QED BY <1>0, <1>2, <1>6, <2>2, <2>3, <2>4 DEF Moved, Own, Active
<1> QED BY <1>1, <1>3, <1>4, <1>5, <1>6

\* A pass opens the stored archive, and only an archive with a running config
\* yields a config document.
LEMMA ParserKeepsContents ==
    ASSUME TypeOK, Cascade, DiskInvariant, IndexInvariant, AnswerInvariant,
           NEW id \in Ids, ParserStep(id)
    PROVE  Contents'
<1>1. UNCHANGED <<body, cfgCache>>
  BY ParserKeepsListing
<1>2. job[id] \in Job /\ "config" \in Tables /\ "archive" \in Tables /\ "searchIdx" \in Tables
      /\ tables["config"] \subseteq Ids
  BY ServiceAssumption DEF ResultTables, TypeOK, StoreTypeOK
<1>3. job[id].fd \in {NoFile, body[id]} /\ tgz[id] \in {NoFile, body[id]}
  BY DEF AnswerInvariant, Contents, DiskInvariant, Ownership
<1>4. ASSUME \A i \in Ids : i # id => job'[i] = job[i],
             job'[id].fd \in {NoFile, job[id].fd, tgz[id]},
             \A i \in tables'["config"] : i \in tables["config"] \/ body[i].xml # "none"
      PROVE  Contents'
  BY <1>1, <1>3, <1>4 DEF AnswerInvariant, Contents
<1>5. CASE Extract(id)
  <2> DEFINE j == IF Pass(id) = "counters" /\ job[id].fd # NoFile
                  THEN [job[id] EXCEPT !.series = job[id].fd.series] ELSE job[id]
  <2>1. j \in Job /\ Advance(id, j)
    BY <1>2, <1>5, ServiceAssumption DEF Extract, Job, Bundle
  <2>2. job'[id].fd = NoFile /\ \A i \in Ids : i # id => job'[i] = job[i]
    BY <2>1, AdvanceEffect
  <2>3. Pass(id) \in Tables
    <3>1. job[id].pass \in 1..Len(Passes(job[id].kind))
      BY <1>2, <1>5, PassesType DEF Extract, IndexInvariant, Progress, Job
    <3> QED BY <3>1, PassesType DEF Pass
  <2>4. CASE Pass(id) # "config" \/ UNCHANGED storeVars
    <3>1. tables'["config"] = tables["config"]
      BY <1>2, <1>5, <2>3, <2>4, SavedOnly DEF Extract, storeVars
    <3> QED BY <1>4, <2>2, <3>1
  <2>5. CASE Pass(id) = "config" /\ Stores(Pass(id), job[id])
    <3>1. body[id].xml # "none"
      BY <1>3, <2>5 DEF Stores
    <3>2. tables'["config"] \subseteq tables["config"] \cup {id}
      BY <1>2, <1>5, <2>5 DEF Extract, Save, TypeOK, StoreTypeOK
    <3> QED BY <1>4, <2>2, <3>1, <3>2
  <2> QED BY <1>5, <2>4, <2>5 DEF Extract
<1>6. CASE ~Extract(id)
  <2>1. tables'["config"] = tables["config"]
    BY <1>2, <1>6, SavedOnly
    DEF ParserStep, AcquireSlot, OpenArchive, IndexArchive, RecordKind, CreateBlob, FinishBlob,
        Settle, ReleaseSlot, SetKind, SetStatus, storeVars
  <2>2. CASE RecordKind(id) \/ CreateBlob(id) \/ FinishBlob(id)
    <3>1. CASE Advance(id, job[id])
      BY <1>2, <1>4, <2>1, <3>1, AdvanceEffect
    <3>2. CASE job' = [job EXCEPT ![id].at = "blob"]
      BY <1>2, <1>4, <2>1, <3>2 DEF TypeOK, Job
    <3> QED BY <2>2, <3>1, <3>2 DEF RecordKind, CreateBlob, FinishBlob
  <2>3. CASE IndexArchive(id)
    <3>1. /\ [job[id] EXCEPT !.at = "kind", !.kind = job[id].fd.kind].fd = job[id].fd
          /\ [job[id] EXCEPT !.at = "settle", !.fd = NoFile, !.status = "failed"].fd = NoFile
      BY <1>2 DEF Job
    <3>2. /\ \A i \in Ids : i # id => job'[i] = job[i]
          /\ job'[id].fd \in {NoFile, job[id].fd}
      BY <2>3, <3>1 DEF IndexArchive, TypeOK
    <3> QED BY <1>4, <2>1, <3>2
  <2>4. CASE OpenArchive(id)
    BY <1>2, <1>4, <2>1, <2>4 DEF OpenArchive, TypeOK, Job
  <2>5. CASE AcquireSlot(id) \/ Settle(id) \/ ReleaseSlot(id)
    BY <1>2, <1>4, <2>1, <2>5 DEF AcquireSlot, Settle, ReleaseSlot, TypeOK, Job, NoJob
  <2> QED BY <1>6, <2>2, <2>3, <2>4, <2>5 DEF ParserStep
<1> QED BY <1>5, <1>6

\* Requests add no documents, and fill the cache with what they read.
LEMMA RequestKeepsContents ==
    ASSUME TypeOK, Cascade, DiskInvariant, AnswerInvariant, [Next]_vars,
           NEW c \in Clients, RequestStart(c) \/ RequestStep(c)
    PROVE  Contents'
<1>1. "config" \in Tables /\ tables["config"] \subseteq Minted
  <2>1. "config" \in Tables
    BY ServiceAssumption DEF ResultTables
  <2> QED BY <2>1 DEF TypeOK, StoreTypeOK, Cascade, Holdings, DiskInvariant, Ownership
<1>2. \A i \in tables'["config"] : body'[i].xml # "none"
  <2>1. tables'["config"] \subseteq tables["config"]
    <3>1. CASE DeleteUnregister(c)
      BY <1>1, <3>1 DEF DeleteUnregister, Delete, storeVars
    <3>2. CASE ~DeleteUnregister(c)
      BY <3>2
      DEF RequestStart, RequestStep, UploadBegin, UploadCopy, UploadConvert, UploadRename,
          UploadRegister, Create, DeleteGet, DeleteUnlink, DeleteUnlinkBlob, ReadGet, ReadOpen,
          SearchLookup, SearchBlob, ReadScan, ConfigDoc, ConfigGet, ConfigLock, ConfigOpen,
          ConfigParse, clientKeeps, storeVars
    <3> QED BY <3>1, <3>2
  <2> QED BY <1>1, <2>1, BodyStays DEF AnswerInvariant, Contents
<1>3. \A i \in Ids : job'[i].fd \in {NoFile, job[i].fd}
  <2>1. CASE UploadRegister(c)
    BY <2>1 DEF UploadRegister, TypeOK, NoJob
  <2>2. CASE ~UploadRegister(c)
    BY <2>2
    DEF RequestStart, RequestStep, UploadBegin, UploadCopy, UploadConvert, UploadRename,
        DeleteGet, DeleteUnlink, DeleteUnlinkBlob, DeleteUnregister, ReadGet, ReadOpen,
        SearchLookup, SearchBlob, ReadScan, ConfigDoc, ConfigGet, ConfigLock, ConfigOpen,
        ConfigParse, clientKeeps
  <2> QED BY <2>1, <2>2
<1>4. \A i \in Ids : job'[i].fd \in {NoFile, body'[i]}
  <2>1. \A i \in Ids : job[i].fd \in {NoFile, body[i]}
    BY DEF AnswerInvariant, Contents
  <2>2. \A i \in Ids : body[i] # NoFile => body'[i] = body[i]
    BY BodyStays DEF Minted
  <2> QED BY <1>3, <2>1, <2>2
<1>5. cfgCache'.id # Nobody => cfgCache'.tree # NoFile /\ cfgCache'.tree = body'[cfgCache'.id]
  <2>1. CASE ConfigParse(c) /\ req[c].fd.xml = "good"
    <3>1. cfgCache' = [id |-> req[c].id, tree |-> req[c].fd] /\ UNCHANGED body
          /\ req[c].at = "parseConfig"
      BY <2>1 DEF ConfigParse, Doing, clientKeeps, history
    <3> QED BY <3>1 DEF AnswerInvariant, Own
  <2>2. CASE ~(ConfigParse(c) /\ req[c].fd.xml = "good")
    <3>1. UNCHANGED cfgCache
      BY <2>2
      DEF RequestStart, RequestStep, UploadBegin, UploadCopy, UploadConvert, UploadRename,
          UploadRegister, DeleteGet, DeleteUnlink, DeleteUnlinkBlob, DeleteUnregister, ReadGet,
          ReadOpen, SearchLookup, SearchBlob, ReadScan, ConfigDoc, ConfigGet, ConfigLock,
          ConfigOpen, ConfigParse, cache
    <3>2. cfgCache.id # Nobody => /\ cfgCache.id \in Ids /\ cfgCache.tree # NoFile
                                  /\ cfgCache.tree = body[cfgCache.id]
      BY DEF AnswerInvariant, Contents, TypeOK
    <3> QED BY <3>1, <3>2, BodyStays DEF Minted
  <2> QED BY <2>1, <2>2
<1> QED BY <1>2, <1>4, <1>5 DEF Contents

LEMMA AnswerNext ==
    TypeOK /\ Cascade /\ DiskInvariant /\ IndexInvariant /\ AnswerInvariant /\ [Next]_vars
        => AnswerInvariant'
<1> SUFFICES ASSUME TypeOK, Cascade, DiskInvariant, IndexInvariant, AnswerInvariant, [Next]_vars
             PROVE  AnswerInvariant'
  OBVIOUS
<1>1. ASSUME NEW id \in Ids, ParserStep(id) PROVE AnswerInvariant'
  <2>1. \A d \in Clients : req'[d] = req[d]
    BY <1>1, ParserKeepsListing
  <2>2. \A d \in Clients : Own(d)'
    BY <2>1, Bystander DEF AnswerInvariant
  <2> QED BY <1>1, <2>2, ParserKeepsContents DEF AnswerInvariant
<1>2. ASSUME NEW c \in Clients, RequestStart(c) \/ RequestStep(c) PROVE AnswerInvariant'
  <2>1. \A d \in Clients : d # c => req'[d] = req[d]
    BY <1>2
    DEF RequestStart, RequestStep, UploadBegin, UploadCopy, UploadConvert, UploadRename,
        UploadRegister, DeleteGet, DeleteUnlink, DeleteUnlinkBlob, DeleteUnregister, ReadGet,
        ReadOpen, SearchLookup, SearchBlob, ReadScan, ConfigDoc, ConfigGet, ConfigLock, ConfigOpen,
        ConfigParse, Start, NotFound, Goto, Answer, UploadDiscard, TypeOK
  <2>2. Own(c)'
    BY <1>2, WritersOwn, ReadersOwn, ConfigOwn DEF RequestStart, RequestStep
  <2>3. \A d \in Clients : Own(d)'
    BY <2>1, <2>2, Bystander DEF AnswerInvariant
  <2> QED BY <1>2, <2>3, RequestKeepsContents DEF AnswerInvariant
<1>3. CASE Restart
  <2>1. "config" \in Tables
    BY ServiceAssumption DEF ResultTables
  <2>2. Contents'
    BY <1>3, <2>1 DEF Restart, Contents, NoJob
  <2> QED BY <1>3, <2>2 DEF Restart, AnswerInvariant, Own, NoRequest, Active
<1>4. CASE UNCHANGED vars
  <2>1. \A d \in Clients : Own(d)'
    BY <1>4, Bystander DEF AnswerInvariant, vars
  <2>2. Contents'
    BY <1>4 DEF AnswerInvariant, Contents, vars
  <2> QED BY <2>1, <2>2 DEF AnswerInvariant
<1> QED BY <1>1, <1>2, <1>3, <1>4 DEF Next

LEMMA AnswerSafe == Spec => []AnswerInvariant
<1>1. Init => AnswerInvariant
  <2> SUFFICES ASSUME Init PROVE AnswerInvariant
    OBVIOUS
  <2>1. "config" \in Tables
    BY ServiceAssumption DEF ResultTables
  <2>2. Contents
    BY <2>1 DEF Init, StoreInit, Contents, NoJob
  <2> QED BY <2>2 DEF Init, AnswerInvariant, Own, NoRequest, Active
<1> QED BY <1>1, AnswerNext, IndexSafe, DiskSafe, ServiceTypes, ServiceCascade, PTL DEF Spec

\* A config document is of the archive it was asked for, also out of the cache.
THEOREM ConfigIsOwn == Spec => []ConfigOfOwnFile
<1>1. AnswerInvariant => ConfigOfOwnFile
  BY DEF AnswerInvariant, Own, ConfigOfOwnFile
<1> QED BY <1>1, AnswerSafe, PTL

\* No interleaving of parsing, caching and the requests of others shows as a
\* server error.
THEOREM ErrorsHaveAReason == Spec => []NoSpuriousError
<1>1. AnswerInvariant => NoSpuriousError
  BY DEF AnswerInvariant, Own, NoSpuriousError
<1> QED BY <1>1, AnswerSafe, PTL

(***************************************************************************)
(* The server implements the registry its clients poll (Registry).         *)
(***************************************************************************)

\* What a client may see of id while its goroutine is where it is.
Stage(id) ==
    Known(id) =>
        /\ job[id].at \notin {"none", "release"} => files[id].status = "parsing"
        /\ (job[id].at \in {"queued", "open", "extract"} /\ job[id].pass = 1) =>
              files[id].kind = NoKind /\ Holdings(id) = {}
        /\ job[id].at = "kind" => files[id].kind = NoKind /\ "archive" \in Holdings(id)
        /\ (\/ job[id].at \in {"open", "extract", "blob"} /\ job[id].pass > 1
            \/ job[id].at = "settle" /\ job[id].status = "parsed") =>
              files[id].kind # NoKind /\ "archive" \in Holdings(id)
        /\ (job[id].at = "settle" /\ job[id].status = "failed") => Holdings(id) = {}

StageInvariant ==
    \A id \in Ids :
        /\ Stage(id)
        /\ job[id].at \in {"queued", "open", "extract", "kind", "blob"} => job[id].status = "parsed"

LEMMA SaveHolds ==
    ASSUME TypeOK, NEW id \in Ids, NEW t \in Tables, Save(t, id)
    PROVE  /\ UNCHANGED files
           /\ \A i \in Ids : Holdings(i)' = IF i = id /\ Known(id) THEN Holdings(i) \cup {t}
                                                                 ELSE Holdings(i)
<1>1. UNCHANGED files
  BY DEF Save
<1>2. CASE Known(id)
  <2>1. tables' = [tables EXCEPT ![t] = @ \cup {id}]
    BY <1>2 DEF Save
  <2>2. \A u \in Tables : tables'[u] = IF u = t THEN tables[u] \cup {id} ELSE tables[u]
    BY <2>1 DEF TypeOK, StoreTypeOK
  <2> QED BY <1>1, <1>2, <2>2 DEF Holdings
<1>3. CASE ~Known(id)
  BY <1>1, <1>3 DEF Save, Holdings
<1> QED BY <1>2, <1>3

LEMMA StoreSame ==
    UNCHANGED storeVars => /\ \A i \in Ids : Holdings(i)' = Holdings(i) /\ files'[i] = files[i]
                           /\ \A i \in Ids : Known(i)' <=> Known(i)
BY DEF storeVars, Holdings, Known

\* SetKind and SetStatus touch the record of a listed file only, and in it one
\* field.
LEMMA SetKindHolds ==
    ASSUME TypeOK, NEW id \in Ids, NEW k \in Kinds, SetKind(id, k)
    PROVE  /\ \A i \in Ids : Holdings(i)' = Holdings(i)
           /\ \A i \in Ids : (i # id \/ ~Known(id)) => files'[i] = files[i]
           /\ Known(id) => files'[id] = [files[id] EXCEPT !.kind = k]
BY DEF SetKind, Holdings, TypeOK, StoreTypeOK

LEMMA SetStatusHolds ==
    ASSUME TypeOK, NEW id \in Ids, NEW s \in Statuses, SetStatus(id, s)
    PROVE  /\ \A i \in Ids : Holdings(i)' = Holdings(i)
           /\ \A i \in Ids : (i # id \/ ~Known(id)) => files'[i] = files[i]
           /\ Known(id) => files'[id] = [files[id] EXCEPT !.status = s]
BY DEF SetStatus, Holdings, TypeOK, StoreTypeOK

\* Advance keeps the status the goroutine will settle with.
LEMMA AdvanceStatus ==
    ASSUME TypeOK, NEW id \in Ids, NEW j \in Job, Advance(id, j)
    PROVE  job'[id].status = j.status
<1>1. /\ [j EXCEPT !.at = "open", !.fd = NoFile, !.pass = j.pass + 1].status = j.status
      /\ [j EXCEPT !.at = "settle", !.fd = NoFile].status = j.status
  BY DEF Job
<1> QED BY <1>1 DEF Advance, TypeOK

LEMMA DeleteHolds ==
    ASSUME TypeOK, Cascade, NEW id \in Ids, Delete(id)
    PROVE  /\ ~Known(id)' /\ Holdings(id)' = {}
           /\ \A i \in Ids : i # id => files'[i] = files[i] /\ Holdings(i)' = Holdings(i)
<1>1. CASE Known(id)
  BY <1>1 DEF Delete, Known, Holdings, TypeOK, StoreTypeOK
<1>2. CASE ~Known(id)
  BY <1>2 DEF Delete, Known, Holdings, Cascade, storeVars
<1> QED BY <1>1, <1>2

----------------------------------------------------------------------------

LEMMA ParserKeepsStage ==
    ASSUME TypeOK, Cascade, IndexInvariant, StageInvariant, NEW id \in Ids, ParserStep(id)
    PROVE  StageInvariant'
<1> DEFINE Settling(i) == job[i].at \in {"queued", "open", "extract", "kind", "blob"} =>
                            job[i].status = "parsed"
<1>1. Stage(id) /\ Settling(id) /\ Progress(id)
  BY DEF StageInvariant, IndexInvariant
<1>2. job[id] \in Job /\ job[id].pass \in Nat \ {0} /\ {"archive", "searchIdx"} \subseteq Tables
  BY ServiceAssumption DEF TypeOK, Job, ResultTables
<1>3. Known(id) => files[id] \in FileRecord
  BY DEF TypeOK, StoreTypeOK, Known
<1>4. ASSUME \A i \in Ids : i # id => /\ job'[i] = job[i] /\ files'[i] = files[i]
                                     /\ Holdings(i)' = Holdings(i),
             Stage(id)', Settling(id)'
      PROVE  StageInvariant'
  <2>1. \A i \in Ids : i # id => Stage(i)' /\ Settling(i)'
    BY <1>4 DEF StageInvariant, Stage, Known
  <2> QED BY <1>4, <2>1 DEF StageInvariant
<1>5. CASE AcquireSlot(id) \/ OpenArchive(id)
  <2>1. /\ UNCHANGED storeVars /\ \A i \in Ids : i # id => job'[i] = job[i]
        /\ job'[id].status = job[id].status /\ job'[id].pass = job[id].pass
        /\ \/ job[id].at = "queued" /\ job'[id].at = "open"
           \/ job[id].at = "open" /\ job'[id].at = "extract"
    BY <1>2, <1>5 DEF AcquireSlot, OpenArchive, TypeOK, Job
  <2>2. Stage(id)' /\ Settling(id)'
    BY <1>1, <1>2, <2>1, StoreSame DEF Stage, Progress
  <2> QED BY <1>4, <2>1, <2>2, StoreSame
<1>6. CASE IndexArchive(id)
  <2>1. job[id].at = "extract" /\ job[id].pass = 1
    <3>1. job[id].pass \in 1..Len(Passes(job[id].kind))
      BY <1>1, <1>2, <1>6, PassesType DEF IndexArchive, Progress
    <3> QED BY <1>6, <3>1, IndexedOnce DEF IndexArchive, Pass
  <2>2. /\ [job[id] EXCEPT !.at = "kind", !.kind = job[id].fd.kind].at = "kind"
        /\ [job[id] EXCEPT !.at = "kind", !.kind = job[id].fd.kind].status = job[id].status
        /\ [job[id] EXCEPT !.at = "settle", !.fd = NoFile, !.status = "failed"].at = "settle"
        /\ [job[id] EXCEPT !.at = "settle", !.fd = NoFile, !.status = "failed"].status = "failed"
    BY <1>2 DEF Job
  <2>3. /\ \A i \in Ids : i # id => job'[i] = job[i]
        /\ IF Readable(job[id].fd) /\ Known(id)
           THEN job'[id].at = "kind" /\ job'[id].status = job[id].status
           ELSE job'[id].at = "settle" /\ job'[id].status = "failed"
    BY <1>6, <2>2 DEF IndexArchive, TypeOK
  <2>4. /\ \A i \in Ids : files'[i] = files[i] /\ (Known(i)' <=> Known(i))
        /\ \A i \in Ids : i # id => Holdings(i)' = Holdings(i)
        /\ Known(id) => Holdings(id)' = IF Readable(job[id].fd) THEN Holdings(id) \cup {"archive"}
                                                                 ELSE Holdings(id)
    BY <1>2, <1>6, SaveHolds, StoreSame DEF IndexArchive, Known
  <2>5. Stage(id)' /\ Settling(id)'
    BY <1>1, <2>1, <2>3, <2>4 DEF Stage
  <2> QED BY <1>4, <2>3, <2>4, <2>5
<1>7. ASSUME NEW j \in Job, Advance(id, j), j.pass = job[id].pass, j.status = job[id].status,
             job[id].at \in {"kind", "extract", "blob"},
             \A i \in Ids : i # id => files'[i] = files[i] /\ Holdings(i)' = Holdings(i),
             Known(id)' => /\ Known(id) /\ files'[id].status = files[id].status
                           /\ files'[id].kind # NoKind
                           /\ Holdings(id) \subseteq Holdings(id)' /\ "archive" \in Holdings(id)
      PROVE  StageInvariant'
  <2>1. /\ \A i \in Ids : i # id => job'[i] = job[i]
        /\ job'[id].status = "parsed"
        /\ \/ job'[id].at = "open" /\ job'[id].pass = job[id].pass + 1
           \/ job'[id].at = "settle"
    BY <1>1, <1>7, AdvanceEffect, AdvanceStatus
  <2>2. Stage(id)' /\ Settling(id)'
    BY <1>1, <1>2, <1>7, <2>1 DEF Stage
  <2> QED BY <1>4, <1>7, <2>1, <2>2
<1>8. CASE RecordKind(id)
  <2>1. job[id].kind \in Kinds /\ job[id].kind # NoKind
    BY <1>2, StoreAssumption DEF Job
  <2>2. /\ \A i \in Ids : Holdings(i)' = Holdings(i)
        /\ \A i \in Ids : (i # id \/ ~Known(id)) => files'[i] = files[i]
        /\ Known(id) => files'[id] = [files[id] EXCEPT !.kind = job[id].kind]
    BY <1>8, <2>1, SetKindHolds DEF RecordKind
  <2>3. Known(id)' => /\ Known(id) /\ files'[id].status = files[id].status
                      /\ files'[id].kind # NoKind
    BY <1>3, <2>1, <2>2 DEF Known, FileRecord
  <2> QED BY <1>1, <1>2, <1>7, <1>8, <2>2, <2>3 DEF RecordKind, Stage
<1>9. CASE CreateBlob(id)
  <2>1. job[id].at = "extract" /\ job[id].pass > 1 /\ UNCHANGED storeVars
    <3>1. job[id].pass \in 1..Len(Passes(job[id].kind))
      BY <1>1, <1>2, <1>9, PassesType DEF CreateBlob, Progress
    <3> QED BY <1>9, <3>1, IndexedOnce DEF CreateBlob, Pass
  <2>2. CASE Advance(id, job[id])
    BY <1>1, <1>2, <1>7, <2>1, <2>2, StoreSame DEF Stage
  <2>3. CASE job' = [job EXCEPT ![id].at = "blob"]
    <3>1. /\ \A i \in Ids : i # id => job'[i] = job[i]
          /\ job'[id].at = "blob" /\ job'[id].pass = job[id].pass
          /\ job'[id].status = job[id].status
      BY <1>2, <2>3 DEF TypeOK, Job
    <3>2. Stage(id)' /\ Settling(id)'
      BY <1>1, <2>1, <3>1, StoreSame DEF Stage
    <3> QED BY <1>4, <2>1, <3>1, <3>2, StoreSame
  <2> QED BY <1>9, <2>2, <2>3 DEF CreateBlob
<1>10. ASSUME NEW t \in Tables, NEW j \in Job, Advance(id, j), Save(t, id) \/ UNCHANGED storeVars,
              j.pass = job[id].pass, j.status = job[id].status,
              job[id].at \in {"extract", "blob"}, job[id].pass > 1
       PROVE  StageInvariant'
  <2>1. /\ \A i \in Ids : files'[i] = files[i] /\ (Known(i)' <=> Known(i))
        /\ \A i \in Ids : i # id => Holdings(i)' = Holdings(i)
        /\ Holdings(id) \subseteq Holdings(id)'
    BY <1>10, SaveHolds, StoreSame DEF Known
  <2> QED BY <1>1, <1>7, <1>10, <2>1 DEF Stage
<1>11. CASE FinishBlob(id)
  <2>1. job[id].at = "blob" /\ job[id].pass > 1
    BY <1>1, <1>11 DEF FinishBlob, Progress
  <2> QED BY <1>2, <1>10, <1>11, <2>1 DEF FinishBlob
<1>12. CASE Extract(id)
  <2> DEFINE j == IF Pass(id) = "counters" /\ job[id].fd # NoFile
                  THEN [job[id] EXCEPT !.series = job[id].fd.series] ELSE job[id]
  <2>1. j \in Job /\ j.pass = job[id].pass /\ j.status = job[id].status
    BY <1>2, ServiceAssumption DEF Job, Bundle
  <2>2. Advance(id, j) /\ job[id].at = "extract" /\ Pass(id) # "archive"
        /\ (Save(Pass(id), id) \/ UNCHANGED storeVars)
    BY <1>12 DEF Extract
  <2>3. job[id].pass \in 1..Len(Passes(job[id].kind))
    BY <1>1, <1>2, <2>2, PassesType DEF Progress
  <2>4. Pass(id) \in Tables /\ job[id].pass # 1
    BY <2>2, <2>3, PassesType DEF Pass
  <2> HIDE DEF j
  <2> QED BY <1>2, <1>10, <2>1, <2>2, <2>4
<1>13. CASE Settle(id) \/ ReleaseSlot(id)
  <2>1. /\ \A i \in Ids : i # id => job'[i] = job[i]
        /\ job'[id].at \in {"release", "none"}
    BY <1>2, <1>13 DEF Settle, ReleaseSlot, TypeOK, Job, NoJob
  <2>2. \A i \in Ids : i # id => files'[i] = files[i] /\ Holdings(i)' = Holdings(i)
    BY <1>2, <1>13, SetStatusHolds, StoreSame DEF Settle, ReleaseSlot, Job, Statuses
  <2>3. Stage(id)' /\ Settling(id)'
    BY <2>1 DEF Stage
  <2> QED BY <1>4, <2>1, <2>2, <2>3
<1> QED BY <1>5, <1>6, <1>8, <1>9, <1>11, <1>12, <1>13 DEF ParserStep

\* Of all steps of requests only two touch the registry.
LEMMA OnlyTwoWrite ==
    ASSUME NEW c \in Clients, RequestStart(c) \/ RequestStep(c),
           ~UploadRegister(c), ~DeleteUnregister(c)
    PROVE  UNCHANGED <<storeVars, job, registered>>
BY DEF RequestStart, RequestStep, UploadBegin, UploadCopy, UploadConvert, UploadRename,
       DeleteGet, DeleteUnlink, DeleteUnlinkBlob, ReadGet, ReadOpen, SearchLookup, SearchBlob,
       ReadScan, ConfigDoc, ConfigGet, ConfigLock, ConfigOpen, ConfigParse, clientKeeps, history

LEMMA RegisterEffect ==
    ASSUME TypeOK, Cascade, DiskInvariant, NEW c \in Clients, UploadRegister(c)
    PROVE  LET id == req[c].id IN
           /\ id \in Ids /\ ~Known(id) /\ id \notin registered /\ registered' = registered \cup {id}
           /\ files'[id] = [status |-> "parsing", kind |-> NoKind]
           /\ files'[id] # Absent
           /\ \A i \in Ids : Holdings(i)' = Holdings(i)
           /\ Holdings(id) = {}
           /\ \A i \in Ids : i # id => files'[i] = files[i] /\ job'[i] = job[i]
           /\ job'[id] = [NoJob EXCEPT !.at = "queued"]
<1> DEFINE id == req[c].id
<1>1. id \in Ids /\ ~Known(id) /\ id \notin registered
  BY DEF UploadRegister, Doing, TypeOK, Uploads, Active, DiskInvariant, Ownership
<1>2. [status |-> "parsing", kind |-> NoKind] \in FileRecord
  BY DEF FileRecord, Statuses
<1>3. /\ files' = [files EXCEPT ![id] = [status |-> "parsing", kind |-> NoKind]]
      /\ UNCHANGED tables /\ registered' = registered \cup {id}
      /\ job' = [job EXCEPT ![id] = [NoJob EXCEPT !.at = "queued"]]
  BY DEF UploadRegister, Create
<1>4. Holdings(id) = {} /\ \A i \in Ids : Holdings(i)' = Holdings(i)
  BY <1>1, <1>3 DEF Cascade, Holdings
<1>5. /\ files'[id] = [status |-> "parsing", kind |-> NoKind]
      /\ job'[id] = [NoJob EXCEPT !.at = "queued"]
      /\ \A i \in Ids : i # id => files'[i] = files[i] /\ job'[i] = job[i]
  BY <1>1, <1>3 DEF TypeOK, StoreTypeOK
<1>6. files'[id] # Absent
  BY <1>2, <1>5, StoreAssumption
<1> QED BY <1>1, <1>3, <1>4, <1>5, <1>6 DEF Known

LEMMA StageNext ==
    TypeOK /\ Cascade /\ DiskInvariant /\ IndexInvariant /\ StageInvariant /\ [Next]_vars
        => StageInvariant'
<1> SUFFICES ASSUME TypeOK, Cascade, DiskInvariant, IndexInvariant, StageInvariant, [Next]_vars
             PROVE  StageInvariant'
  OBVIOUS
<1>1. CASE \E id \in Ids : ParserStep(id)
  BY <1>1, ParserKeepsStage
<1>2. ASSUME NEW c \in Clients, UploadRegister(c) PROVE StageInvariant'
  <2> DEFINE id == req[c].id
  <2>1. /\ id \in Ids
        /\ files'[id] = [status |-> "parsing", kind |-> NoKind]
        /\ \A i \in Ids : Holdings(i)' = Holdings(i)
        /\ Holdings(id) = {}
        /\ \A i \in Ids : i # id => files'[i] = files[i] /\ job'[i] = job[i]
        /\ job'[id] = [NoJob EXCEPT !.at = "queued"]
    BY <1>2, RegisterEffect
  <2>2. /\ job'[id].at = "queued" /\ job'[id].pass = 1 /\ job'[id].status = "parsed"
        /\ files'[id].status = "parsing" /\ files'[id].kind = NoKind
    BY <2>1 DEF NoJob
  <2> HIDE DEF id
  <2>3. ASSUME NEW i \in Ids
        PROVE  /\ Stage(i)'
               /\ job'[i].at \in {"queued", "open", "extract", "kind", "blob"} =>
                    job'[i].status = "parsed"
    <3>1. CASE i = id
      <4>1. Holdings(i)' = {}
        BY <2>1, <3>1
      <4> QED BY <2>2, <3>1, <4>1 DEF Stage
    <3>2. CASE i # id
      BY <2>1, <3>2 DEF StageInvariant, Stage, Known
    <3> QED BY <3>1, <3>2
  <2> QED BY <2>3 DEF StageInvariant
<1>3. ASSUME NEW c \in Clients, DeleteUnregister(c) PROVE StageInvariant'
  <2>1. req[c].id \in Ids /\ Delete(req[c].id) /\ UNCHANGED job
    BY <1>3 DEF DeleteUnregister, Doing, TypeOK
  <2>2. ASSUME NEW i \in Ids PROVE Stage(i)'
    <3>1. CASE i = req[c].id
      <4>1. \A k \in Ids : k = req[c].id => ~Known(k)'
        BY <2>1, DeleteHolds DEF Known
      <4> QED BY <3>1, <4>1 DEF Stage
    <3>2. CASE i # req[c].id
      BY <2>1, <3>2, DeleteHolds DEF StageInvariant, Stage, Known
    <3> QED BY <3>1, <3>2
  <2> QED BY <2>1, <2>2 DEF StageInvariant
<1>4. ASSUME NEW c \in Clients, RequestStart(c) \/ RequestStep(c),
             ~UploadRegister(c), ~DeleteUnregister(c)
      PROVE  StageInvariant'
  BY <1>4, OnlyTwoWrite, StoreSame DEF StageInvariant, Stage
<1>5. CASE Restart
  BY <1>5 DEF Restart, StageInvariant, Stage, Known, NoJob
<1>6. CASE UNCHANGED vars
  BY <1>6, StoreSame DEF vars, storeVars, StageInvariant, Stage
<1> QED BY <1>1, <1>2, <1>3, <1>4, <1>5, <1>6 DEF Next

LEMMA StageSafe == Spec => []StageInvariant
<1>1. Init => StageInvariant
  <2> SUFFICES ASSUME Init, NEW id \in Ids PROVE ~Known(id) /\ job[id].at = "none"
    BY DEF StageInvariant, Stage
  <2> QED BY DEF Init, StoreInit, Known, NoJob
<1> QED BY <1>1, StageNext, IndexSafe, DiskSafe, ServiceTypes, ServiceCascade, PTL DEF Spec

----------------------------------------------------------------------------
(* The refinement.                                                         *)

\* A step that shows for one file only.
LEMMA OneEntry ==
    ASSUME NEW id \in Ids, \A i \in Ids : i # id => EntryOf(i)' = EntryOf(i)
    PROVE  Entries' = [Entries EXCEPT ![id] = EntryOf(id)']
BY DEF Entries

LEMMA NoEntry ==
    ASSUME \A i \in Ids : EntryOf(i)' = EntryOf(i)
    PROVE  UNCHANGED Entries
BY DEF Entries

LEMMA EntrySame ==
    ASSUME NEW i \in Ids, files'[i] = files[i], Holdings(i)' = Holdings(i),
           i \in registered' <=> i \in registered
    PROVE  EntryOf(i)' = EntryOf(i)
BY DEF EntryOf, Known

\* A pass publishes its result, names the kind, settles the file, or does not
\* show.
LEMMA ParserRefines ==
    ASSUME TypeOK, Cascade, IndexInvariant, StageInvariant, NEW id \in Ids, ParserStep(id)
    PROVE  [R!Next]_Entries
<1>1. registered' = registered
  BY ParserKeepsListing
<1>2. /\ job[id] \in Job /\ {"archive", "searchIdx"} \subseteq Tables
      /\ Known(id) => files[id] \in FileRecord
  BY ServiceAssumption DEF TypeOK, ResultTables, StoreTypeOK, Known
<1>3. Stage(id) /\ Progress(id)
  BY DEF StageInvariant, IndexInvariant
<1>4. UNCHANGED storeVars => UNCHANGED Entries
  BY <1>1, StoreSame, EntrySame, NoEntry
<1>5. ASSUME NEW t \in Tables, Save(t, id), job[id].at \notin {"none", "release"}
      PROVE  [R!Next]_Entries
  <2>1. /\ UNCHANGED files
        /\ \A i \in Ids : Holdings(i)' = IF i = id /\ Known(id) THEN Holdings(i) \cup {t}
                                                               ELSE Holdings(i)
    BY <1>5, SaveHolds
  <2>2. CASE ~Known(id)
    BY <1>1, <2>1, <2>2, EntrySame, NoEntry
  <2>3. CASE Known(id)
    <3>1. Entries' = [Entries EXCEPT ![id] = EntryOf(id)']
      BY <1>1, <2>1, EntrySame, OneEntry
    <3>2. EntryOf(id).state = "parsing"
      BY <1>3, <1>5, <2>3 DEF Stage, EntryOf
    <3>3. EntryOf(id)' = [EntryOf(id) EXCEPT !.results = Holdings(id) \cup {t}]
      BY <2>1, <2>3 DEF EntryOf, Known
    <3>4. EntryOf(id).results = Holdings(id)
      BY <2>3 DEF EntryOf
    <3>5. R!Publish(id, t)
      BY <3>1, <3>2, <3>3, <3>4 DEF Entries, R!Publish
    <3> QED BY <3>5 DEF R!Next
  <2> QED BY <2>2, <2>3
<1>6. CASE AcquireSlot(id) \/ OpenArchive(id) \/ CreateBlob(id) \/ ReleaseSlot(id)
  BY <1>4, <1>6 DEF AcquireSlot, OpenArchive, CreateBlob, ReleaseSlot
<1>7. CASE IndexArchive(id)
  BY <1>2, <1>4, <1>5, <1>7 DEF IndexArchive
<1>8. CASE FinishBlob(id)
  BY <1>2, <1>4, <1>5, <1>8 DEF FinishBlob
<1>9. CASE Extract(id)
  <2>1. Pass(id) \in Tables
    <3>1. job[id].pass \in 1..Len(Passes(job[id].kind))
      BY <1>2, <1>3, <1>9, PassesType DEF Extract, Progress, Job
    <3> QED BY <3>1, PassesType DEF Pass
  <2> QED BY <1>4, <1>5, <1>9, <2>1 DEF Extract
<1>10. CASE RecordKind(id)
  <2>1. job[id].kind \in Kinds /\ job[id].at = "kind"
    BY <1>2, <1>10 DEF Job, RecordKind
  <2>2. /\ \A i \in Ids : Holdings(i)' = Holdings(i)
        /\ \A i \in Ids : (i # id \/ ~Known(id)) => files'[i] = files[i]
        /\ Known(id) => files'[id] = [files[id] EXCEPT !.kind = job[id].kind]
    BY <1>10, <2>1, SetKindHolds DEF RecordKind
  <2>3. CASE ~Known(id)
    BY <1>1, <2>2, <2>3, EntrySame, NoEntry
  <2>4. CASE Known(id)
    <3>1. Entries' = [Entries EXCEPT ![id] = EntryOf(id)']
      BY <1>1, <2>2, EntrySame, OneEntry
    <3>2. EntryOf(id).state = "parsing" /\ EntryOf(id).kind = NoKind
      BY <1>3, <2>1, <2>4 DEF Stage, EntryOf
    <3>3. Known(id)' /\ files'[id].status = files[id].status /\ files'[id].kind = job[id].kind
      BY <1>2, <2>1, <2>2, <2>4, ParserKeepsListing DEF FileRecord
    <3>4. EntryOf(id)' = [EntryOf(id) EXCEPT !.kind = job[id].kind]
      BY <2>2, <2>4, <3>3 DEF EntryOf
    <3>5. R!Classify(id, job[id].kind)
      BY <3>1, <3>2, <3>4 DEF Entries, R!Classify
    <3> QED BY <2>1, <3>5 DEF R!Next
  <2> QED BY <2>3, <2>4
<1>11. CASE Settle(id)
  <2>1. job[id].status \in {"parsed", "failed"} /\ job[id].at = "settle"
    BY <1>2, <1>11 DEF Job, Settle
  <2>2. /\ \A i \in Ids : Holdings(i)' = Holdings(i)
        /\ \A i \in Ids : (i # id \/ ~Known(id)) => files'[i] = files[i]
        /\ Known(id) => files'[id] = [files[id] EXCEPT !.status = job[id].status]
    BY <1>11, <2>1, SetStatusHolds DEF Settle, Statuses
  <2>3. CASE ~Known(id)
    BY <1>1, <2>2, <2>3, EntrySame, NoEntry
  <2>4. CASE Known(id)
    <3>1. Entries' = [Entries EXCEPT ![id] = EntryOf(id)']
      BY <1>1, <2>2, EntrySame, OneEntry
    <3>2. EntryOf(id).state = "parsing" /\ EntryOf(id).results = Holdings(id)
          /\ EntryOf(id).kind = files[id].kind
      BY <1>3, <2>1, <2>4 DEF Stage, EntryOf
    <3>3. Known(id)' /\ files'[id].status = job[id].status /\ files'[id].kind = files[id].kind
      BY <1>2, <2>1, <2>2, <2>4, ParserKeepsListing DEF FileRecord
    <3>4. EntryOf(id)' = [EntryOf(id) EXCEPT !.state = job[id].status]
      BY <2>2, <2>4, <3>3 DEF EntryOf
    <3>5. CASE job[id].status = "parsed"
      <4>1. files[id].kind # NoKind /\ "archive" \in Holdings(id)
        BY <1>3, <2>1, <2>4, <3>5 DEF Stage
      <4>2. R!SettleParsed(id)
        BY <3>1, <3>2, <3>4, <3>5, <4>1 DEF Entries, R!SettleParsed
      <4> QED BY <4>2 DEF R!Next
    <3>6. CASE job[id].status = "failed"
      <4>1. Holdings(id) = {}
        BY <1>3, <2>1, <2>4, <3>6 DEF Stage
      <4>2. R!SettleFailed(id)
        BY <3>1, <3>2, <3>4, <3>6, <4>1 DEF Entries, R!SettleFailed
      <4> QED BY <4>2 DEF R!Next
    <3> QED BY <2>1, <3>5, <3>6
  <2> QED BY <2>3, <2>4
<1> QED BY <1>6, <1>7, <1>8, <1>9, <1>10, <1>11 DEF ParserStep

\* Handlers register a file and remove it; nothing else they do shows.
LEMMA RequestRefines ==
    ASSUME TypeOK, Cascade, DiskInvariant, NEW c \in Clients, RequestStart(c) \/ RequestStep(c)
    PROVE  [R!Next]_Entries
<1>1. CASE ~UploadRegister(c) /\ ~DeleteUnregister(c)
  BY <1>1, OnlyTwoWrite, StoreSame, EntrySame, NoEntry
<1>2. CASE UploadRegister(c)
  <2>1. PICK id \in Ids :
          /\ ~Known(id) /\ id \notin registered /\ registered' = registered \cup {id}
          /\ files'[id] = [status |-> "parsing", kind |-> NoKind] /\ files'[id] # Absent
          /\ Holdings(id)' = {}
          /\ \A i \in Ids : i # id => files'[i] = files[i] /\ Holdings(i)' = Holdings(i)
    BY <1>2, RegisterEffect
  <2>2. Entries' = [Entries EXCEPT ![id] = EntryOf(id)']
    BY <2>1, EntrySame, OneEntry
  <2>3. EntryOf(id) = [state |-> "new", kind |-> NoKind, results |-> {}]
    BY <2>1 DEF EntryOf
  <2>4. EntryOf(id)' = [state |-> "parsing", kind |-> NoKind, results |-> {}]
    BY <2>1 DEF EntryOf, Known
  <2>5. R!Register(id)
    BY <2>2, <2>3, <2>4 DEF Entries, R!Register, R!New
  <2> QED BY <2>5 DEF R!Next
<1>3. CASE DeleteUnregister(c)
  <2>1. PICK id \in Ids : Delete(id)
    BY <1>3 DEF DeleteUnregister, Doing, TypeOK
  <2>2. /\ ~Known(id)' /\ Holdings(id)' = {} /\ registered' = registered
        /\ \A i \in Ids : i # id => files'[i] = files[i] /\ Holdings(i)' = Holdings(i)
    BY <1>3, <2>1, DeleteHolds DEF DeleteUnregister, history
  <2>3. CASE ~Known(id)
    BY <1>3, <2>1, <2>3, StoreSame, EntrySame, NoEntry DEF Delete, DeleteUnregister, history
  <2>4. CASE Known(id)
    <3>1. Entries' = [Entries EXCEPT ![id] = EntryOf(id)']
      BY <2>2, EntrySame, OneEntry
    <3>2. EntryOf(id).state \in {"parsing", "parsed", "failed"}
      BY <2>4 DEF EntryOf, TypeOK, StoreTypeOK, FileRecord, Statuses, Known
    <3>3. EntryOf(id)' = [state |-> "gone", kind |-> NoKind, results |-> {}]
      BY <2>2, <2>4 DEF EntryOf, DiskInvariant, Ownership
    <3>4. R!Remove(id)
      BY <3>1, <3>2, <3>3 DEF Entries, R!Remove, R!Listed, R!Gone
    <3> QED BY <3>4 DEF R!Next
  <2> QED BY <2>3, <2>4
<1> QED BY <1>1, <1>2, <1>3

\* A restart forgets whatever was listed.
LEMMA RestartRefines ==
    ASSUME TypeOK, DiskInvariant, Restart
    PROVE  [R!Next]_Entries
<1>1. \A i \in Ids : ~Known(i)' /\ (i \in registered' <=> i \in registered)
  BY DEF Restart, Known
<1>2. ASSUME NEW i \in Ids
      PROVE  EntryOf(i)' = IF EntryOf(i).state \in {"parsing", "parsed", "failed"}
                           THEN [state |-> "gone", kind |-> NoKind, results |-> {}]
                           ELSE EntryOf(i)
  <2>1. CASE Known(i)
    <3>1. EntryOf(i).state \in {"parsing", "parsed", "failed"}
      BY <2>1 DEF EntryOf, TypeOK, StoreTypeOK, FileRecord, Statuses, Known
    <3>2. EntryOf(i)' = [state |-> "gone", kind |-> NoKind, results |-> {}]
      BY <1>1, <2>1 DEF EntryOf, DiskInvariant, Ownership
    <3> QED BY <3>1, <3>2
  <2>2. CASE ~Known(i)
    BY <1>1, <2>2 DEF EntryOf
  <2> QED BY <2>1, <2>2
<1>3. R!Forget
  BY <1>2 DEF Entries, R!Forget, R!Listed, R!Gone
<1> QED BY <1>3 DEF R!Next

LEMMA StepRefines ==
    TypeOK /\ Cascade /\ DiskInvariant /\ IndexInvariant /\ StageInvariant /\ [Next]_vars
        => [R!Next]_Entries
<1> SUFFICES ASSUME TypeOK, Cascade, DiskInvariant, IndexInvariant, StageInvariant, [Next]_vars
             PROVE  [R!Next]_Entries
  OBVIOUS
<1>1. CASE UNCHANGED vars
  BY <1>1, StoreSame, EntrySame, NoEntry DEF vars, storeVars
<1> QED BY <1>1, ParserRefines, RequestRefines, RestartRefines DEF Next

\* Polling clients see the registry of the specification Registry and nothing
\* else: results appear only while a file is parsing, a settled file never
\* changes, and a file that is gone stays gone, whatever its parser still does.
THEOREM RegistryImplemented == Spec => ImplementsRegistry
<1>1. Init => R!Init
  BY DEF Init, StoreInit, Entries, R!Init, R!New, EntryOf, Known
<1> QED BY <1>1, StepRefines, StageSafe, IndexSafe, DiskSafe, ServiceTypes, ServiceCascade, PTL
    DEF Spec, ImplementsRegistry, R!Spec

=============================================================================
