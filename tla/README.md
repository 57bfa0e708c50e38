# A formal model of tsfanalyzer

tsfanalyzer is a web application for Palo Alto Networks support archives. A user
uploads a tech-support file or a GlobalProtect log collection; a Go server lists,
classifies and parses it in the background and answers questions about it: the
archive's files, text search, counters, config, connection timelines.

This directory holds TLA+ modules translated from the Go source, TLC runs that
check them on small instances, and TLAPS proofs that establish the most important
properties for every instance. File names below are relative to
`src/backend/internal/` unless they start with `src/`.

- [1. The system](#1-the-system): components, state, operations, what is hard
- [2. The modules and the code](#2-the-modules-and-the-code)
- [3. What is checked](#3-what-is-checked): the runs, their bounds
- [4. Fairness](#4-fairness)
- [5. What is proved](#5-what-is-proved)
- [6. Where the code and its texts disagree](#6-where-the-code-and-its-texts-disagree)
- [7. What is not modelled](#7-what-is-not-modelled)
- [8. Plan](#8-plan)

Run a check with `tlc -config MCService_race.cfg MCService` (module and
configuration of each run are in the table of section 3 and in `PROJECT.json`),
and a proof module with `tlapm ServiceProofs.tla`.

## 1. The system

### Components, their state and operations

| Component | State | Operations | Correct when |
|---|---|---|---|
| File registry, `store/store.go` | `files` map, eleven result maps, one mutex | Create, Get, List, SetStatus, SetKind, Delete, a Save per result map, reads | no result outlives its file; a late call does not revive a deleted file |
| API server, `api/server.go` | upload directory (`<id>.tgz`, `.conv`, `.sblob`), the parse slot, the one-entry config cache with `cfgMu` | upload, the parser goroutine, delete, search, content, config, read-only handlers, start-up | registry and directory agree at every moment; one parse at a time; every upload settles; every request is answered |
| Search index, `parser/searchindex.go` (first half) | spans, entries, posting lists, budget, blob offset | BuildSearchIndex, addPostings, candidates | a file that may match is a candidate, whatever caps were hit |
| Query planner, `parser/searchindex.go`, `search.go` | a tree of nodes with trigram groups | triFromSyntax, triAnd, triOr, gate, makeTerm | the plan and the gate refuse nothing that matches |
| Text search, `parser/search.go` (and the second half of `searchindex.go`) | results, waiting context windows, caps, deadline | SearchArchive, SearchIndexed, searchLines | the result is that of a plain full scan, and what is missing is reported |
| Connection timeline, `parser/gpstate.go` | the open attempt and five locals beside it | attemptsFromState, finishStateAttempt | each pre-login is one attempt, with its own outcome, reason and stages |
| Query language, `parser/search.go`, `fieldfilter.go` | - | tokenizeQuery, parseOr/And/Not, ParseSearchQuery, SplitFieldClause, ParseFieldFilter, Keep | a query is read as it is written; a half-typed one loses no word and hides no line |
| Archive: `archive.go`, `zip.go`, `kind.go`, the choice of the file in `config.go` | the tar being written, the bytes that remain | ConvertZip, IndexArchive, EntryReader, DetectKind, ExtractConfig | the converted archive has the zip's files; the kind is the archive's; the best candidate is the configuration |
| Counters, `parser/counters.go` | a collector per log: block, section, columns, open objects, sums | CollectAllCounters, line, close | a sample has the time, the names and the plane of its own block |
| GlobalProtect flow and gateways, `parser/gpflow.go` | the round being read and the newest round per portal | GPAuthEvents (over the timeline's attempts), ExtractGPGateways | a login has one row, which says what its own attempt's lines say of it; a gateway is judged by its portal's newest round |
| Log view, `parser/monitor.go`, `gplog.go`, `logtimestamps.go`, `timefilter.go` | the locals of a reader; the time in force of a download | structureLog, splitGPEmbedded, StructureLogPageStats, FilterLines | page and download show the same lines; no date is made up |
| GlobalProtect portals, `parser/gpportal.go` | the portal named last, what is held for the next one named, the open round, a record per portal | feed, nameCurrent, commitRound, portalOutcome, result | what a login says and the gateways it lists are its own portal's |
| Memory and OOM, `parser/oom.go` | the invocation that awaits its kill | FindOOMEvents, processSuspects, AnalyzeMemory, ConfigSizeRisk | an incident is one event; blame is for growth that the readings show |
| Other extractors: `gp.go`, `gpfacts.go`, `gphip.go`, `anomalies.go`, `counter_anomalies.go`, `logsignatures.go`, `appstats.go`, `cli.go`, `systeminfo.go` | per-file accumulators | one pass each over an archive | what is extracted is what the text says |
| Worker, frontend, deployment | - | - | - |

### How they interact

An upload handler writes the archive to disk, converts a zip in place, calls
`Store.Create` and starts a goroutine. The goroutine waits for the parse slot, a
channel of capacity one, opens the archive and makes one pass after another,
each ending in a `Save` of the store. The other handlers run beside it: DELETE
removes archive, blob and registry entry in that order; search and content open
the archive (and the blob); config parses the running config under `cfgMu`, or
answers from the cache. None of them waits for another except on the slot, on
`cfgMu` and, for the length of one call, on the store's mutex. The registry is in
memory: a restart empties it and removes the blobs, and leaves the archives.

### What is hard here

- A DELETE, an upload of another file, a search or a restart falls between any
  two steps of a parser; every store call after it carries an id that may be gone.
- Directory and registry are two pieces of state changed by separate calls.
- Error paths of the upload (copy, conversion, rename) must take back what they did.
- The parse slot and `cfgMu` are held over long work that can fail anywhere.
- Search stops for five reasons (result limit, per-file cap, deadline, scanner
  error, end), drops results again in a filter sweep, and has two implementations.
- The index demotes posting lists and hands budget back while it is being built.
- A connection attempt has no end marker in the log; reasons arrive in any order, and
  what became of a login is settled only when its attempt is closed.
- A query is parsed after every keystroke, in the middle of quotes and groups.
- Monitor logs are cut by rotation anywhere, and one collector serves forty kinds of
  block and section, each of which leaves state to the next.
- Dates come without a year, or not at all, and two filters must agree on them.
- Lines about a portal or its gateways do not name it; what they say is held for, or
  bound to, a portal that another line names.
- The readings of a process come from several PIDs in no certain order.

`PROJECT.json` lists each hazard at its line with the properties that guard it.

## 2. The modules and the code

| Module | Models | Used by |
|---|---|---|
| `Store` | `store/store.go` | `Service` extends it |
| `Registry` | abstract: what a polling client sees of the files | refinement target of `Service` |
| `Service` | `api/server.go`: upload, parser, delete, search, content, config, restart | |
| `SearchIndex` | `searchindex.go`: BuildSearchIndex, addPostings, candidates | run with `Search` |
| `QueryPlan` | `searchindex.go`, `search.go`: from query to trigram groups and gate | |
| `Query` | `search.go`, `fieldfilter.go`: from typed text to tree, flags and filter | run with `QueryPlan` |
| `Search` | `search.go`, `searchindex.go`: the scan on both paths | |
| `Selection` | the elements of a sequence at a set of places, in order (`Pick`) | `Search`, `Archive`, `LogView`, `Counters`, `Gateways`, `Query` extend it |
| `Archive` | `zip.go`, `archive.go`, `kind.go`, `config.go`: conversion, listing, kind, configuration file | run with `Search` |
| `Counters` | `counters.go` | |
| `GPState` | `gpstate.go`: the walk over the lines | |
| `GPFlow` | `gpflow.go`: the authentication rows of the attempts of `GPState` | extends `GPState`, in its run |
| `Gateways` | `gpflow.go`: rounds of gateways and the answer | run with `GPState` |
| `Portals` | `gpportal.go`: logins and rounds of gateways per portal | run with `GPState` |
| `Memory` | `oom.go`: OOM events, suspects, the verdict | run with `Counters` |
| `LogView` | `monitor.go`, `gplog.go`, `logtimestamps.go`, `timefilter.go` | run with `GPState` |
| `ServiceProofs` | theorems and proofs of `Store` and `Service`, each part on those before it: the registry; types and slot; the upload directory; what is answered; the refinement of `Registry` | |
| `QueryPlanProofs` | theorems and proofs of `QueryPlan` and of `Query` | |
| `SearchProofs` | theorems and proofs of `Search` | |
| `CountersProofs` | theorems and proofs of `Counters` and of `Memory` | |
| `ArchiveProofs` | theorems and proofs of `Archive` and of `SearchIndex` | |
| `GPStateProofs` | theorems and proofs of `GPState` and of `GPFlow` | |
| `LogReaderProofs` | theorems and proofs of `LogView`, of `Portals` and of `Gateways` | |
| `SelectionProofs` | lemmas about `Selection`, about least numbers, places in a strict order and functions defined by iteration | the proof modules above that use it |
| `MCService`, `MCSearch`, `MCSearchIndex`, `MCQueryPlan`, `MCCounters`, `MCGPState` | the instances TLC checks | |

Components that share no state and run over inputs of their own share an instance:
`MCSearchIndex`, `MCQueryPlan`, `MCCounters` and `MCGPState` start each behaviour with an input for
one of their machines and nothing for the others, and only that machine steps.

Operators under a comment "Mistake: ..." are plausible bugs (a dropped guard, a
missing reset, a swapped order). No action uses them; each property has one
that, put in the place of the correct operator of the same name and parameters,
breaks it. `PROJECT.json` ("mutants") pairs them.

### Store

Every method holds the mutex for its whole body, so each is one action. A file is
its status and kind, a result map is the set of ids with an entry. `Save(t, id)`
stands for the eleven Save methods, which all look the id up first.

### Service

Three kinds of processes: a request per client (`req`), a parser goroutine per id
(`job`), and `Restart`. A step is one call another process can notice: a store
method, a file operation in the upload directory, a slot or lock operation. The
bytes of an archive are a `Bundle`: whether it is a zip, how its listing ends, its
kind, its config, its counters, and which passes find something. A goroutine keeps
the open descriptor (`fd`), so it goes on reading an archive that has been
unlinked, as on the systems the server runs on.

| Action | Code (`server.go`) |
|---|---|
| `UploadBegin` ... `UploadRegister` | handleUpload: os.Create, io.Copy, ConvertZip, os.Rename, Store.Create and the `go` statement |
| `AcquireSlot` ... `ReleaseSlot` | parseArchive: the send on parseSlot, os.Open, IndexArchive, DetectKind, the blob's creation and its end, each pass with its Save, SetStatus, the deferred receive |
| `DeleteGet`, `DeleteUnlink`, `DeleteUnlinkBlob`, `DeleteUnregister` | handleDelete |
| `ReadGet`, `ReadOpen`, `SearchLookup`, `SearchBlob`, `ReadScan` | handleSearch, handleContent |
| `ConfigDoc`, `ConfigGet`, `ConfigLock`, `ConfigOpen`, `ConfigParse` | handleConfig, configTree |
| `Restart` | the end of the process, main, NewServer |

`body`, `registered` and `lost` are history variables for the properties.

### Registry

What GET on the file endpoints promises: an entry appears as "parsing", gains
results, settles once as "parsed" (with listing and kind) or "failed" (with
nothing), and disappears at once and for good. `Service` implements it under
`Entries`, the mapping that reads an entry per id off the store's maps (`EntryOf`).

### SearchIndex

A step is one member of the tar: `ListOnly`, `LeaveOut` (the size cap) or
`CopyToBlob`, which writes what can be read and calls `AddPostings` or, without
budget, `ScanAlways`; then `Finish` or `Fail`. A posting list is the set of its files, because they
are appended in increasing order. `Candidates(q)` is the mask of a query.

### QueryPlan

The planner is recursive over regexps and boolean trees. The model works bottom
up: a state is the set of nodes built so far, each with the plan the code computes
and the texts it matches, and a step builds one more node from those. The loop
over a concatenation, which merges adjacent literals, is walked part by part. So
every tree of the bounded size is reached, and no recursion is needed, which keeps
the module within the provers' reach. The matching (regexp, strings.Contains) is
the definition the plans are compared with. Texts are taken as already folded.

### Search

A line is what query, field filter and clipping make of it; an entry is its lines,
whether its name matches, and where its text is. `NextEntry`, `ScanLine`,
`EndOfFile` and `Sweep` follow the two entry loops and searchLines; `Expire` is the
deadline passing, between any two lines or entries. `search` holds the archive and the
options of the request, which no step changes. `FullScan` and `Everything`
state the result over whole files without a scan: the first with the limits (it cuts each
file's hits where the limit is reached, file by file, by the recursive function `ScanOf`), the
second without.

### GPState

A line is a stage boundary, a state transition or another event that may give a
reason. Each branch of the loop in attemptsFromState is an action; `Finish` is
finishStateAttempt, `Kept` the resets of closeAttempt. Times are line numbers.

### Query

A state is what has been typed so far of a draft; a step types one more symbol, and
every text on the way is a query, as the frontend sends it. A symbol is a character
the parsers look at or a chunk they take whole. parseOr, parseAnd and parseNot are
operators over a table of their results (`ParseOr`, `ParseAnd`, `ParseNot`, and `OrLoop` and
`AndLoop` for their loops): `Parse` gives, for each of them and each position, the tree and
where it ends. `Readings` is the grammar, an independent definition by spans of tokens.

### Archive

`ConvertMember` and `SkipZipMember` follow ConvertZipToTgz member by member,
with the budget of bytes; `Refuse` is its error path. The passes over a stored archive are
operators: `IndexArchive`, `EntryReader`, `DetectKind`, `RankConfigCandidates` and
`ExtractConfig`, each with its walk of the tar up to the cap on the inflated size. The
cap counts the whole stream: the header of a member is a block, or three or more where
its name needs an extended one, and its data is padded to whole blocks (`MemberBytes`,
`Offset`).

### Counters

A step is one line of a monitor log, classified as its regular expressions do, or the
opening or closing of a log. The collector is one record, since the code passes it as
one. `TableLine`, `InSections` and `RowLine` are the dispatch of `line`: blocks with a
reader of their own, the headers of panio's sections, then the rows of the section in
force. A sample keeps the line at which it was emitted, which the properties relate to
the headers above it.

### GPFlow and Gateways

The server builds its attempts with ExtractGPStateAttempts (server.go:368) and hands them
to GPAuthEvents (server.go:409). `GPFlow` does the same: `GPAuthEvents` is an operator over
the attempts that `GPState` has closed, a row for each of the two logins an attempt has a
stage of. A row is its target, its time and its outcome; the timeline fills in nothing else.
The attempts of the event log (ExtractGPAttempts) are not modelled: only tests call it.
In `Gateways` every kind of line is an action, `ReadOrder` sorts the files by rotation,
and `CommitRound` and `Select` are the bookkeeping per portal.

### Portals

A step feeds one line, oldest first. `pending` is what the code holds until a line names
a portal, `round` the gateways of the discovery that is open, `roundOwner` the portal
that was current when it began. A line that several expressions match is fed as several
lines. `CommitPortalRound` is called by the line of the choice and by the next discovery;
`PortalResult` is the final ranking. The properties know nothing of these variables: they
divide the lines fed into logins at each pre-login and ask which portal each names.

### Memory

`Invoke`, `Kill` and `EndOfFile` walk the log files; the place of a line stands for the
names on it. `SortOOMs` may leave events of one time in any order. `AnalyzeMemory` chooses
the order in which the map of counters is visited and derives the verdict for one plane:
`Restarts`, `TwiceMedian` and `Growth` are processSuspects, in halves of kB because a
median of whole numbers may be a half; percentages are compared multiplied out.

### LogView

A step reads one line for the page (`MonitorLine` or `GPLine`, as the head of the file
decides) and for the download (`DownloadLine`) at once. `LooseTs`, `NextHint` and
`LooseYearHint` are the rules by which a date without a year gets one. A line is what the
expressions find in it; `Recognised` says which combinations there are (what begins with a
date, or is the header of a block, is a date with a year for the loose expression as well).

## 3. What is checked

| Run | Module, configuration | Question | States |
|---|---|---|---|
| race | `MCService_race.cfg` | One file, two concurrent requests, its parser, restarts: do registry, directory and index agree? | 98 000 (under symmetry) |
| pair | `MCService_pair.cfg` | Two files compete for the slot: one parse at a time, no foreign config, and the abstract registry is implemented? | 0.95 million |
| live | `MCService_live.cfg` | Does every upload settle, whoever else wants the slot, and is every request answered, whatever went wrong for the one that held `cfgMu`? | 0.14 million |
| search | `MCSearchIndex.cfg` | Is the scan the full scan, with windows, filter, limits, both paths, the deadline? Is every file that may match a candidate, through every demotion and cap? Is an uploaded zip listed, classified and searched for its configuration as its members say? | 0.58 million |
| planner | `MCQueryPlan.cfg` | Does a plan or a gate refuse something that matches? Is every typed text read as it is written? | 0.62 million |
| counters | `MCCounters.cfg` | Does a sample take its time, plane, names or columns from another block? Is a process or an OOM victim blamed without evidence? | 0.84 million |
| timeline | `MCGPState_all.cfg` | Are attempts cut, ended and explained, their logins reported, and gateways and portals attributed, correctly for every short log? Do page and download agree? | 0.97 million |
| orphan, anchors, lastfile, drop, views | see section 6 | disagreements, found as violations | |

### Properties

*race*: `ListedHasArchive` (a listed file can be opened, but for the window inside a
DELETE), `IndexHasBlob` (an index handed out has its whole blob), `NoSpuriousError`
(a 500 over a file means that its archive is bad or that it is being deleted),
`DeletedOnce` (of two DELETEs one is told 204), `NoUploadLeftovers` (nothing of a
refused upload stays), `Cascade` (no result without its file), `NoResurrection` (a step
that makes an unknown id known makes a fresh record without results).

*pair*: `OneParseAtATime`, `ConfigOfOwnFile` (the cached tree is never another
file's), `ImplementsRegistry` (the refinement).

*live*: `EventuallySettled` (no upload stays "parsing", so no path keeps the slot),
`EveryRequestAnswered` (no path keeps `cfgMu` from a request that waits for it).

*search*, of the index and the archive: `CandidatesSound` (never miss), `CandidatesExact` (never pointless, but for
what was demoted), `NothingSkipped`, `BlobTiled`; `ZipIsListed` (an accepted zip is listed as its readable
members, but for the last ones, hidden by headers and padding of the tar), `KindOfContents` (one firewall
marker anywhere decides), `ConfigIsTopRanked`.

*planner*: `PlanSound`, `GateSound`. Together with `CandidatesSound` they are the
index's promise that it is "only ever allowed to *narrow* the search".
`ParsedAsWritten` (the tree is the only reading of the grammar), `NothingTypedIsLost`,
`HalfTypedShowsAll`.

*counters*: `SamplesDated` (the plane of its log, the time of its block, past minutes
counted back), `SamplesInContext` (what a sample is named after was read in its own block
and section), `NamesFollowNesting`, `NetstatFlushed` (sums come out exactly once, with the
time of the block they are of); `BlameFollowsEvidence` (an OOM incident is one event with
the victim of its own file; a process is blamed for no more than its memory ever swung,
whatever the order of its PIDs, and left out only when it gained little; the kernel is
suspected only when no process gained half of the decline).

*search*, of the scan: `SameAsFullScan` ("the result is the same either way"; under a deadline, the
beginning of it), `ResultsAreHits` (what is returned is true, whatever is cut short, and comes twice only
when a file left out of the blob shares its path),
`NoOtherQuietLoss` (matches are missing without a report in three known ways only,
section 6).

*timeline*: `PreloginsReported`, `OutcomeIsOwn`, `BestReasonWins`; `AuthenticationsAsLogged`
(an attempt has one row for a login that its own lines start, dated by the first, and none
otherwise; the row says success exactly when those lines go past the login, and failed only
for a reason or a drop); `NewestRoundPerPortal`; `PortalsKeepTheirOwn`
(what is reported of a portal is what the logins at it said last, and its gateways are those
of its newest round); `FiltersAlike`, `YearsAreStated`.

The type invariants of `Service`, `SearchIndex`, `QueryPlan`, `GPState`, `Search`, `Archive`
and `LogView` are theorems (section 5).

### Bounds, and why they are enough

- *Service*. Requests act on one file at a time, and files meet only in the slot,
  the cache and `cfgMu`. So one file with two requests (`race`) shows every conflict
  over a file, and two files (`pair`) every conflict over the shared three. `race`
  takes seven bundles, one for each way through the upload and the parser; `pair`
  takes those with two different configs, another kind and a failure; `live` has
  two scenes (in `MCService`), because the temporal check is over the whole graph: two
  files, whose parsers succeed or fail, and a client that uploads and deletes; or one file
  and two clients, so that one request waits while another holds `cfgMu`. There the config
  parses or does not, and a DELETE can remove the archive before the holder opens it: both
  error paths under the mutex and its ordinary one. Clients are interchangeable: `race` uses
  symmetry, `live`, with temporal properties, does not.
- *SearchIndex*. Two trigrams and five members with lists of two files and a budget
  of three: a list is demoted, budget is handed back and spent again, the budget
  runs out in the middle of a file, and a later file goes to `alwaysScan`.
- *QueryPlan*. Texts of up to four characters hold two trigrams; the literals have
  no trigram, or one, and joined ones make trigrams that neither part has. Two
  operations over them pass the limit of alternatives (two here, 32 in the code).
  Deeper trees follow from the proof.
- *Search*. Four lines with windows of up to two lines let windows touch, overlap,
  cross a dropped match and be cut by the end; limits of 1, 2 and 5 stop a scan at
  the first match, in a window, and not at all; per-file cap and deadline interval
  are two, so both are reached and passed. Three entries, of which two have one path, show
  what the last pass reads again.
- *GPState*, *GPFlow*. Four lines of twelve kinds, five of the six kinds that cut or end
  attempts and of the six that tell of logins: an attempt, its end, and leftovers that could
  leak into a second and third; two logins, a reason that blames either or neither, and a
  drop, in any order.
- *Query*. Six symbols after a start (nothing, an open quote, a pipe clause) reach every
  pair of operators, a group, a flag and a condition half typed. Readings of nine tokens
  are what the grammar is compared with.
- *Archive*. Up to four members of zips and tars. A block is 2 bytes and the cap 32, with
  sizes odd and even and headers of one block or three, so that the data of a member ends at
  the cap or past it, or it is hidden by padding and headers alone; two tries
  for the configuration, so that a third candidate is passed over.
- *Counters*. Nineteen alphabets of five to seven kinds of lines, one for each group of
  sections that can take another's rows, in logs of five lines, or of three after
  another log: a header, its rows, what cuts them short, and a row that would be wrong.
- *Gateways*. Up to three lines in a rotated file and three in the live one, with the
  event log in between: two rounds of one portal, and rounds of two portals.
- *Portals*. Five lines after a start (nothing, a login that is over, an open round), of four
  kinds of log: two logins at two portals, a round that is named before, within or after it.
- *Memory*. Two files of three lines and one; three readings of a process, two of another PID
  that takes over or overlaps, and up to two processes beside it, with two suspects shown.
- *LogView*. Three lines of a monitor log, four of the agent's, under every pair of three
  bounds; years before, at and after the one in which the log is looked at.

Deadlock is checked where the system runs forever (Service); the other
modules end with their input.

## 4. Fairness

`FairSpec` of `Service` asks weak fairness of each goroutine and of each request
that has begun: the Go scheduler runs what can run, and no step waits for input.
It asks strong fairness of two steps. A parser may be passed by others at the
slot, and a request at `cfgMu`, but both primitives queue: senders blocked on a
channel are served in order, and a mutex switches to handing over when a waiter
starves, so a process that could acquire again and again does. Nothing is
asked of clients (a request need never come) or of `Restart` (it may come never, or
again and again), so the scenes of `live`, which restrict what requests begin, take
nothing from it. The other modules are sequential algorithms, checked for safety.

## 5. What is proved

The theorems hold for every value of the constants that satisfies the ASSUME of the
module: any number of files, clients and archives, any caps, any log.

| Theorem | States |
|---|---|
| `StoreTypes`, `StoreCascade`, `StoreNoResurrection` | the registry alone |
| `ServiceTypes`, `SlotExclusion`, `ServiceCascade` | the server: types, the slot, the registry under it |
| `ListedFilesOpen`, `RefusedLeavesNothing`, `DeletedAtMostOnce` | the server and its upload directory |
| `IndexComesWithBlob`, `ConfigIsOwn`, `ErrorsHaveAReason` | what the server answers |
| `RegistryImplemented` | `Service` implements `Registry` |
| `IndexSound`, `IndexNarrows`, `IndexSkipsNothing`, `BlobIsTiled` | the search index |
| `PlanTypes`, `PlansOnlyNarrow`, `GatesOnlyNarrow` | the query planner |
| `QueriesParsedAsWritten`, `NothingIsLost`, `HalfTypedShows` | the query language, after every symbol typed |
| `TimelineTypes`, `EveryPreloginReported`, `OutcomesAreOwn`, `BestReasonsWin` | the connection timeline |
| `SearchTypes`, `ScanIsTheFullScan`, `FoundAreHits`, `NothingElseIsLost` | the scan |
| `ArchiveTyped`, `ZipListedWhole`, `KindFollowsContents`, `ConfigTopRanked` | the archive |
| `TheFiltersAgree`, `NoYearIsInvented` | the log view |
| `SamplesAreDated`, `SamplesAreInContext`, `NamesAreNested` | the counters |
| `BlameIsEvidenced` | the OOM incidents and who is blamed for them |
| `AuthenticationsAreAsLogged` | the authentication rows of the timeline |
| `PortalsAreKept`, `NewestRoundsReported` | the portals, and the gateways they offered |

How:

- *Store*. `StoreTypeOK` with `Cascade` is inductive. The lemmas are stated for each call,
  so that the server's proofs cite them.
- *Service*. Type correctness is proved action by action; the server's steps on the
  registry are steps of `Store` or leave it alone, which gives `ServiceCascade`. Mutual
  exclusion alone is not inductive, since a second goroutine could acquire a slot
  that looks free: `SlotInvariant` adds that a goroutine past the slot accounts for
  the token.
- *Upload directory*. An id belongs to nobody, then to the one upload
  that drew it, then to the registry, then to nobody for ever; `Ownership` says what is
  on disk and who may act on it in each of the four, `Conversions` the same of the file
  a conversion writes. Without it, `ListedHasArchive` is not inductive: a second
  upload of the id could fail and unlink the archive of the first.
- *Answers*. `Progress` and `BlobOnItsWay` follow the index from the
  blob's creation to its Save, across a deletion in between. `Contents` says that what is
  on disk and what is open under an id is what was uploaded (`body`), `Own(c)` that a
  request holds a descriptor of its own file and what its code says of it;
  `NoSpuriousError` and `ConfigOfOwnFile` follow. `GoneStays` is the lemma that a file
  no longer known never becomes known under a request that looked it up.
- *Refinement*. `StageInvariant` ties the stage of a parser to the
  entry: before it settles the entry is "parsing" or gone, and after a pass failed
  nothing else is saved. Under it each action maps to a step of `Registry` or a stutter;
  there is one lemma per group of actions.
- *SearchIndex*. `CandidatesSound` speaks of answers; the invariant behind it,
  `PostingsComplete`, speaks of lists: a file is scanned always, or each of its
  trigrams is common or lists it; `PostingsExact` is the converse, that a list holds only
  files that have the trigram. `NothingSkipped` needs `Numbered` (entry numbers
  are never ahead of the files).
- *QueryPlan*. `PlanInv`: what a node matches satisfies its plan; and what a
  concatenation matches so far is a text that satisfies the plan of the flushed
  parts, followed by the run. It rests on lemmas about texts within texts (trigrams
  and literals of a part are those of the whole) and on one lemma for each of
  `TriAnd`, `TriOr`, `TriFromLiteral` and the flush. `GateSound` needs from the types
  that a plan counted once has one alternative.
- *Query*. The state is a text, and the invariant says only that (`TypedInv`): the proofs are
  about what the parsers compute of any text. Their loops and recursions are tables, each
  shown to exist because a call asks only for calls of a lower rank (`RecursionExists`): a
  parse function never goes back, and calls at its own position only those that bind closer
  (`ParseStep`, `CallRankIs`); a reading is made of shorter spans, or of a closer form on the
  same (`ReadStep`). `ParsedAsWritten` is an induction on the length of a span, with a claim
  stronger than the property (`Claim`): if a form can be read on a span, the parse function
  of that form returns, from the start of the span, that reading with what its loop goes on
  to find behind the end. The claim must speak of what follows since the descent, unlike the
  grammar, does not know where a span ends; it is the property when nothing follows.
  `NothingTypedIsLost` says of each token that it has the letters it passes over
  (`TakeTokenOk`), and that flags, pipes and blanks have none. `HalfTypedShowsAll` says of
  words that the ones of a joined text are those that were joined (`WordsOfJoined`) and that
  splitting at a joint splits both sides (`SplitConcat`), so the groups of a clause are those
  of its sides, one after the other or, at an "and", condition by condition. The ASSUME says
  that what is typed are symbols.
- *GPState*. `TimelineInv`: the stages noted as seen are those of the open attempt
  (`SeenIsCurrent`, as far as pre-logins go), and each pre-login read so far is in a closed attempt or the
  open one (`AllReported`). The first is what makes the second inductive: a
  pre-login is appended only if the open attempt has none. For the other two, `OwnInv`
  ties the locals `connected` and `reasonRank` to the lines of the open attempt, and says
  that outside any attempt they are as at the start: so nothing leaks from one attempt
  into the next although `closeAttempt` resets nothing when no attempt is open. One lemma
  reads a line more, one opens an attempt, and each action is one of the two.

- *Search*. `FileInv` describes the file that is being read: the results so far are the hits
  of the lines read (`Scanned`), the windows still open wait for lines after them (`Waits`),
  and before the sweep nothing is missing unless the deadline cut it. With it, three
  invariants compare what was found with a statement over whole files. `SameInv`: between
  two entries the results are `ScanOf` of the entries so far; inside one, what precedes its
  results is, and stays. `HitsInv`: each result is a real hit, and the results are in the
  order of the archive in each of the two passes (`Ordered`), so that one can come twice
  only from two passes. `LossInv`: as long as nothing was cut short, the set of results is
  everything there is in the entries so far.
- *Archive*. `ConversionInv`: while a zip is converted, the tar holds its readable members,
  in order and under their names, and ends at the bytes taken from the budget plus at
  most `AddedBytes`, the largest header and the padding, per member. Since offsets only
  rise, what a reader finds under its cap is an initial part of the members, which gives `ZipIsListed`. `KindOfContents` compares the walk that adds
  up markers with the set of markers found. `ConfigIsTopRanked` needs that ranking loses and
  repeats nobody: a strict total order of finitely many gives each a place of its own,
  so the candidates before the one chosen are those ranked above it.
- *LogView*. `YearInv`: every year in force or given to an entry is one that the log states.
  `SameLines`: while the dates lead their lines, page and download have the same time in
  force and have kept the same lines; which lines pass is decided by the lexicographic
  order on year, time and milliseconds.
- *Counters*. `CollectorInv` says of each field of the collector what it is in terms of the
  lines read: the section in force is the last header of one in the block, `coreIDs` the
  columns of the last header of cores in the section, `rowIdx` the rows that fitted since,
  and so on (`Collected`, one part per field, each stated only while the block and mode
  that use the field are in force, since stale values stay in the others). `SamplesInv` says
  of every sample what the properties say, of the text of its log; `FirstRowInv` that
  `cpuDone` is set once a cpu block has given its load. Each handler extends the text by one
  line, and the last line of some shapes is then that line or what it was. For the names of
  cp_stats the stack is compared with the set of objects that are open: each is as deep
  as there are open objects from it on, so that closing one takes the innermost.
  `NetstatInv` says that in a block of netstat_detail the accumulators are the names
  seen since its header, each with the sum over its lines (`Adding`; outside such a block
  there are none, so a header flushes nothing twice), and that the sums of a log are
  those of its blocks that have ended (`Summed`). A header ends the block above it just as
  the end of the log does, so both are one lemma (`Flushes`), and the other handlers
  emit no sums and leave the accumulators alone (`Elsewhere`). What one more line adds to a
  running total is `SumMore`. The ASSUME says of the lines that a row with a program has
  both queues, as netstatLine takes no row of fewer than six fields.
- *Memory*. `MemInv` has a part for the walk over the logs and one for the report. In the
  walk, `Awaits` says what the invocation in hand is, the last line of the killer that was
  read of its file, and `Found` that what was found are incidents, each once, and all whose
  lines were read but that one; an incident is known by the line that opens it
  (`IncidentsByRaw`), and each action is a lemma (`InvokeStep`, `KillStep`, `EndStep`). The
  property alone is not inductive, as it says nothing before the sort. The report is made
  in one step, so that part rests on lemmas about its figures, whatever the order in which
  the map gave the series: every figure of a process is a reading or between two, so its
  growth is within its span (`GrowthIs`); a process of one series that never falls by half
  has no restart and grew by last less first (`RanThroughIs`); of several series one takes
  over from another (`SeveralRestart`); the ranking has every suspect once, so that what
  is cut off is smaller than what is shown (`RankedIs`, `ShownIs`), and the sum of the
  growths is no less than any of them (`ExplainedIs`). The ASSUME says of the input what
  CollectAllCounters and the names of the counters give: the points of a series in the
  order of time, none without a point, one series for a process and a PID.
- *GPFlow*. `TellsInv` says of every attempt, closed or open, what its stages are in terms
  of its lines: a stage is there exactly when a line reaches it, and is dated by the first;
  the stage that is blamed is named by a line with a reason. Statuses are settled when an
  attempt is closed (`FinishTells`), so all of this must be known of the open one. It also
  says that a drop in `lastState` is the last state of the open attempt, or of the lines
  before the first one, and that attempts start in order, so that a row is found by its
  time. One lemma reads a line more (`TellsLine`) and one opens an attempt (`TellsAttempt`).
- *Portals*. `FoldInv` states what every variable of the fold is in terms of the lines fed:
  `current` is the address of the last line of this login that names a portal, `pending`
  holds what was said in this login while none did, and an open round holds exactly the
  gateways named since its discovery, under the owner of that moment (`OpenAt`). For every
  portal it also holds the two statements of the property, on the lines fed so far. A line
  more disturbs them in few ways: a line that names a portal is the only one that gives
  the facts said before it to a portal (`PendingIs` becomes `FactsAre`), and a choice or a
  discovery the only ones that can end a round. The round that ends is then the newest of
  its portal because no discovery lies between. The result is a ranking by a strict total
  order, so it loses and repeats nobody (`PlaceAtIs`). The ASSUME says of the lines that
  what a regular expression captures is not empty.
- *Gateways*. `GatewayInv` says that the open list is what the lines since its "Parse
  gateway list" make it (`ListIs`: each gateway named or scored there once, with figures
  stated there, and none left out), under the portal of the last pre-login before it, and
  that of every portal the newest round before the open one that named a gateway is
  committed (`NewestAre`). A list begins empty, every kind of line takes it from the
  lines so far to one line more (`GoesOn`), and a round that is over is its portal's newest
  because rounds are committed in the order they begin (`RoundCommitted`). A line of scores
  takes several steps, an iteration over them (`AllScores`): a score goes to the gateway
  that bore the name before the line, so the list gains gateways and loses none. The ASSUME
  says of the lines that what names a gateway is not empty.
- *Induction over data* is done where it can be done without an operator for the
  property: `LeastNumber` takes the least counterexample, `AllUpto` puts the numbers that
  satisfy a statement in a set, `IterationExists` gives the function that n steps of a
  walk define, `RecursionExists` the function that a recursion of falling rank defines. To be
  reached by these, a selection is written by rank (`Ascending`, `Pick`)
  rather than with SelectSeq, and a walk as a recursive function rather than as a fold.

Every safety property that the passing runs check is proved. Model-checked only is liveness
(`EventuallySettled`, `EveryRequestAnswered`), as fairness and ENABLED are beyond the provers.

## 6. Where the code and its texts disagree

Each is a run that ends in a violation.

- **orphan** (`NoOrphanBlob`). README.md says that the search blob is "deleted with
  its file". A DELETE that runs after the parser opened the archive and before it
  creates the blob (server.go:331) removes a blob that is not there yet; the parser
  then writes one, SaveSearchIndex is refused, and the blob stays until a restart.
- **anchors** (`CompleteUnlessReported`). Matches that fail the field filter still
  count against the result limit (search.go:645, 685) until the sweep removes
  them, after the scan has stopped; Truncated is computed from what is left. A
  later line that passes is missing and nothing says so.
- **lastfile** (`CompleteUnlessReported`). searchLines stops at the deadline, but
  only the entry loop sets TimedOut (searchindex.go:693), so a deadline inside the
  last file is not reported.
- **drop** (`DropIsMarked`). gpstate.go:243 records the state that starts an attempt
  before it closes the one that ran: the drop that ended it is forgotten, and the
  row lacks the "red tail" that gpstate.go:47-49 describes.
- **views** (`ViewsAgree`). An attempt stops, in the Connection view, at the stage its reason
  blames (gpstate.go:399-403). If it never reached that login, the Authentication view has
  no row of it (gpflow.go:608); if it had passed it, the row says success, since
  gpstate.go:408-412 spares a stage that is "ok". gpflow.go:589-590 and server.go:407-408
  say that the views "can never disagree".

More deviations have no run of their own. In the search, the properties name them as
exceptions:

- A line longer than the scanner's buffer ends the scan of its file, and what
  follows is lost quietly (search.go:603, 615); `MayLoseQuietly`.
- Files left out of the blob are searched after all others
  (searchindex.go:725-744), so with a limit the results are not the first ones in
  archive order, as the comments at 634-635 and 686-687 suggest; `InArchiveOrder`. They
  are known by their path, so the hits of an indexed file of the same path come twice;
  `ReadTwice`.
- A file with exactly as many matches as the cap is reported as capped
  (search.go:704 compares with `>=`, its comment says "more matches than").

In the query language, and in what is uploaded:

- `| $2 > 3` and `-A 3` are cut out of the text before it is tokenized, so inside quotes
  they are torn out of a literal; a term that begins with `$` behind an OR written as `|`
  is taken for a clause; what follows an unmatched `)` is ignored.
- zip.go:46-48 says an unreadable member is skipped; one that fails in the middle of its
  copy fails the whole upload (100-107).
- The conversion counts the bytes of members, the readers those of the tar with its headers
  and padding, so an upload accepted just under the cap silently loses its last members.
- config.go:86-90 says that the first candidate that parses into a `<config>` tree wins;
  only the tag of its root is looked at. Of two members with one path the size of the
  second is ranked and the content of the first is read.

In the logs:

- A row's `Portal` is there so that "the whole table can be filtered by portal"
  (gpflow.go:559-561), but no attempt of gpstate.go has a portal: the rows have none, nor a
  user, a method or a sign-on, and for one portal (src/frontend/src/App.tsx:910) none is shown.
- closeAttempt forgets the last state only when an attempt is open, so what is read
  before the first attempt stays: after a stray "Disconnected" the first attempt can be
  failed and "disconnected without connecting" without a drop of its own; `LastStateIsDrop`.
- commitRound keeps the best gateway of an older round when the new one names none, and
  an empty round leaves its best to the next: `Selected` may mark a gateway that the
  newest round did not choose.
- gpportal.go:124-131 says that a portal whose only gateway is manual is no longer reported
  with none. Such a round has no line of a choice, so it is committed only by the next
  discovery of the same login, and lost with the login or the log.
- "The newest round is its current truth" (gpportal.go:497), but SelectedGateway stays that
  of an older round when the newest ends without a choice; and a prompt of a later login
  replaces a SAML method that setAuth would have kept (nameCurrent does not ask).
- FirstOOM is meant to be the earliest event (oom.go:474); events without a date sort first.
- processSuspects looks for several PIDs at one sample only after it has dismissed what did
  not grow, so idle duplicate instances go unreported; those that do are also reported as
  restarted, since the PID changes from one reading to the next. What a restart gave back
  counts as an explanation of the decline, so a restart can hide a kernel leak.
- monitor.go:249-254 says that each line with a year updates the hint; lines that begin
  with their date do not. The comment on LogEntry says blank lines are dropped; they are kept.
- FilterLines dates a line without a year by the year of its lower bound and finds no time
  in GlobalProtect lines, so a download of such a log with a lower bound is empty.
  Undated lines at the head of a log are downloaded, but not paged, under an upper bound.

## 7. What is not modelled

- In modelled components: handlers that read one result map, host and CORS checks,
  time parameters; computations on stored counter series; the choice and order of
  the PanGPS log files of `GPState`; character folding and clipping, taken as what they
  make of a line. Tar, gzip and zip themselves are libraries.
- Of `gpflow.go` the attempts of the event log (ExtractGPAttempts, attemptsFromLines and
  finishAttempt, 258-547): the program never builds them, as only tests call these.
- Of `gp.go`, `gpfacts.go`, `gphip.go`, `cli.go`, `systeminfo.go` and
  `appstats.go` nothing: regular expressions over single lines with little state
  between them. Of `config.go` the XML tree, which encoding/xml builds.
- Trends of `counter_anomalies.go` and thresholds of `anomalies.go` are rules over
  floating-point series, out of TLC's reach; of `logsignatures.go` the expressions.
- In `Portals` the measured priority, duration and weight of a gateway, in `Memory` the
  wording of findings and the order of the kernel's suspects.
- The worker is a stub; the frontend is a view over the API; Docker files.

## 8. Plan

Modelled: everything in the table of section 2, in this order: registry, server, index,
planner, scan, timeline; then counters, archive, query language, log view, flow and
gateways, portals, memory. What remains, most useful first:

1. Composition: `Search` over `SearchIndex` and `QueryPlan`, so that the candidate mask
   and the gate are the ones those modules compute.
2. *Service*: handleAnomalies and the signature table it joins at request time.
3. *Config*: the Panorama markers; *HIP*: the section readers.
