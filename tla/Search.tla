------------------------------- MODULE Search -------------------------------
(***************************************************************************)
(* One search over one archive (backend/internal/parser/search.go and the  *)
(* second half of searchindex.go): SearchArchive and SearchIndexed walk    *)
(* the entries, searchLines walks the lines of one file.                   *)
(*                                                                         *)
(* A step is one entry or one line, so that the deadline may expire        *)
(* between any two.  A line is what the query, the field filter and the    *)
(* clipping at 400 characters make of it; an entry is its lines, whether   *)
(* its name matches, and where its text is.  The per-line gate is left     *)
(* out: it rejects only lines that cannot match (QueryPlan, GateSound).    *)
(***************************************************************************)
EXTENDS Selection, SequencesExt

CONSTANTS
    Searches,        \* archives, and the parameters they are searched with
    PerFileCap,      \* maxLineHitsPerFile
    CheckEvery       \* deadlineCheckLines

Line == [match : BOOLEAN,      \* the query matches the line
         keep : BOOLEAN,       \* the field filter keeps it
         keepClipped : BOOLEAN,\* ... and keeps its first 400 characters
         huge : BOOLEAN]       \* it is longer than the scanner's buffer

\* An entry's text is in the blob, was left out of it by the size cap, or is
\* not searchable.  Paths are numbers; a tar may hold one twice.
Entry == [path : Nat, name : BOOLEAN, text : {"blob", "unindexed", "binary"}, lines : Seq(Line)]

\* An archive is its entries in the order the tar lists them.
Archive == Seq(Entry)

Option == [before : Nat, after : Nat, max : Nat \ {0},
           filter : BOOLEAN,             \* a field filter is given
           indexed : BOOLEAN,            \* SearchIndexed, or SearchArchive
           restricted : BOOLEAN,         \* ?paths= names the entries ...
           only : SUBSET Nat,            \* ... with these paths
           mayExpire : BOOLEAN]          \* the deadline is within reach

ASSUME SearchAssumption ==
    /\ Searches \subseteq [archive : Archive, opts : Option]
    /\ PerFileCap \in Nat \ {0} /\ CheckEvery \in Nat \ {0}

VARIABLES
    search,          \* what is searched, and how: an archive and the options
    pass,            \* "archive", "indexed", or "leftout": the unindexed files
    phase,           \* "entry", "lines", "sweep" or "done"
    e,               \* entries visited in this pass
    n,               \* lineNo
    out,             \* the results so far
    start,           \* where this file's results begin
    hits,            \* line hits of this file
    pend,            \* results still collecting trailing context
    capped,          \* CappedFiles
    timedOut,        \* TimedOut
    expired,         \* the deadline has passed
    cut              \* history: the deadline stopped the scan of some file

vars == <<search, pass, phase, e, n, out, start, hits, pend, capped,
          timedOut, expired, cut>>

----------------------------------------------------------------------------

(* What the fields of one search s say.                                    *)

Keep(s, line) == ~s.opts.filter \/ line.keep
KeepClipped(s, line) == ~s.opts.filter \/ line.keepClipped

Selected(s, i) == ~s.opts.restricted \/ s.archive[i].path \in s.opts.only

\* The files left out of the blob, and their paths.
LeftOut(s) == {i \in DOMAIN s.archive : s.archive[i].text = "unindexed" /\ Selected(s, i)}
Wanted(s) == {s.archive[i].path : i \in LeftOut(s)}

\* Mistake: the last pass reads every file of the archive.
ReadsAgain(s, p, i) ==
    CASE p = "archive" -> s.archive[i].text # "binary"
      [] p = "indexed" -> s.archive[i].text = "blob"
      [] p = "leftout" -> s.archive[i].text # "binary"

\* Does pass p read the text of entry i?  The last one knows it by its path.
Reads(s, p, i) ==
    CASE p = "archive" -> s.archive[i].text # "binary"
      [] p = "indexed" -> s.archive[i].text = "blob"
      [] p = "leftout" -> s.archive[i].text # "binary" /\ s.archive[i].path \in Wanted(s)

\* Mistake: only the head of the file was indexed.
MayExcludeByHead(s, p, i) ==
    /\ p = "indexed"
    /\ \A k \in DOMAIN s.archive[i].lines : k = 1 => ~s.archive[i].lines[k].match

\* The trigrams may exclude a file in which no line matches.
MayExclude(s, p, i) ==
    /\ p = "indexed"
    /\ \A k \in DOMAIN s.archive[i].lines : ~s.archive[i].lines[k].match

\* The name of an entry is a result of its own, unless ?paths= picked it.
Named(s, p, i) == Selected(s, i) /\ ~s.opts.restricted /\ p # "leftout" /\ s.archive[i].name

NameHit(i) == [entry |-> i, line |-> 0, filtered |-> FALSE, context |-> <<>>]

CtxErr == expired /\ pass = "indexed"

Init ==
    /\ search \in Searches
    /\ pass = IF search.opts.indexed THEN "indexed" ELSE "archive"
    /\ phase = "entry" /\ e = 0 /\ n = 0
    /\ out = <<>> /\ start = 0 /\ hits = 0 /\ pend = <<>> /\ capped = <<>>
    /\ timedOut = FALSE /\ expired = FALSE /\ cut = FALSE

\* bufio.Scanner stops, without a word, at a line its buffer cannot hold.
Scannable(lines) ==
    {k \in DOMAIN lines : \A x \in 1..k : ~lines[x].huge}

Readable(lines) == Cardinality(Scannable(lines))

fileVars == <<n, start, hits, pend>>

\* The loop over the entries ends: the indexed search turns to the files left
\* out of the blob, unless it is full or out of time.
EndPass ==
    /\ IF pass = "indexed" /\ Len(out) < search.opts.max /\ ~timedOut' /\ LeftOut(search) # {}
       THEN pass' = "leftout" /\ e' = 0 /\ UNCHANGED phase
       ELSE phase' = "done" /\ UNCHANGED <<pass, e>>
    /\ UNCHANGED <<search, out, capped, expired, cut, fileVars>>

\* The head of the loop over the entries.
StopEntries ==
    /\ phase = "entry"
    /\ e = Len(search.archive) \/ Len(out) >= search.opts.max \/ CtxErr
    /\ timedOut' = (timedOut \/ (e < Len(search.archive) /\ Len(out) < search.opts.max /\ CtxErr))
    /\ EndPass

\* The next entry: its name may be a result, its text may be searched.
NextEntry ==
    /\ phase = "entry"
    /\ e < Len(search.archive) /\ Len(out) < search.opts.max /\ ~CtxErr
    /\ e' = e + 1
    /\ out' = IF Named(search, pass, e') THEN Append(out, NameHit(e')) ELSE out
    /\ LET reads == Selected(search, e') /\ Reads(search, pass, e') /\ Len(out') < search.opts.max
       IN  \/ /\ reads
              /\ phase' = "lines"
              /\ n' = 0 /\ hits' = 0 /\ pend' = <<>> /\ start' = Len(out')
           \/ /\ ~reads \/ MayExclude(search, pass, e')
              /\ UNCHANGED <<phase, fileVars>>
    /\ UNCHANGED <<search, pass, capped, timedOut, expired, cut>>

----------------------------------------------------------------------------
(* searchLines.                                                            *)

\* Every result still waiting takes line k as trailing context.
WithTrailing(s, results, waiting, k, line) ==
    IF Keep(s, line)
    THEN [r \in DOMAIN results |->
            IF \E w \in DOMAIN waiting : waiting[w].idx = r
            THEN [results[r] EXCEPT !.context = Append(@, [line |-> k, before |-> FALSE])]
            ELSE results[r]]
    ELSE results

\* Those that need further lines stay in the list.
CountDown(waiting) ==
    LET less == [w \in DOMAIN waiting |-> [waiting[w] EXCEPT !.need = @ - 1]]
    IN  Pick(less, {w \in DOMAIN less : less[w].need > 0})

\* Mistake: the ring is one line short.
LeadingShort(s, lines, k) ==
    LET lead == Ascending({x \in 1..k-1 : x + s.opts.before > k /\ KeepClipped(s, lines[x])})
    IN  [c \in DOMAIN lead |-> [line |-> lead[c], before |-> TRUE]]

\* The ring buffer: of the last lines before k, those the filter keeps.  It
\* sees their clipped text only.
Leading(s, lines, k) ==
    LET lead == Ascending({x \in 1..k-1 : x + s.opts.before >= k /\ KeepClipped(s, lines[x])})
    IN  [c \in DOMAIN lead |-> [line |-> lead[c], before |-> TRUE]]

\* A match that the filter drops may still anchor context that it keeps.
WorthKeeping(s, line) ==
    line.match /\ (Keep(s, line) \/ s.opts.before > 0 \/ s.opts.after > 0)

LineHit(s, i, lines, k) ==
    [entry |-> i, line |-> k, filtered |-> ~Keep(s, lines[k]), context |-> Leading(s, lines, k)]

ScanLine ==
    LET lines == search.archive[e].lines
        line  == lines[n + 1]
        fed   == WithTrailing(search, out, pend, n + 1, line)
        still == CountDown(pend)
    IN
    /\ phase = "lines" /\ n + 1 \in Scannable(lines)
    /\ n' = n + 1
    /\ IF n' % CheckEvery = 0 /\ CtxErr
       THEN /\ cut' = TRUE
            /\ phase' = "sweep"
            /\ UNCHANGED <<out, hits, pend>>
       ELSE /\ IF WorthKeeping(search, line) /\ hits < PerFileCap /\ Len(out) < search.opts.max
               THEN /\ out' = Append(fed, LineHit(search, e, lines, n'))
                    /\ hits' = hits + 1
                    /\ pend' = IF search.opts.after > 0
                               THEN Append(still, [idx |-> Len(out'), need |-> search.opts.after])
                               ELSE still
               ELSE /\ out' = fed /\ pend' = still
                    /\ UNCHANGED hits
            /\ phase' = IF Len(out') >= search.opts.max /\ pend' = <<>> THEN "sweep" ELSE "lines"
            /\ UNCHANGED cut
    /\ UNCHANGED <<search, pass, e, start, capped, timedOut, expired>>

EndOfFile ==
    /\ phase = "lines" /\ n + 1 \notin Scannable(search.archive[e].lines)
    /\ phase' = "sweep"
    /\ UNCHANGED <<search, pass, e, n, out, start, hits, pend, capped, timedOut, expired, cut>>

Survives(r) == ~(r.filtered /\ r.context = <<>>)

\* An anchor all of whose context was filtered out goes too ...
Swept(s, results) ==
    IF s.opts.filter THEN Pick(results, {r \in DOMAIN results : Survives(results[r])}) ELSE results

\* ... and the file is reported when its cap was reached.
Sweep ==
    /\ phase = "sweep"
    /\ phase' = "entry"
    /\ out' = SubSeq(out, 1, start) \o Swept(search, SubSeq(out, start + 1, Len(out)))
    /\ capped' = IF hits >= PerFileCap THEN Append(capped, e) ELSE capped
    /\ UNCHANGED <<search, pass, e, fileVars, timedOut, expired, cut>>

\* The deadline passes.
Expire ==
    /\ search.opts.mayExpire /\ ~expired /\ phase # "done"
    /\ expired' = TRUE
    /\ UNCHANGED <<search, pass, phase, e, out, capped, timedOut, cut, fileVars>>

Next == StopEntries \/ NextEntry \/ ScanLine \/ EndOfFile \/ Sweep \/ Expire

Spec == Init /\ [][Next]_vars

----------------------------------------------------------------------------
(* What a search should return, stated over whole files instead of line by *)
(* line.                                                                   *)

\* The context of a hit on line k that the first m lines of the file hold:
\* what the filter keeps of the window.
WindowUpto(s, lines, k, m) ==
    LET lead  == {x \in 1..k-1 : x + s.opts.before >= k /\ KeepClipped(s, lines[x])}
        trail == {x \in 1..m : k < x /\ x <= k + s.opts.after /\ Keep(s, lines[x])}
        asc   == Ascending(lead \cup trail)
    IN  [c \in DOMAIN asc |-> [line |-> asc[c], before |-> asc[c] < k]]

HitUpto(s, i, k, m) ==
    LET lines == s.archive[i].lines
    IN  [entry |-> i, line |-> k, filtered |-> ~Keep(s, lines[k]), context |-> WindowUpto(s, lines, k, m)]

\* The hit with the whole of its context, as far as the scanner gets.
Hit(s, i, k) == HitUpto(s, i, k, Readable(s.archive[i].lines))

\* The matches of entry i worth keeping among its first m lines, before any cap.
HitsAt(s, i, m) ==
    Ascending({k \in 1..m : WorthKeeping(s, s.archive[i].lines[k])})

MatchesUpto(s, i, m) == LET at == HitsAt(s, i, m) IN [h \in DOMAIN at |-> Hit(s, i, at[h])]

Matches(s, i) == MatchesUpto(s, i, Readable(s.archive[i].lines))

\* The results after entry i is added to those of the entries before it.
AddEntry(s, results, i) ==
    LET named == IF s.archive[i].name /\ ~s.opts.restricted
                 THEN Append(results, NameHit(i)) ELSE results
        found == Upto(Upto(Matches(s, i), PerFileCap), s.opts.max - Len(named))
    IN  IF Selected(s, i) /\ Len(results) < s.opts.max
        THEN IF s.archive[i].text = "binary" THEN named ELSE named \o Swept(s, found)
        ELSE results

\* The full scan of the archive under the caps, entry by entry.
ScanOf(s) ==
    LET upto[i \in 0..Len(s.archive)] == IF i = 0 THEN <<>> ELSE AddEntry(s, upto[i-1], i)
    IN  upto

FullScan(s) == ScanOf(s)[Len(s.archive)]

\* Everything there is to find, without caps and on every line.
AllOf(s, i) ==
    IF ~Selected(s, i) THEN {}
    ELSE (IF s.archive[i].name /\ ~s.opts.restricted THEN {NameHit(i)} ELSE {})
         \cup (IF s.archive[i].text = "binary" THEN {}
               ELSE {h \in ToSet(MatchesUpto(s, i, Len(s.archive[i].lines))) :
                        ~s.opts.filter \/ Survives(h)})

Everything(s) == UNION {AllOf(s, i) : i \in DOMAIN s.archive}

----------------------------------------------------------------------------
(* Properties.                                                             *)

Context == [line : Nat, before : BOOLEAN]
Result == [entry : Nat, line : Nat, filtered : BOOLEAN, context : Seq(Context)]
Waiting == [idx : Nat, need : Nat \ {0}]

TypeOK ==
    /\ search \in Searches
    /\ pass \in {"archive", "indexed", "leftout"}
    /\ pass = "archive" <=> ~search.opts.indexed
    /\ phase \in {"entry", "lines", "sweep", "done"}
    /\ e \in 0..Len(search.archive)
    /\ phase \in {"lines", "sweep"} => e # 0
    /\ n \in Nat /\ start \in Nat /\ hits \in Nat
    /\ out \in Seq(Result) /\ pend \in Seq(Waiting) /\ capped \in Seq(Nat)
    /\ timedOut \in BOOLEAN /\ expired \in BOOLEAN /\ cut \in BOOLEAN

Truncated == Len(out) >= search.opts.max

InArchiveOrder ==
    search.opts.indexed =>
        \A i \in DOMAIN search.archive : search.archive[i].text # "unindexed"

Done == phase = "done"

\* What the deadline leaves is the beginning of the full result: the same
\* hits in the same order, up to one place and none after it.
StoppedEarlyIsPrefix ==
    LET full == FullScan(search)
    IN  /\ Len(out) <= Len(full)
        /\ \A r \in DOMAIN out : out[r].entry = full[r].entry /\ out[r].line = full[r].line

\* Line by line, with its countdowns, its early stops and its sweep, the scan
\* returns what the statement over whole files says, on both paths: "the
\* result is the same either way - only the time differs" (SearchIndexed), or
\* its beginning when the deadline stopped it.  Here as long as the blob holds
\* every file, and for a stop without the filter.
SameAsFullScan ==
    Done /\ InArchiveOrder =>
        /\ ~timedOut /\ ~cut => out = FullScan(search)
        /\ ~search.opts.filter => StoppedEarlyIsPrefix

\* An entry that is read twice: it is in the blob, and another of its path is not.
ReadTwice(s, i) ==
    /\ s.opts.indexed /\ s.archive[i].text = "blob"
    /\ \E j \in DOMAIN s.archive :
          s.archive[j].path = s.archive[i].path /\ s.archive[j].text = "unindexed"

\* No result is made up, repeated or given context of another line, whatever
\* is cut short: results are real hits, all different, and their context is an
\* initial part of the hit's true context, the whole of it when no deadline
\* cut the file.  The hits of an entry that shares the path of a file left out
\* of the blob come twice, and in the last pass only.
AllDifferent ==
    \A r, q \in DOMAIN out :
        r < q /\ out[r].entry = out[q].entry /\ out[r].line = out[q].line =>
            /\ pass = "leftout" /\ ReadTwice(search, out[r].entry)
            /\ \A x \in DOMAIN out \ {r, q} :
                  out[x].entry # out[r].entry \/ out[x].line # out[r].line

RealHit(h) ==
    \/ h = NameHit(h.entry) /\ search.archive[h.entry].name
    \/ /\ h.line \in DOMAIN search.archive[h.entry].lines
       /\ search.archive[h.entry].lines[h.line].match
       /\ LET true == Hit(search, h.entry, h.line)
          IN  /\ h.filtered = true.filtered
              /\ IsPrefix(h.context, true.context)
              /\ ~cut => h.context = true.context

ResultsAreHits == Done => AllDifferent /\ \A r \in DOMAIN out : RealHit(out[r])

\* A search that reports no limit has found everything there is: "they must be
\* reported" (SearchOptions), "so the UI can say so" (SearchOutcome).
CompleteUnlessReported ==
    (Done /\ ~Truncated /\ capped = <<>> /\ ~timedOut) =>
        ToSet(out) = Everything(search)

\* The three ways in which the code loses matches without a word: a deadline
\* inside the last file, a line the scanner cannot hold, and matches the filter
\* drops, which use up the limits as long as they may anchor context.
MayLoseQuietly ==
    \/ cut
    \/ \E i \in DOMAIN search.archive :
          Scannable(search.archive[i].lines) # DOMAIN search.archive[i].lines
    \/ /\ search.opts.before + search.opts.after > 0
       /\ \E i \in DOMAIN search.archive : \E k \in DOMAIN search.archive[i].lines :
             /\ search.archive[i].lines[k].match
             /\ ~Keep(search, search.archive[i].lines[k])

\* There is no fourth.
NoOtherQuietLoss == MayLoseQuietly \/ CompleteUnlessReported

=============================================================================
