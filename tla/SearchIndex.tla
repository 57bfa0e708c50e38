---------------------------- MODULE SearchIndex ----------------------------
(***************************************************************************)
(* The trigram index of one archive (first half of                         *)
(* backend/internal/parser/searchindex.go).  BuildSearchIndex walks the    *)
(* tar once, copying text files into the blob and recording in which files *)
(* each trigram occurs; candidates picks the files a query has to read.    *)
(*                                                                         *)
(* A step is one member of the tar.  A posting list is the set of its      *)
(* files: they are appended in increasing order, so the slice is sorted.   *)
(***************************************************************************)
EXTENDS Integers, Sequences, FiniteSets, FiniteSetsExt

CONSTANTS
    Trigrams,
    Members,                 \* the regular files a tar may hold
    MaxMembers,              \* bound of the model: members in one tar
    MaxBlobBytes,            \* maxBlobBytes
    MaxPostingsPerTrigram,   \* maxPostingsPerTrigram
    MaxTotalPostings         \* maxTotalPostings

\* The header promises size bytes, of which got can be read.
Member == [binary : BOOLEAN, size : Nat, got : Nat, tris : SUBSET Trigrams]

ASSUME SearchIndexAssumption ==
    /\ Members \subseteq Member
    /\ \A m \in Members : m.got <= m.size /\ (m.got = 0 => m.tris = {})
    /\ MaxMembers \in Nat /\ MaxBlobBytes \in Nat
    /\ MaxPostingsPerTrigram \in Nat \ {0} /\ MaxTotalPostings \in Nat

VARIABLES
    tar,          \* the members read so far
    status,       \* "building", "broken" (the tar ends early), "built", "failed"
    files,        \* Files: the spans of the blob, with what each file contains
    entries,      \* Entries: for each member its number in files, or NoFile
    unindexed,    \* Unindexed: members left out of the blob
    tri,          \* for each trigram: "absent", "listed" or "common"
    post,         \* the posting list of each trigram
    always,       \* alwaysScan
    budget, postings, off

indexVars == <<tar, status, files, entries, unindexed, tri, post, always,
               budget, postings, off>>

NoFile == 0

----------------------------------------------------------------------------
(* BuildSearchIndex.                                                       *)

IndexInit ==
    /\ tar = <<>> /\ status = "building"
    /\ files = <<>> /\ entries = <<>> /\ unindexed = {}
    /\ tri = [t \in Trigrams |-> "absent"]
    /\ post = [t \in Trigrams |-> {}]
    /\ always = {}
    /\ budget = MaxTotalPostings /\ postings = 0 /\ off = 0

\* The next member is m.  A member that ends before its size is the last one
\* the tar reader finds.
ReadMember(m) ==
    /\ status = "building" /\ Len(tar) < MaxMembers
    /\ tar' = Append(tar, m)
    /\ status' = IF m.got < m.size THEN "broken" ELSE "building"

postingVars == <<tri, post, always, budget, postings>>

\* Listed, not read: binary, or an empty text.
ListOnly ==
    \E m \in Members :
        /\ ReadMember(m)
        /\ m.binary \/ (off + m.size <= MaxBlobBytes /\ m.got = 0)
        /\ entries' = Append(entries, NoFile)
        /\ UNCHANGED <<files, unindexed, off, postingVars>>

\* Mistake: the file is listed only, as a binary is.
LeaveOutSilently ==
    \E m \in Members :
        /\ ReadMember(m)
        /\ ~m.binary /\ off + m.size > MaxBlobBytes
        /\ entries' = Append(entries, NoFile)
        /\ UNCHANGED <<files, unindexed, off, postingVars>>

\* No room in the blob.
LeaveOut ==
    \E m \in Members :
        /\ ReadMember(m)
        /\ ~m.binary /\ off + m.size > MaxBlobBytes
        /\ unindexed' = unindexed \cup {Len(tar) + 1}
        /\ entries' = Append(entries, NoFile)
        /\ UNCHANGED <<files, off, postingVars>>

\* addPostings: the trigrams whose list takes the file, and those whose list
\* is full, which become common and give their postings back.
Taken(tris) == {t \in tris : tri[t] # "common" /\ Cardinality(post[t]) < MaxPostingsPerTrigram}
Demoted(tris) == {t \in tris : tri[t] # "common" /\ Cardinality(post[t]) >= MaxPostingsPerTrigram}

Used(tris) ==
    Cardinality(Taken(tris)) - MapThenSumSet(LAMBDA t : Cardinality(post[t]), Demoted(tris))

AddPostings(f, tris) ==
    /\ tri' = [t \in Trigrams |-> CASE t \in Taken(tris) -> "listed"
                                    [] t \in Demoted(tris) -> "common"
                                    [] OTHER -> tri[t]]
    /\ post' = [t \in Trigrams |-> CASE t \in Taken(tris) -> post[t] \cup {f}
                                     [] t \in Demoted(tris) -> {}
                                     [] OTHER -> post[t]]
    /\ postings' = postings + Used(tris)
    /\ budget' = budget - Used(tris)
    /\ UNCHANGED always

\* No budget left: the file is a candidate for every query.
ScanAlways(f) ==
    /\ always' = always \cup {f}
    /\ UNCHANGED <<tri, post, budget, postings>>

\* Mistake: trust the size in the header.
CopyToBlobBySize ==
    \E m \in Members : LET f == Len(files) + 1 IN
        /\ ReadMember(m)
        /\ ~m.binary /\ off + m.size <= MaxBlobBytes /\ m.got > 0
        /\ files' = Append(files, [off |-> off, size |-> m.got, tris |-> m.tris])
        /\ entries' = Append(entries, f)
        /\ off' = off + m.size
        /\ IF budget > 0 THEN AddPostings(f, m.tris) ELSE ScanAlways(f)
        /\ UNCHANGED unindexed

CopyToBlob ==
    \E m \in Members : LET f == Len(files) + 1 IN
        /\ ReadMember(m)
        /\ ~m.binary /\ off + m.size <= MaxBlobBytes /\ m.got > 0
        /\ files' = Append(files, [off |-> off, size |-> m.got, tris |-> m.tris])
        /\ entries' = Append(entries, f)
        /\ off' = off + m.got
        /\ IF budget > 0 THEN AddPostings(f, m.tris) ELSE ScanAlways(f)
        /\ UNCHANGED unindexed

\* The end of the tar, or what looks like it.
Finish ==
    /\ status \in {"building", "broken"}
    /\ status' = "built"
    /\ UNCHANGED <<tar, files, entries, unindexed, off, postingVars>>

\* The blob cannot be written: there is no index.
Fail ==
    /\ status \in {"building", "broken"}
    /\ status' = "failed"
    /\ UNCHANGED <<tar, files, entries, unindexed, off, postingVars>>

IndexNext == ListOnly \/ LeaveOut \/ CopyToBlob \/ Finish \/ Fail

IndexSpec == IndexInit /\ [][IndexNext]_indexVars

----------------------------------------------------------------------------
(* candidates.  A query is a set of groups; a file may match when it has   *)
(* every trigram of one of them.                                           *)

Groups == SUBSET Trigrams \ {{}}

\* Some trigram of the group occurs nowhere.
Impossible(g) == \E t \in g : tri[t] = "absent"

Narrowing(g) == {t \in g : tri[t] # "common"}

Unconstrained(q) == \E g \in q : ~Impossible(g) /\ Narrowing(g) = {}

\* Mistake: union for intersection.
InSomeList(f, g) == \E t \in Narrowing(g) : f \in post[t]

InEveryList(f, g) == \A t \in Narrowing(g) : f \in post[t]

\* Mistake: the files without postings are forgotten.
CandidatesByList(q) ==
    IF Unconstrained(q) THEN DOMAIN files
    ELSE {f \in DOMAIN files : \E g \in q : ~Impossible(g) /\ InEveryList(f, g)}

Candidates(q) ==
    IF Unconstrained(q) THEN DOMAIN files
    ELSE {f \in DOMAIN files : f \in always \/ \E g \in q : ~Impossible(g) /\ InEveryList(f, g)}

MayMatch(f, q) == \E g \in q : g \subseteq files[f].tris

----------------------------------------------------------------------------
(* Properties.                                                             *)

Span == [off : Nat, size : Nat \ {0}, tris : SUBSET Trigrams]

Shape ==
    /\ tar \in Seq(Members)
    /\ status \in {"building", "broken", "built", "failed"}
    /\ files \in Seq(Span)
    /\ entries \in Seq(Nat) /\ Len(entries) = Len(tar)
    /\ unindexed \subseteq DOMAIN tar
    /\ tri \in [Trigrams -> {"absent", "listed", "common"}]
    /\ post \in [Trigrams -> SUBSET (DOMAIN files)]
    /\ always \subseteq DOMAIN files
    /\ off \in Nat

IndexTypeOK == Shape /\ budget \in Int /\ postings \in Int

\* A file is never missed: however the lists were demoted, the budget spent
\* and handed back, every file with all the trigrams of some group is a
\* candidate ("a candidate for every query rather than a missed one").
CandidatesSound ==
    \A q \in SUBSET Groups : \A f \in DOMAIN files : MayMatch(f, q) => f \in Candidates(q)

\* The index narrows: a file that has no group is read only when a trigram of
\* the query became common or the file has no postings.
CandidatesExact ==
    \A q \in SUBSET Groups : \A f \in DOMAIN files :
        (f \in Candidates(q) /\ f \notin always /\ \A t \in UNION q : tri[t] # "common")
            => MayMatch(f, q)

\* Nothing is skipped: each member is listed in order, and each text file is
\* either in the blob, with what could be read of it, or among the unindexed.
NothingSkipped ==
    \A i \in DOMAIN tar :
        /\ entries[i] = NoFile =>
              tar[i].binary \/ tar[i].got = 0 \/ i \in unindexed
        /\ entries[i] # NoFile =>
              /\ entries[i] \in DOMAIN files
              /\ files[entries[i]].tris = tar[i].tris
              /\ i \notin unindexed /\ ~tar[i].binary
        /\ \A j \in 1..i-1 : entries[i] # NoFile => entries[j] < entries[i]

\* Spans tile the blob and stay under its cap.
BlobTiled ==
    /\ \A f \in DOMAIN files :
          files[f].off + files[f].size = IF f = Len(files) THEN off ELSE files[f + 1].off
    /\ off <= MaxBlobBytes

=============================================================================
