------------------------------ MODULE Archive ------------------------------
(***************************************************************************)
(* What is uploaded and how it is read (backend/internal/parser/zip.go,    *)
(* archive.go, config.go, kind.go): a zip is rewritten as a tar, one member *)
(* per step, and every pass then walks the tar from its start, up to a cap *)
(* on what the archive inflates to.  The passes over a stored archive are  *)
(* operators on it: the listing, one entry, the kind of the archive and    *)
(* the configuration file.                                                 *)
(*                                                                         *)
(* A path is its leading "./" and "/" and the rest, which keeps what the   *)
(* regular expressions see in it; one number stands for the letters, in    *)
(* the order of paths.                                                     *)
(***************************************************************************)
EXTENDS Integers, Sequences, FiniteSets, Selection

CONSTANTS
    Zips, Tars,        \* what may be uploaded
    MaxInflatedBytes,  \* maxInflatedBytes
    BlockBytes,        \* a tar is written in blocks of this size
    MaxHeadBlocks,     \* the most blocks the header of one member takes
    MaxConfigSize, MaxTries

\* What follows the leading dots and slashes; number 0 is the empty rest.
Rest == [number : Nat, slash : BOOLEAN,   \* ends with "/"
         xml : BOOLEAN, log : BOOLEAN,
         tier : 0..2,                     \* mgmtDirRe, configNameRe, neither
         fw : SUBSET (1..7),              \* the firewallMarkers it matches
         gp : SUBSET (1..9)]              \* the gpMarkers it matches

Path == [lead : Seq({"./", "/", ".\\", "\\"}), rest : Rest]

\* The blocks of a tar header: one, and where the name is too long for it or is
\* not ASCII, another and its data before it.
Heads == {1} \cup 3..MaxHeadBlocks

\* A zip member: opens says that f.Open succeeds; got are the bytes it yields.
ZipMember == [path : Path, dir : BOOLEAN, opens : BOOLEAN, declared : Nat, got : Nat,
              root : {"config", "other"}, head : Heads]

\* A tar member, of which got bytes follow the header.
TarMember == [path : Path, reg : BOOLEAN, size : Nat, got : Nat, root : {"config", "other"},
              head : Heads]

\* A tar, and whether it breaks off after its last member.
Tar == [members : Seq(TarMember), broken : BOOLEAN]

ASSUME ArchiveAssumption ==
    /\ Zips \subseteq Seq(ZipMember) /\ Tars \subseteq Tar
    /\ MaxInflatedBytes \in Nat /\ BlockBytes \in Nat \ {0}
    /\ MaxHeadBlocks \in Nat \ {0}
    /\ MaxConfigSize \in Nat /\ MaxTries \in Nat

VARIABLES
    zip,        \* the members of the zip, <<>> for a tar
    next,       \* how many of them have been converted
    written, remaining,
    archive,    \* the tar
    upload      \* "converting", "stored" or "refused"

archiveVars == <<zip, next, written, remaining, archive, upload>>

----------------------------------------------------------------------------
(* Paths.                                                                  *)

\* normalizePath: one "./" and then one "/".
NormalizePath(p) ==
    LET trim(lead, s) == IF lead # <<>> /\ Head(lead) = s THEN Tail(lead) ELSE lead
    IN  [p EXCEPT !.lead = trim(trim(@, "./"), "/")]

\* strings.ReplaceAll: backslashes are slashes in a zip.
Slashed(p) ==
    [p EXCEPT !.lead = [k \in DOMAIN @ |-> CASE @[k] = ".\\" -> "./"
                                             [] @[k] = "\\" -> "/"
                                             [] OTHER -> @[k]]]

EmptyPath(p) == p.lead = <<>> /\ p.rest.number = 0
EndsInSlash(p) == p.rest.slash \/ (p.rest.number = 0 /\ p.lead # <<>>)

----------------------------------------------------------------------------
(* ConvertZipToTgz.                                                        *)

NoTar == [members |-> <<>>, broken |-> FALSE]

ArchiveInit ==
    /\ \/ zip \in Zips /\ archive = NoTar /\ upload = "converting"
       \/ zip = <<>> /\ archive \in Tars /\ upload = "stored"
    /\ next = 0 /\ written = 0 /\ remaining = MaxInflatedBytes

Converting == upload = "converting" /\ next < Len(zip)
Current == zip[next + 1]
NameOf(m) == NormalizePath(Slashed(m.path))

\* Directories, nameless members, and those that cannot be opened.
Skipped(m) == m.dir \/ EmptyPath(NameOf(m)) \/ EndsInSlash(NameOf(m)) \/ ~m.opens

SkipZipMember ==
    /\ Converting /\ Skipped(Current)
    /\ next' = next + 1
    /\ UNCHANGED <<zip, written, remaining, archive, upload>>

\* The declared size is over what is left, or the copy yields another size:
\* the whole upload is refused.
Refuse ==
    /\ Converting /\ ~Skipped(Current)
    /\ Current.declared > remaining \/ Current.got # Current.declared
    /\ upload' = "refused"
    /\ UNCHANGED <<zip, next, written, remaining, archive>>

ConvertAs(name) ==
    /\ Converting /\ ~Skipped(Current)
    /\ Current.declared <= remaining /\ Current.got = Current.declared
    /\ next' = next + 1 /\ written' = written + 1
    /\ remaining' = remaining - Current.got
    /\ archive' = [archive EXCEPT !.members =
          Append(@, [path |-> name, reg |-> TRUE, size |-> Current.declared,
                     got |-> Current.got, root |-> Current.root, head |-> Current.head])]
    /\ UNCHANGED <<zip, upload>>

\* Mistake: the tar keeps the name as the zip spells it.
ConvertMemberRaw == ConvertAs(Current.path)

ConvertMember == ConvertAs(NameOf(Current))

\* "zip archive contains no files".
FinishZip ==
    /\ upload = "converting" /\ next = Len(zip)
    /\ upload' = IF written = 0 THEN "refused" ELSE "stored"
    /\ UNCHANGED <<zip, next, written, remaining, archive>>

ArchiveNext == SkipZipMember \/ Refuse \/ ConvertMember \/ FinishZip

ArchiveSpec == ArchiveInit /\ [][ArchiveNext]_archiveVars

----------------------------------------------------------------------------
(* Walking a tar.                                                          *)

\* Data is padded to whole blocks.
Padded(n) == n + ((BlockBytes - (n % BlockBytes)) % BlockBytes)

HeadBytes(m) == m.head * BlockBytes
MemberBytes(m) == HeadBytes(m) + Padded(m.size)

\* Where the header of member i starts in the inflated stream.
Offset(a, i) ==
    LET sum[k \in 0..Len(a.members)] ==
            IF k = 0 THEN 0 ELSE sum[k-1] + MemberBytes(a.members[k])
    IN  sum[i - 1]

\* Where its data starts.
DataOffset(a, i) == Offset(a, i) + HeadBytes(a.members[i])

\* limitedReader: the members whose headers end below the cap are found.
Found(a) == {i \in DOMAIN a.members : DataOffset(a, i) <= MaxInflatedBytes}

\* The regular files of a tar, those of a kind, in order.
Files(a, Wanted(_)) ==
    Pick(a.members, {i \in Found(a) : a.members[i].reg /\ Wanted(a.members[i])})

Listed(m) == ~EmptyPath(NormalizePath(m.path))
EntryOf(m) == [path |-> NormalizePath(m.path), size |-> m.size]

\* IndexArchive: an error after the first files is tolerated.  An archive without
\* any is one, or is empty: <<>>.
IndexArchive(a) ==
    LET files == Files(a, Listed) IN [k \in DOMAIN files |-> EntryOf(files[k])]

\* EntryReader: the place of the first regular file of a path, if there is one.
EntryReader(a, path) ==
    LET named == {i \in Found(a) : a.members[i].reg /\ NormalizePath(a.members[i].path) = path}
    IN  {i \in named : \A j \in named : i <= j}

----------------------------------------------------------------------------
(* DetectKind.                                                             *)

\* The markers seen: those of the firewall, and those of the agent while the
\* firewall case is open.
Seen(entries) ==
    LET seen[k \in 0..Len(entries)] ==
            IF k = 0 THEN [fw |-> {}, gp |-> {}]
            ELSE LET p == NormalizePath(entries[k].path).rest
                     fw == seen[k-1].fw \cup p.fw
                 IN  [fw |-> fw,
                      gp |-> IF fw = {} THEN seen[k-1].gp \cup p.gp ELSE seen[k-1].gp]
    IN  seen[Len(entries)]

\* looksLikeLogBundle: at least two logs, and half of the entries.
LooksLikeLogBundle(entries) ==
    LET logs == Cardinality({k \in DOMAIN entries : entries[k].path.rest.log})
    IN  Len(entries) \in 1..200 /\ logs >= 2 /\ logs * 2 >= Len(entries)

\* Mistake: the side with more markers wins.
KindByCount(entries) ==
    LET seen == Seen(entries)
    IN  IF Cardinality(seen.fw) > Cardinality(seen.gp) THEN "firewall"
        ELSE IF seen.gp # {} \/ LooksLikeLogBundle(entries) THEN "gp-agent" ELSE "unknown"

DetectKind(entries) ==
    LET seen == Seen(entries)
    IN  IF seen.fw # {} THEN "firewall"
        ELSE IF seen.gp # {} \/ LooksLikeLogBundle(entries) THEN "gp-agent" ELSE "unknown"

----------------------------------------------------------------------------
(* ExtractConfig.                                                          *)

\* listXMLCandidates.
XmlCandidates(a) == Files(a, LAMBDA m : m.path.rest.xml)

\* Mistake: the size decides before the tier does.
RanksBySize(cs, i, j) ==
    LET x == cs[i]  y == cs[j]
    IN  IF x.size # y.size THEN x.size > y.size ELSE i < j

\* rankConfigCandidates: its order, and the candidates in it.
RanksBefore(cs, i, j) ==
    LET x == cs[i]  y == cs[j]
        px == NormalizePath(x.path)  py == NormalizePath(y.path)
    IN  IF px.rest.tier # py.rest.tier THEN px.rest.tier < py.rest.tier
        ELSE IF x.size # y.size THEN x.size > y.size
        ELSE IF px.rest.number # py.rest.number THEN px.rest.number < py.rest.number
        ELSE i < j

RankConfigCandidates(cs) ==
    [k \in DOMAIN cs |->
        cs[CHOOSE i \in DOMAIN cs :
              Cardinality({j \in DOMAIN cs : RanksBefore(cs, j, i)}) = k - 1]]

SizeInRange(m) == m.size \in 1..MaxConfigSize

\* The ranked candidates that are tried, if none before them is picked.
Tried(ranked) ==
    {k \in DOMAIN ranked :
        /\ SizeInRange(ranked[k])
        /\ Cardinality({j \in 1..k-1 : SizeInRange(ranked[j])}) < MaxTries}

\* readEntry and sniffRootTag: what the first file of that path holds, where all
\* of its data is there and below the cap.
IsConfig(a, m) ==
    \E i \in EntryReader(a, NormalizePath(m.path)) :
        LET entry == a.members[i]
        IN  /\ entry.got = entry.size /\ entry.size <= MaxConfigSize
            /\ DataOffset(a, i) + entry.size <= MaxInflatedBytes
            /\ entry.root = "config"

\* The path of the configuration, or none.
ExtractConfig(a) ==
    LET ranked == RankConfigCandidates(XmlCandidates(a))
        good == {k \in Tried(ranked) : IsConfig(a, ranked[k])}
    IN  IF good = {} THEN <<>>
        ELSE <<ranked[CHOOSE k \in good : \A x \in good : k <= x]>>

----------------------------------------------------------------------------
(* Properties.                                                             *)

Stored == upload = "stored"

\* The members of the zip a user can expect to see.
ReadableMembers == Pick(zip, {k \in DOMAIN zip : ~Skipped(zip[k])})

\* What a tar adds at most to the bytes of one member: its header, and what
\* pads its data to whole blocks.
AddedBytes == (MaxHeadBlocks + 1) * BlockBytes

\* "Everything downstream stays unchanged": an accepted zip is listed as its
\* readable members, in order, under the names their lookups will use.  Only
\* what a tar adds to them may hide the last ones: the conversion counts their
\* bytes against the cap and nothing else, the walk counts the whole stream.
ZipIsListed ==
    (Stored /\ zip # <<>>) =>
        LET listing == IndexArchive(archive)
        IN  /\ Len(listing) <= Len(ReadableMembers)
            /\ \A k \in DOMAIN listing :
                  /\ listing[k] = [path |-> NormalizePath(NameOf(ReadableMembers[k])),
                                   size |-> ReadableMembers[k].declared]
                  /\ EntryReader(archive, listing[k].path) # {}
            /\ Len(listing) < Len(ReadableMembers) =>
                  remaining < Len(ReadableMembers) * AddedBytes

\* "A single firewall marker outweighs any number of GP-looking names", in any
\* place: the walk stops to look for the agent's markers at the first one.
KindOfContents ==
    Stored =>
        LET listing == IndexArchive(archive)
            marked(side(_)) == \E k \in DOMAIN listing : side(listing[k].path.rest) # {}
            kind == DetectKind(listing)
        IN  /\ (kind = "firewall") = marked(LAMBDA r : r.fw)
            /\ (marked(LAMBDA r : r.gp) /\ ~marked(LAMBDA r : r.fw)) => kind = "gp-agent"

\* A better place for the configuration: the directory, then the names, then
\* the size.
Better(x, y) ==
    \/ x.path.rest.tier < y.path.rest.tier
    \/ x.path.rest.tier = y.path.rest.tier /\ x.size > y.size

\* "Largest first, on the reasoning that the biggest file is the most complete":
\* no file that holds a configuration is passed over for a lesser one, or for
\* none, unless MaxTries files of its rank or better were in its way; and what
\* is picked holds one.
ConfigIsTopRanked ==
    Stored =>
        LET cs == XmlCandidates(archive)
            picked == ExtractConfig(archive)
        IN  /\ picked # <<>> => IsConfig(archive, picked[1])
            /\ \A i \in DOMAIN cs :
                  (SizeInRange(cs[i]) /\ IsConfig(archive, cs[i])
                     /\ (picked = <<>> \/ Better(cs[i], picked[1])))
                  => Cardinality({j \in DOMAIN cs \ {i} :
                                    SizeInRange(cs[j]) /\ ~Better(cs[i], cs[j])}) >= MaxTries

=============================================================================
