--------------------------- MODULE MCSearchIndex ---------------------------
(***************************************************************************)
(* Instances of Archive, SearchIndex and Search for TLC: what is uploaded,  *)
(* indexed and searched.  The three machines do not meet: each run of the  *)
(* model takes the steps of one of them.                                   *)
(***************************************************************************)
EXTENDS MCSearch, SearchIndex, Archive

Text(size, got, tris) == [binary |-> FALSE, size |-> size, got |-> got, tris |-> tris]

\* Any set of trigrams, an empty file, a binary, one that breaks off and one
\* that may not fit into the blob.
SmallMembers ==
    {Text(1, 1, g) : g \in SUBSET Trigrams}
      \cup {Text(0, 0, {}), [Text(1, 1, {}) EXCEPT !.binary = TRUE]}
      \cup {Text(2, 1, g) : g \in {{}, Trigrams}}
      \cup {Text(3, 3, Trigrams)}

----------------------------------------------------------------------------
(* Archives.                                                               *)

Plain == [number |-> 1, slash |-> FALSE, xml |-> FALSE, log |-> FALSE, tier |-> 2, fw |-> {}, gp |-> {}]
At(lead, rest) == [lead |-> lead, rest |-> rest]

Mgmt == [Plain EXCEPT !.number = 2, !.xml = TRUE, !.tier = 0, !.fw = {1}]
NamedXml == [Plain EXCEPT !.number = 3, !.xml = TRUE, !.tier = 1, !.fw = {7}]
OtherXml == [Plain EXCEPT !.number = 4, !.xml = TRUE]
Agent == [Plain EXCEPT !.number = 5, !.log = TRUE, !.gp = {1, 9}]
SomeLog == [Plain EXCEPT !.number = 6, !.log = TRUE]
Nothing == [Plain EXCEPT !.number = 0]

InZip(path, declared, got) ==
    [path |-> path, dir |-> FALSE, opens |-> TRUE, declared |-> declared, got |-> got, root |-> "other",
     head |-> 1]

\* Names with either slash, doubled prefixes, directories, nameless and
\* unreadable members, one that is short, one with a long name and two so
\* large that headers and padding hide what follows them.
ZipMembers ==
    {[InZip(At(<<"./", "./">>, Plain), 1, 1) EXCEPT !.head = 3], InZip(At(<<".\\", "\\">>, Agent), 1, 1),
     InZip(At(<<>>, SomeLog), 0, 0), InZip(At(<<>>, Mgmt), 3, 3), InZip(At(<<>>, Agent), 2, 1),
     InZip(At(<<"/">>, Nothing), 0, 0), InZip(At(<<>>, [Plain EXCEPT !.slash = TRUE]), 0, 0),
     [InZip(At(<<>>, Plain), 1, 1) EXCEPT !.opens = FALSE],
     [InZip(At(<<>>, [Plain EXCEPT !.slash = TRUE]), 0, 0) EXCEPT !.dir = TRUE],
     InZip(At(<<>>, NamedXml), 25, 25), InZip(At(<<>>, OtherXml), 21, 21)}
Sequences(S, len) == UNION {[1..l -> S] : l \in 1..len}
MCZips == Sequences(ZipMembers, 4)

InTar(rest, size, root) ==
    [path |-> At(<<>>, rest), reg |-> TRUE, size |-> size, got |-> size, root |-> root,
     head |-> 1]

\* Configurations in each place, one with a long name, files of other roots,
\* out of range and short.
TarMembers ==
    {InTar(Mgmt, 1, "config"), InTar(Mgmt, 2, "other"), [InTar(Mgmt, 3, "config") EXCEPT !.got = 1],
     InTar(NamedXml, 2, "config"), InTar(NamedXml, 9, "config"), [InTar(OtherXml, 3, "config") EXCEPT !.head = 3],
     InTar(OtherXml, 0, "other"), InTar(Agent, 1, "other"), InTar(SomeLog, 1, "other"),
     [InTar(Mgmt, 0, "other") EXCEPT !.reg = FALSE]}
MCTars == {[members |-> s, broken |-> b] : s \in Sequences(TarMembers, 4) \cup {<<>>}, b \in BOOLEAN}

----------------------------------------------------------------------------
(* One machine runs while the others have nothing to read.                 *)

NoSearchInit == search = Nowhere /\ Init
NoIndexInit == IndexInit
NoArchiveInit == zip = <<>> /\ archive = NoTar /\ ArchiveInit

MCInit ==
    \/ NoIndexInit /\ NoArchiveInit /\ Init
    \/ NoIndexInit /\ NoSearchInit /\ ArchiveInit
MCNext ==
    \/ zip = <<>> /\ archive = NoTar /\ search = Nowhere
          /\ IndexNext /\ UNCHANGED <<archiveVars, vars>>
    \/ tar = <<>> /\ search = Nowhere /\ ArchiveNext /\ UNCHANGED <<indexVars, vars>>
    \/ search # Nowhere /\ Next /\ UNCHANGED <<archiveVars, indexVars>>
MCSpec == MCInit /\ [][MCNext]_<<indexVars, archiveVars, vars>>

=============================================================================
