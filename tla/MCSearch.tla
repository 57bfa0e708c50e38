------------------------------ MODULE MCSearch ------------------------------
(***************************************************************************)
(* Instances of Search for TLC: all archives over a few kinds of lines.    *)
(***************************************************************************)
EXTENDS Search, TLC

L(match, keep) == [match |-> match, keep |-> keep, keepClipped |-> keep, huge |-> FALSE]

Hit1 == L(TRUE, TRUE)        \* matches and passes the filter
Anchor == L(TRUE, FALSE)     \* matches, dropped by the filter
Value == L(FALSE, TRUE)      \* context the filter keeps
Noise == L(FALSE, FALSE)     \* context the filter drops
Long == [Value EXCEPT !.keepClipped = FALSE]      \* kept for a field past the clip
Huge == [Hit1 EXCEPT !.huge = TRUE]

Texts(kinds, len) == UNION {[1..k -> kinds] : k \in 0..len}

E(name, text, lines) == [name |-> name, text |-> text, lines |-> lines]

Opt(before, after, max, filter, indexed) ==
    [before |-> before, after |-> after, max |-> max, filter |-> filter, indexed |-> indexed,
     restricted |-> FALSE, only |-> {}, mayExpire |-> FALSE]

\* Entries with a path each.
Placed(entries) == [i \in DOMAIN entries |-> [path |-> i] @@ entries[i]]
Over(archives, options) == [archive : {Placed(a) : a \in archives}, opts : options]

\* One file of up to four lines, every context window up to two lines, with and
\* without a field filter, at three limits.
Windows ==
    Over({<<E(FALSE, "blob", t)>> : t \in Texts({Hit1, Anchor, Value, Noise, Long}, 3)
                                            \cup [1..4 -> {Hit1, Anchor, Noise}]},
         {Opt(b, a, m, f, FALSE) : b \in 0..2, a \in 0..2, m \in {1, 2, 5}, f \in BOOLEAN})

\* Up to three entries with names, binaries, long lines and ?paths=, on both paths.
Small == {E(nm, t, ls) : nm \in BOOLEAN, t \in {"blob", "binary"},
                         ls \in Texts({Hit1, Value}, 2) \cup {<<Huge, Hit1>>}}
BothPaths ==
    Over({<<a, b>> : a \in Small, b \in Small}
            \cup {<<a, a, b>> : a \in Small, b \in {E(TRUE, "blob", <<Hit1>>)}},
         {[Opt(0, a, m, FALSE, ix) EXCEPT !.restricted = (o # {}), !.only = o] :
            a \in 0..1, m \in {1, 2, 3, 5}, ix \in BOOLEAN, o \in {{}, {2}}})

\* A deadline within reach, files left out of the blob.
Deadlines ==
    Over({<<E(FALSE, t1, l1), E(TRUE, t2, l2)>> :
             t1 \in {"blob", "unindexed"}, t2 \in {"blob", "unindexed"},
             l1 \in Texts({Hit1, Value}, 3), l2 \in Texts({Hit1, Value}, 2)},
         {[Opt(1, a, m, FALSE, TRUE) EXCEPT !.mayExpire = TRUE] : a \in 0..2, m \in {2, 4}})

\* One path twice, in the blob and left out of it, and a third entry.
OnePath == {[archive |-> [s.archive EXCEPT ![2].path = 1], opts |-> s.opts] : s \in
    Over({<<E(TRUE, t1, l1), E(TRUE, t2, l2), E(FALSE, t3, <<Hit1>>)>> :
             t1 \in {"blob", "unindexed"}, t2 \in {"blob", "unindexed", "binary"},
             t3 \in {"blob", "unindexed"}, l1 \in Texts({Hit1, Value}, 2), l2 \in Texts({Hit1, Value}, 1)},
         {[Opt(0, 1, m, FALSE, ix) EXCEPT !.restricted = (o # {}), !.only = o] :
             m \in {2, 6}, ix \in BOOLEAN, o \in {{}, {1}}})}

\* An archive without files.
Nowhere == [archive |-> <<>>, opts |-> Opt(0, 0, 1, FALSE, FALSE)]

AllSearches == {Nowhere} \cup Windows \cup BothPaths \cup Deadlines \cup OnePath

\* For the disagreements, small instances that show each.
FilteredSearch ==
    Over({<<E(FALSE, "blob", t)>> : t \in Texts({Hit1, Anchor, Noise}, 3)},
         {Opt(0, 1, m, TRUE, TRUE) : m \in {1, 2}})
ShortDeadline ==
    Over({<<E(FALSE, "blob", t), E(FALSE, "blob", u)>> : t, u \in Texts({Value, Hit1}, 2)},
         {[Opt(0, 0, 5, FALSE, TRUE) EXCEPT !.mayExpire = TRUE]})

=============================================================================
