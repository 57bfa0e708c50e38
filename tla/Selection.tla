----------------------------- MODULE Selection -----------------------------
(***************************************************************************)
(* The elements of a sequence that pass a test, in their order: what the   *)
(* code does with a slice it filters in place or appends to.  Written      *)
(* through the rank of an element instead of by recursion, so that facts   *)
(* about it can be proved (SelectionProofs).                               *)
(***************************************************************************)
EXTENDS Integers, Sequences, FiniteSets

\* The numbers of a finite set, smallest first: the k-th is the one that k-1
\* others are below.
Ascending(S) ==
    [k \in 1..Cardinality(S) |-> CHOOSE x \in S : Cardinality({y \in S : y < x}) = k - 1]

\* The elements of s at the places of S.
Pick(s, S) == LET at == Ascending(S) IN [k \in 1..Len(at) |-> s[at[k]]]

\* The first k elements of s, or all of them.
Upto(s, k) == SubSeq(s, 1, IF k < Len(s) THEN k ELSE Len(s))

=============================================================================
