---------------------------- MODULE MCQueryPlan ----------------------------
(***************************************************************************)
(* Instances of QueryPlan and Query for TLC.  For the planner, all texts of *)
(* two characters up to a length, literals with and without a trigram, and *)
(* two that make one only when they are joined.  The two machines do not   *)
(* meet: each run of the model takes the steps of one of them.             *)
(***************************************************************************)
EXTENDS QueryPlan, Query

CONSTANTS a, b, MaxLen

MCTexts == BoundedSeq({a, b}, MaxLen)
MCLiterals == {<<a, b>>, <<a, b, a>>, <<b, b, a>>}

----------------------------------------------------------------------------
Draft(start, symbols) == [start |-> start, symbols |-> symbols]

\* Operators and groups; keywords and quotes; regexps in slashes; context flags;
\* conditions after a first one; separators.
MCDrafts ==
    {Draft(<<>>, {"a", "b", " ", "|", "!", "(", ")"}),
     Draft(<<"a", " ">>, {"a", " ", "and", "or", "not", "&", "'"}),
     Draft(<<>>, {"a", " ", "/", "\\", "[", "\""}),
     Draft(<<>>, {"a", " ", "-A", "-C", "3", "99"}),
     Draft(<<"a", "|", "$1", ">", "3">>, {"a", " ", "or", "and", "$0", "~", "["}),
     Draft(<<"|", "-F">>, {"'", ",", " ", "$2", "!=", "3"})}

Word(is, text) == [is |-> is, text |-> text]
Date == Word("date", <<"99", "/">>)
Time == Word("time", <<"2", ":">>)

\* With and without a time and labels, with commas, and one that is all prefix.
MCLogLines ==
    {<<Word("bare", <<"a">>), Word("number", <<"3">>)>>,
     <<Date, Time, Word("label", <<"b">>), Word("bare", <<"b">>), Word("number", <<"99">>), Word("bare", <<"a">>)>>,
     <<Word("mon", <<"b">>), Word("day", <<"2">>), Word("number", <<"2", ",">>), Word("number", <<"3">>)>>,
     <<Word("label", <<"a">>), Word("number", <<"99", ",", "3">>)>>,
     <<Date, Time, Word("label", <<"b">>)>>}

\* The planner is run beside one of the drafts.
Planned == CHOOSE d \in Drafts : TRUE

MCInit == Init /\ QueryInit
MCNext ==
    \/ typed = draft.start /\ draft = Planned /\ Next /\ UNCHANGED queryVars
    \/ nodes = Leaves /\ concat = NoConcat /\ QueryNext /\ UNCHANGED vars
MCSpec == MCInit /\ [][MCNext]_<<vars, queryVars>>

=============================================================================
