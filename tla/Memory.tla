------------------------------- MODULE Memory -------------------------------
(***************************************************************************)
(* What took the memory (backend/internal/parser/oom.go): FindOOMEvents    *)
(* walks the log files of an archive, AnalyzeMemory looks for a culprit in *)
(* the counters of a plane, and ConfigSizeRisk in the size of its config.  *)
(*                                                                         *)
(* A step of the walk is one line, which is what the regular expressions   *)
(* make of it; the place of a line stands for the names and numbers on it. *)
(* The analysis is one step.  A time is a number, 0 for none; readings are *)
(* in whole kB, and growth in halves of them, as a median may be one.      *)
(***************************************************************************)
EXTENDS Integers, Sequences, FiniteSets, Functions, Selection

CONSTANTS
    Systems,     \* archives: log files, and the counters of a plane
    MaxSuspects

\* A line of a log is an invocation of the killer, a kill or neither.  The points of
\* a counter are sorted by time, and its name is that of a process and a PID.
OOMLine == [says : {"invoked", "killed", "other"}, at : Nat]
Point == [at : Nat, kb : Nat]
InOrder(pts) == \A j, k \in DOMAIN pts : j < k => pts[j].at <= pts[k].at
ASSUME SystemsAssumption ==
    \A s \in Systems :
        /\ s.files \in Seq([scanned : BOOLEAN, lines : Seq(OOMLine)])
        /\ s.avail \in [1..3 -> Seq(Point)]
        /\ s.procs \in Seq([proc : Nat, pid : Nat, pts : Seq(Point) \ {<<>>}])
        /\ \A k \in DOMAIN s.procs : InOrder(s.procs[k].pts)
        /\ \A j, k \in DOMAIN s.procs :
              s.procs[j].proc = s.procs[k].proc /\ s.procs[j].pid = s.procs[k].pid => j = k
ASSUME MaxSuspectsAssumption == MaxSuspects \in Nat

KbPerMiB == 1024
UserspaceExplainsThreshold == 50    \* per cent of the decline
MinSuspectPct == 5
MergespWarnMB == 26
LowMemVMTotalMB == 9 * 1024

VARIABLES
    system,      \* the archive
    file, line,  \* the file being read, and the lines read of it
    invoked,     \* the invocation that awaits its kill, if any
    ooms,        \* the events found
    sorted, report

memoryVars == <<system, file, line, invoked, ooms, sorted, report>>

NoReport == [done |-> FALSE]

----------------------------------------------------------------------------
(* FindOOMEvents.                                                          *)

Reading == ~sorted /\ file <= Len(system.files)
OOMText == IF system.files[file].scanned THEN system.files[file].lines ELSE <<>>
NextOOMLine == OOMText[line + 1]
Place == <<file, line + 1>>

ReadsLine(says) == Reading /\ line < Len(OOMText) /\ NextOOMLine.says = says /\ line' = line + 1

Invocation(l) == [at |-> l.at, by |-> Place, killed |-> <<>>, raw |-> Place]
KillAlone(l) == [at |-> l.at, by |-> <<>>, killed |-> <<>>, raw |-> Place]
KilledBy(e, l) == [e EXCEPT !.killed = Place, !.at = IF @ = 0 THEN l.at ELSE @]

\* "x invoked oom-killer"; one that was not answered is an event as it is.
Invoke ==
    /\ ReadsLine("invoked")
    /\ ooms' = ooms \o invoked
    /\ invoked' = <<Invocation(NextOOMLine)>>
    /\ UNCHANGED <<system, file, sorted, report>>

\* Mistake: a kill does not use up the invocation.
KillKeepsInvocation ==
    /\ ReadsLine("killed")
    /\ ooms' = Append(ooms, KilledBy((invoked \o <<KillAlone(NextOOMLine)>>)[1], NextOOMLine))
    /\ UNCHANGED <<system, file, invoked, sorted, report>>

\* "Killed process n (x)": of the invocation before it, or an event of its own.
Kill ==
    /\ ReadsLine("killed")
    /\ ooms' = Append(ooms, KilledBy((invoked \o <<KillAlone(NextOOMLine)>>)[1], NextOOMLine))
    /\ invoked' = <<>>
    /\ UNCHANGED <<system, file, sorted, report>>

OtherOOMLine == ReadsLine("other") /\ UNCHANGED <<system, file, invoked, ooms, sorted, report>>

\* The end of a file; nothing awaits its kill in the next one.
EndOfFile ==
    /\ Reading /\ line = Len(OOMText)
    /\ ooms' = ooms \o invoked /\ invoked' = <<>>
    /\ file' = file + 1 /\ line' = 0
    /\ UNCHANGED <<system, sorted, report>>

\* sort.Slice by time, which may leave events of one time in any order.
SortOOMs ==
    /\ ~sorted /\ file > Len(system.files) /\ sorted' = TRUE
    /\ \E p \in [DOMAIN ooms -> DOMAIN ooms] :
          /\ IsInjective(p)
          /\ \A k, l \in DOMAIN p : k < l => ooms[p[k]].at <= ooms[p[l]].at
          /\ ooms' = [k \in DOMAIN p |-> ooms[p[k]]]
    /\ UNCHANGED <<system, file, line, invoked, report>>

----------------------------------------------------------------------------
(* The decline of available memory.                                        *)

\* pickAvailTrend: the first of the three series that has two points.
Usable == {k \in 1..3 : Len(system.avail[k]) >= 2}
HasTrend == Usable # {}
Trend ==
    LET k == CHOOSE k \in Usable : \A l \in Usable : k <= l
        pts == system.avail[k]
    IN  (pts[1].kb - pts[Len(pts)].kb) * (IF k = 3 THEN KbPerMiB ELSE 1)
DropKB == IF HasTrend THEN Trend ELSE 0

----------------------------------------------------------------------------
(* processSuspects.                                                        *)

\* The readings of a process under all its PIDs: a series and a place in it.
\* Names are numbers, in their alphabetical order.
Procs == {system.procs[s].proc : s \in DOMAIN system.procs}
SeriesOf(p) == {s \in DOMAIN system.procs : system.procs[s].proc = p}
ReadingsOf(p) == UNION {{s} \X DOMAIN system.procs[s].pts : s \in SeriesOf(p)}
At(r) == system.procs[r[1]].pts[r[2]].at
Kb(r) == system.procs[r[1]].pts[r[2]].kb
Pid(r) == system.procs[r[1]].pid

\* Sorted by time; at one time, in the order in which the map gave its series.
Before(order, r, x) ==
    \/ At(r) < At(x)
    \/ /\ At(r) = At(x)
       /\ (order[r[1]] < order[x[1]] \/ (r[1] = x[1] /\ r[2] < x[2]))
FirstReading(R, order) == CHOOSE r \in R : \A x \in R \ {r} : Before(order, r, x)
LastReading(R, order) == CHOOSE r \in R : \A x \in R \ {r} : Before(order, x, r)

\* A new PID, or a fall to less than half within one.
RestartsAfter(r, prev) == Pid(r) # Pid(prev) \/ Kb(r) * 2 < Kb(prev)
Restarts(R, order) ==
    {r \in R : LET earlier == {x \in R : Before(order, x, r)}
               IN  earlier # {} /\ RestartsAfter(r, LastReading(earlier, order))}

Peak(R) == Kb(CHOOSE r \in R : \A x \in R : Kb(x) <= Kb(r))

\* median, doubled.
KthSmallest(R, k) ==
    Kb(CHOOSE r \in R : /\ Cardinality({x \in R : Kb(x) < Kb(r)}) <= k
                        /\ k < Cardinality({x \in R : Kb(x) <= Kb(r)}))
TwiceMedian(R) ==
    KthSmallest(R, Cardinality(R) \div 2) + KthSmallest(R, (Cardinality(R) - 1) \div 2)

\* What the last restart gave back.
TwiceReclaimed(R, order) ==
    LET last == LastReading(Restarts(R, order), order)
    IN  2 * Peak(R) - TwiceMedian({r \in R : ~Before(order, r, last)})

Larger(a, b) == IF a < b THEN b ELSE a

\* Mistake: the ranking is by size.
GrowthBySize(R, order) == 2 * Peak(R)

\* The figure a process is ranked on.
Growth(R, order) ==
    LET start == Kb(FirstReading(R, order))
        climb == 2 * (Kb(LastReading(R, order)) - start)
    IN  IF Restarts(R, order) = {} THEN climb
        ELSE Larger(Larger(climb, 2 * (Peak(R) - start)), TwiceReclaimed(R, order))

\* Two PIDs in one reading of the process table.
Concurrent(R) == \E r, x \in R : At(r) = At(x) /\ Pid(r) # Pid(x)

AllSuspects(order) ==
    {[name |-> p, growth |-> Growth(ReadingsOf(p), order),
      restarted |-> Restarts(ReadingsOf(p), order) # {},
      concurrent |-> Concurrent(ReadingsOf(p))] :
        p \in {q \in Procs : Cardinality(ReadingsOf(q)) >= 2 /\ Growth(ReadingsOf(q), order) > 0}}

\* Those that grew most first, by name among equals: the k-th has k-1 above it.
RanksAbove(a, b) == a.growth > b.growth \/ (a.growth = b.growth /\ a.name < b.name)
Ranked(suspects) ==
    [k \in 1..Cardinality(suspects) |->
        CHOOSE s \in suspects : Cardinality({x \in suspects : RanksAbove(x, s)}) = k - 1]

----------------------------------------------------------------------------
(* kernelSuspects, AnalyzeMemory and ConfigSizeRisk.                       *)

\* Slab totals and caches; their order and units are left out.
KernelSuspects ==
    {k \in DOMAIN system.slab :
        LET pts == system.slab[k] IN Len(pts) >= 2 /\ pts[Len(pts)].kb > pts[1].kb}

TwiceExplained(ranked) ==
    LET sum[k \in 0..Len(ranked)] == IF k = 0 THEN 0 ELSE sum[k-1] + ranked[k].growth
    IN  sum[Len(ranked)]
KernelLikely(suspects) ==
    /\ DropKB > 0 /\ KernelSuspects # {}
    /\ TwiceExplained(Ranked(suspects)) * 100 < 2 * UserspaceExplainsThreshold * DropKB

\* "Account for a meaningful slice of the drop", or restarted.
Meaningful(s) == DropKB <= 0 \/ s.restarted \/ s.growth * 100 >= 2 * MinSuspectPct * DropKB
Shown(suspects) ==
    LET all == Ranked(suspects)
    IN  Upto(Pick(all, {k \in DOMAIN all : Meaningful(all[k])}), MaxSuspects)

\* The size of the merged config in MB, against the memory of the device: 0 is unknown.
ConfigRisk ==
    LET low == system.totalMB > 0 /\ system.totalMB < LowMemVMTotalMB
    IN  IF system.mergespMB >= 0
        THEN IF system.mergespMB <= MergespWarnMB THEN <<"info">>
             ELSE IF low THEN <<"high">> ELSE <<"medium">>
        ELSE IF low THEN <<"info">> ELSE <<>>

Finding(severity, about) == [severity |-> severity, about |-> about]
FindingRank(f) ==
    CASE f.severity = "critical" -> 4 [] f.severity = "high" -> 3 [] f.severity = "medium" -> 2
      [] OTHER -> 1
Say(if, severity, about) == IF if THEN <<Finding(severity, about)>> ELSE <<>>

\* buildFindings, the gravest first; without a trend nothing is said of processes.
FindingsOf(shown, kernel, duplicates) ==
    LET oom == Say(ooms # <<>>, "critical", "oom") \o Say(Len(ooms) > 1, "info", "cascade")
        trend == IF DropKB > 0
                 THEN <<Finding(IF DropKB > 2 * 1024 * 1024 THEN "high" ELSE "medium", "declined")>>
                 ELSE <<Finding("info", "stable")>>
        rest == Say(shown # <<>>, "high", "growth") \o Say(kernel, "high", "kernel")
                \o [k \in 1..Cardinality(duplicates) |-> Finding("medium", "instances")]
                \o [k \in 1..Len(SelectSeq(shown, LAMBDA s : s.restarted)) |->
                       Finding("medium", "restarted")]
        all == IF HasTrend THEN oom \o trend \o rest
               ELSE Append(oom, Finding("info", "no trend"))
        OfRank(r) == SelectSeq(all, LAMBDA f : FindingRank(f) = r)
    IN  OfRank(4) \o OfRank(3) \o OfRank(2) \o OfRank(1)

ReportOn(suspects) ==
    LET duplicates == {s.name : s \in {x \in suspects : x.concurrent}}
    IN  [done |-> TRUE, first |-> IF ooms = <<>> THEN <<>> ELSE <<ooms[1]>>, suspects |-> Shown(suspects),
         kernel |-> KernelLikely(suspects), duplicates |-> duplicates, config |-> ConfigRisk,
         findings |-> FindingsOf(Shown(suspects), KernelLikely(suspects), duplicates)]

AnalyzeMemory ==
    /\ sorted /\ ~report.done
    /\ \E order \in [DOMAIN system.procs -> DOMAIN system.procs] :
          IsInjective(order) /\ report' = ReportOn(AllSuspects(order))
    /\ UNCHANGED <<system, file, line, invoked, ooms, sorted>>

MemoryInit ==
    /\ system \in Systems
    /\ file = 1 /\ line = 0 /\ invoked = <<>> /\ ooms = <<>> /\ sorted = FALSE
    /\ report = NoReport
MemoryNext ==
    Invoke \/ Kill \/ OtherOOMLine \/ EndOfFile \/ SortOOMs \/ AnalyzeMemory
MemorySpec == MemoryInit /\ [][MemoryNext]_memoryVars

----------------------------------------------------------------------------
(* Properties.                                                             *)

\* The lines of a kind in the files that are scanned.
OOMLines(says) ==
    {x \in UNION {{f} \X DOMAIN system.files[f].lines : f \in DOMAIN system.files} :
        system.files[x[1]].scanned /\ system.files[x[1]].lines[x[2]].says \in says}
LineTime(x) == system.files[x[1]].lines[x[2]].at

\* The kill that answers an invocation: the next of both kinds in its file.
Answers(x, kill) ==
    /\ x[1] = kill[1] /\ x[2] < kill[2]
    /\ \A y \in OOMLines({"invoked", "killed"}) : ~(y[1] = x[1] /\ x[2] < y[2] /\ y[2] < kill[2])

\* An incident is reported once, at the time that its lines give.
EventOf(by, killed) ==
    [at |-> IF by = <<>> THEN LineTime(killed)
            ELSE IF LineTime(by) = 0 /\ killed # <<>> THEN LineTime(killed) ELSE LineTime(by),
     by |-> by, killed |-> killed, raw |-> IF by = <<>> THEN killed ELSE by]
Incidents ==
    LET invocations == OOMLines({"invoked"})  kills == OOMLines({"killed"})
        answered == {x \in invocations \X kills : Answers(x[1], x[2])}
    IN  {EventOf(x[1], x[2]) : x \in answered}
        \cup {EventOf(x, <<>>) : x \in {y \in invocations : \A k \in kills : <<y, k>> \notin answered}}
        \cup {EventOf(<<>>, k) : k \in {l \in kills : \A y \in invocations : <<y, l>> \notin answered}}

OOMsPaired == Range(ooms) = Incidents /\ Len(ooms) = Cardinality(Incidents)

\* The span of what a process held, and one that ran through without a fall.
Span(p) ==
    LET held == {Kb(r) : r \in ReadingsOf(p)}
    IN  (CHOOSE v \in held : \A w \in held : w <= v) - (CHOOSE v \in held : \A w \in held : v <= w)
RanThrough(p) ==
    /\ Cardinality(SeriesOf(p)) = 1
    /\ \A r, x \in ReadingsOf(p) : x[2] = r[2] + 1 => Kb(x) * 2 >= Kb(r)
NetGrowth(p) ==
    LET pts == system.procs[CHOOSE s \in SeriesOf(p) : TRUE].pts IN pts[Len(pts)].kb - pts[1].kb

\* A process is blamed for no more than its memory ever swung, so a large and flat
\* one never is, and one that ran through for what it gained; it is left out only if
\* that is little or there are enough before it.
BlamedForGrowth ==
    /\ \A s \in Range(report.suspects) :
          /\ s.growth > 0 /\ s.growth <= 2 * Span(s.name)
          /\ RanThrough(s.name) => s.growth = 2 * NetGrowth(s.name) /\ ~s.restarted
          /\ Cardinality(SeriesOf(s.name)) > 1 => s.restarted
    /\ \A p \in Procs :
          RanThrough(p) /\ NetGrowth(p) > 0 /\ NetGrowth(p) * 100 >= MinSuspectPct * DropKB =>
              \/ p \in {s.name : s \in Range(report.suspects)}
              \/ /\ Len(report.suspects) = MaxSuspects
                 /\ \A s \in Range(report.suspects) : s.growth >= 2 * NetGrowth(p)

\* "A restart is not a duplicate instance".
DuplicatesRanBeside ==
    \A p \in report.duplicates : \E r, x \in ReadingsOf(p) : r[1] # x[1] /\ At(r) = At(x)

\* What each process gained alone is too little.
KernelIsLeft ==
    report.kernel =>
        \A p \in Procs :
            RanThrough(p) => NetGrowth(p) * 100 < UserspaceExplainsThreshold * DropKB

\* The report follows from the logs and the counters alone: an OOM incident is one
\* event whose victim is of the same file and of no other incident, the blame is
\* for growth and not for size, a duplicate instance is no restart, and the
\* kernel is suspected only if what processes gained is too little (FindOOMEvents,
\* processSuspects, AnalyzeMemory).
BlameFollowsEvidence ==
    /\ sorted => OOMsPaired
    /\ report.done => BlamedForGrowth /\ DuplicatesRanBeside /\ KernelIsLeft

=============================================================================
