------------------------------ MODULE Counters ------------------------------
(***************************************************************************)
(* The counters of the monitor logs (backend/internal/parser/counters.go): *)
(* CollectAllCounters reads every dp-, mp- and cp-monitor.log* of the      *)
(* archive with a collector of its own, a line machine whose state is the  *)
(* block ("<date> --- <name>") and, inside panio, the section it is in.    *)
(*                                                                         *)
(* A step reads one line.  A line is what the regular expressions make of  *)
(* it: its shape, the name it bears and its numbers.  A time is in         *)
(* minutes.  A sample keeps the log and the line that were being read when *)
(* it was emitted, so out is a set although the code appends; the final    *)
(* sort of each series by time is left out.                                *)
(***************************************************************************)
EXTENDS Integers, Sequences, FiniteSets, Functions, Selection

CONSTANTS
    Alphabets,   \* the lines a log can hold: those of one of these sets
    Archive,     \* the paths of the members of the tar, in order
    MaxLines     \* how many lines are read, a log after the first counting as two

\* A member of the tar: "opt/var/<slot>/<dir>/", "opt/var.<dir>/" or neither.
Path == [slot : {"", "s1", "s2"}, dir : {"", "cp", "dp0", "dp1"},
         file : {"dp", "mp", "cp", "other"}]

\* The line that opens each section of panio, and the mode it sets.
SectionOf ==
    [gcSec |-> "gc-elapsed", gcEnd |-> "", cpu15mSec |-> "cpu15m", cacheSec |-> "cache",
     perTaskSec |-> "pertask", mempoolHdr |-> "mempool", softpoolHdr |-> "softpool",
     powpoolHdr |-> "powpool", sharedpoolHdr |-> "sharedpool",
     procusFuncHdr |-> "procus_func", procusGroupHdr |-> "procus_group",
     procusdHdr |-> "procusd", ruSec |-> "ru", siStart |-> "si", vmpowStart |-> "vmpow"]

\* The other shapes.  "row" is ":name n n ...", "nums" is ": n n ...", "bare" a
\* line of numbers alone.
Shapes == DOMAIN SectionOf \cup
    {"hdr", "text", "row", "nums", "bare",
     "gcElapsed", "coreHdr", "perTaskHdr", "softRow", "powRow", "ruLabel", "siRow",
     "siDiscard", "thread", "ioWqe", "inflight", "usedWqe", "rcvThresh",
     "loadAvg", "iface", "rxtx", "memRow", "swapRow", "keyRow", "slabRow", "label",
     "sock", "section", "procTotal", "procTotals", "procRow", "fsRow", "topRow",
     "topPairs", "vsys", "appRow", "open", "leaf", "close"}

Line == [is : Shapes, name : STRING, vals : Seq(Nat)]

\* gcMinElapsedSeconds.
GcMinElapsedSeconds == 120

ASSUME CountersAssumption ==
    /\ \A A \in Alphabets : A \subseteq Line
    /\ \A A \in Alphabets : \A l \in A : l.is = "sock" => Len(l.vals) >= 2
    /\ Archive \in Seq(Path)
    /\ MaxLines \in Nat

VARIABLES
    member,  \* how many members have been visited
    logs,    \* the logs among them, each with the lines read of it
    c,       \* the collector of the last of them
    out,     \* the samples
    open     \* is the last log still being read?

counterVars == <<member, logs, c, out, open>>

----------------------------------------------------------------------------
(* The collector.                                                          *)

\* planeOf: the directory wins over the file name.
PlaneOf(p) ==
    IF p.slot # "" /\ p.dir # "" THEN <<p.slot, p.dir>>
    ELSE IF p.dir # "" THEN <<p.dir>> ELSE <<p.file>>

\* &counterCollector{plane: plane}.  nsAcc is nil exactly outside the block.
Collector(plane) ==
    [plane |-> plane, ts |-> 0, haveTs |-> FALSE, block |-> "", mode |-> "",
     coreIDs |-> <<>>, rowIdx |-> 0, loadAvgNext |-> FALSE, cpuDone |-> FALSE,
     taskCols |-> <<>>, curIface |-> "", rxtxDir |-> "", rxtxCols |-> 0, lrDone |-> FALSE,
     nsAcc |-> <<>>, nsTs |-> 0, nsSection |-> "", detName |-> "", ruLabel |-> "",
     powThread |-> 0, appVsys |-> 0, cpsPath |-> <<>>, fabricUnsupported |-> FALSE]

CountersInit ==
    member = 0 /\ logs = <<>> /\ c = Collector(<<>>) /\ out = {} /\ open = FALSE

LinesRead == {at \in (1..Len(logs)) \X (1..MaxLines) : at[2] \in DOMAIN logs[at[1]].text}
LineAt(at) == logs[at[1]].text[at[2]]

\* The lines that may come next.
Readable == UNION {A \in Alphabets : \A at \in LinesRead : LineAt(at) \in A}

\* sc.Scan: the next line of the log.
Here == <<Len(logs), Len(logs[Len(logs)].text) + 1>>
Read(l) ==
    /\ open /\ Cardinality(LinesRead) + 2 * (Len(logs) - 1) < MaxLines
    /\ logs' = [logs EXCEPT ![Len(logs)].text = Append(@, l)]
    /\ UNCHANGED <<member, open>>

SampleAt(ts, fam, key, id, col, v) ==
    [plane |-> c.plane, fam |-> fam, key |-> key, id |-> id, col |-> col,
     ts |-> ts, v |-> v, at |-> Here]
Sample(fam, key, id, col, v) == SampleAt(c.ts, fam, key, id, col, v)

\* emitAt: nothing is emitted before a line has given the time.
Emit(samples) == out' = IF c.haveTs THEN out \cup samples ELSE out

\* A row of a table: one counter for each of its columns that has a name.
Row(fam, key, id, vals, cols) ==
    {Sample(fam, <<key>>, id, j, vals[j]) : j \in {x \in DOMAIN vals : x <= cols}}

\* flushNetstat: the sums of a netstat_detail block, at that block's time.
Flushed ==
    {SampleAt(c.nsTs, "netstat_detail", <<k>>, 0, q, c.nsAcc[k][q]) :
        k \in DOMAIN c.nsAcc, q \in {1, 2}}

\* Mistake: a new block keeps the objects that the last one left open.
BlockHeaderKeepsObjects(l) ==
    LET ts == IF l.vals = <<>> THEN c.ts ELSE l.vals[1]
    IN
    /\ l.is = "hdr" /\ Read(l) /\ Emit(Flushed)
    /\ c' = [Collector(c.plane) EXCEPT
                !.ts = ts, !.haveTs = c.haveTs \/ l.vals # <<>>, !.block = l.name,
                !.nsTs = ts, !.cpsPath = c.cpsPath]

\* "<date> --- <name>": the netstat sums are flushed and all but the columns of
\* the tables is reset.  A date that is none leaves the time as it was.
BlockHeader(l) ==
    LET ts == IF l.vals = <<>> THEN c.ts ELSE l.vals[1]
    IN
    /\ l.is = "hdr" /\ Read(l) /\ Emit(Flushed)
    /\ c' = [Collector(c.plane) EXCEPT
                !.ts = ts, !.haveTs = c.haveTs \/ l.vals # <<>>, !.block = l.name,
                !.nsTs = IF l.name = "netstat_detail" THEN ts ELSE c.nsTs,
                !.rowIdx = c.rowIdx, !.taskCols = c.taskCols, !.rxtxCols = c.rxtxCols,
                !.fabricUnsupported = c.fabricUnsupported]

\* A line other than a header, in a block.
In(block, l) == l.is # "hdr" /\ c.block = block /\ Read(l)

----------------------------------------------------------------------------
(* The blocks outside panio.                                               *)

\* cpuBlockLine: the row after "Load Avg:" has the load averages, and of the
\* other rows of two numbers the first one the averages of the cpu.
CpuBlockLine(l) ==
    /\ In("cpu", l)
    /\ IF l.is = "loadAvg" THEN c' = [c EXCEPT !.loadAvgNext = TRUE] /\ Emit({})
       ELSE IF c.loadAvgNext
            THEN /\ c' = [c EXCEPT !.loadAvgNext = FALSE]
                 /\ Emit(IF l.is = "bare" /\ Len(l.vals) >= 3
                         THEN Row("cpu_load_avg", "", 0, l.vals, IF Len(l.vals) >= 6 THEN 6 ELSE 3)
                         ELSE {})
       ELSE LET first == ~c.cpuDone /\ l.is = "bare" /\ Len(l.vals) = 2
            IN  /\ c' = [c EXCEPT !.cpuDone = @ \/ first]
                /\ Emit(IF first THEN Row("cpu", "last_3m", 0, l.vals, 2) ELSE {})

\* ifconfigLine: an interface, the columns of a direction, one row of values.
IfconfigLine(l) ==
    LET values == l.is = "bare" /\ c.rxtxDir # ""
    IN
    /\ In("ifconfig", l)
    /\ c' = CASE l.is = "iface" -> [c EXCEPT !.curIface = l.name, !.rxtxDir = ""]
              [] l.is = "rxtx" /\ c.curIface # "" ->
                    [c EXCEPT !.rxtxDir = l.name, !.rxtxCols = l.vals[1]]
              [] values -> [c EXCEPT !.rxtxDir = ""]
              [] OTHER -> c
    /\ Emit(IF values /\ Len(l.vals) = c.rxtxCols
            THEN {Sample("ifconfig", <<c.curIface, c.rxtxDir>>, 0, j, l.vals[j]) : j \in DOMAIN l.vals}
            ELSE {})

\* logrcvrLine: up to and including "Total (MB)".
LogrcvrLine(l) ==
    LET counts == ~c.lrDone /\ l.is = "label" /\ l.name # "traffic_logs_written"
    IN
    /\ In("logrcvr_statistics", l)
    /\ Emit(IF counts THEN Row("logreceiver_statistics", l.name, 0, l.vals, 1) ELSE {})
    /\ c' = [c EXCEPT !.lrDone = @ \/ (counts /\ l.name = "total_mb")]

\* netstatLine: the queues of the sockets of one protocol and program add up.
\* "sock" stands for the rows that name a program.
NetstatLine(l) ==
    LET had == IF l.name \in DOMAIN c.nsAcc THEN c.nsAcc[l.name] ELSE <<0, 0>>
        sum == <<had[1] + l.vals[1], had[2] + l.vals[2]>>
    IN
    /\ In("netstat_detail", l) /\ Emit({})
    /\ c' = IF l.is # "sock" THEN c
            ELSE [c EXCEPT !.nsAcc = [k \in DOMAIN @ \cup {l.name} |->
                                         IF k = l.name THEN sum ELSE @[k]]]

\* netstatStatsLine: rows outside any section are skipped.
NetstatStatsLine(l) ==
    /\ In("netstat_stats", l)
    /\ c' = IF l.is = "section" THEN [c EXCEPT !.nsSection = l.name] ELSE c
    /\ Emit(IF l.is = "label" /\ c.nsSection # ""
            THEN {Sample("nsstats", <<c.nsSection, l.name>>, 0, 1, l.vals[1])} ELSE {})

\* appStatsLine: the first value of a row is the application; "some builds omit
\* the Vsys line when there is only one".
AppStatsLine(l) ==
    /\ In("panio_infreq", l)
    /\ c' = IF l.is = "vsys" THEN [c EXCEPT !.appVsys = l.vals[1]] ELSE c
    /\ Emit(IF l.is = "appRow" /\ Len(l.vals) = 5
            THEN Row("appstats", l.name, IF c.appVsys = 0 THEN 1 ELSE c.appVsys, l.vals, 5)
            ELSE {})

\* cpStatsLine: the stack of open objects, whose root is not part of a name.
CpStatsLine(l) ==
    /\ In("cp_stats", l)
    /\ Emit(IF l.is = "leaf" /\ c.cpsPath # <<>>
            THEN {Sample("cpstats", Append(Tail(c.cpsPath), l.name), 0, 1, l.vals[1])} ELSE {})
    /\ c' = CASE l.is = "open" -> [c EXCEPT !.cpsPath = Append(@, l.name)]
              [] l.is = "close" /\ c.cpsPath # <<>> ->
                    [c EXCEPT !.cpsPath = SubSeq(@, 1, Len(@) - 1)]
              [] OTHER -> c

\* fabricLine: "not supported" is not a parse failure.
FabricLine(l) ==
    /\ In("fabric_traffic_stats", l) /\ Emit({})
    /\ c' = [c EXCEPT !.fabricUnsupported = @ \/ l.is = "text"]

\* The blocks whose rows stand for themselves.
MemoryLine(l) ==
    IF l.is = "memRow" THEN Row("memory", "mem", 0, l.vals, 4)
    ELSE IF l.is = "swapRow" THEN Row("memory", "swap", 0, l.vals, 3) ELSE {}

MemoryDetailLine(l) ==
    IF l.is = "keyRow" THEN Row("memorydetail", l.name, 0, l.vals, 1) ELSE {}

\* The fourth counter of a slab is its total active size.
SlabinfoLine(l) ==
    IF l.is = "slabRow"
    THEN Row("slabinfo", l.name, 0, Append(l.vals, l.vals[1] * l.vals[3]), 4) ELSE {}

ProcessesLine(l) ==
    CASE l.is = "procTotal" -> Row("total", "processes", 0, l.vals, 1)
      [] l.is = "procTotals" /\ Len(l.vals) >= 5 -> Row("total", "sums", 0, l.vals, 5)
      [] l.is = "procRow" /\ Len(l.vals) >= 5 ->
            Row("processes", l.name, l.vals[1], Tail(l.vals), 5)
      [] OTHER -> {}

FilesystemLine(l) ==
    IF l.is = "fsRow" THEN Row("filesystem", l.name, 0, l.vals, 2) ELSE {}

\* "topPairs" stands for the summary lines, of up to eight labelled numbers.
TopLine(l) ==
    CASE l.is = "topRow" -> Row("topprocess", l.name, l.vals[1], Tail(l.vals), 7)
      [] l.is = "topPairs" -> Row("top", l.name, 0, l.vals, 8)
      [] OTHER -> {}

TableLine(block, l) ==
    CASE block = "memory" -> MemoryLine(l)
      [] block = "memory_detail" -> MemoryDetailLine(l)
      [] block = "slabinfo" -> SlabinfoLine(l)
      [] block = "processes" -> ProcessesLine(l)
      [] block = "filesystem" -> FilesystemLine(l)
      [] block = "top" -> TopLine(l)

Tables == {"memory", "memory_detail", "slabinfo", "processes", "filesystem", "top"}

TablesLine(l) ==
    \E block \in Tables : In(block, l) /\ Emit(TableLine(block, l)) /\ UNCHANGED c

BlockLine(l) ==
    \/ CpuBlockLine(l) \/ IfconfigLine(l) \/ LogrcvrLine(l) \/ NetstatLine(l)
    \/ NetstatStatsLine(l) \/ AppStatsLine(l) \/ CpStatsLine(l) \/ FabricLine(l)
    \/ TablesLine(l)

Dedicated == Tables \cup
    {"cpu", "ifconfig", "logrcvr_statistics", "netstat_detail", "netstat_stats",
     "panio_infreq", "cp_stats", "fabric_traffic_stats"}

----------------------------------------------------------------------------
(* The sections of panio, and of every block that has no reader.           *)

InSections(l) == l.is # "hdr" /\ c.block \notin Dedicated /\ Read(l)
InMode(mode, l) == InSections(l) /\ l.is \notin DOMAIN SectionOf /\ c.mode = mode

\* siLine.  The first line of the section counts too.
SiLine(l) ==
    CASE l.is = "siDiscard" -> Row("si", "timeout_discard", 0, l.vals, 4)
      [] l.is \in {"siStart", "siRow"} -> Row("si", l.name, 0, l.vals, 1)
      [] OTHER -> {}

\* Mistake: a section starts with the cores of the last one.
SectionLineKeepsCores(l) ==
    /\ InSections(l) /\ l.is \in DOMAIN SectionOf
    /\ c' = [c EXCEPT !.mode = SectionOf[l.is],
                      !.detName = IF l.is = "procusdHdr" THEN l.name ELSE @,
                      !.ruLabel = IF l.is = "ruSec" THEN "" ELSE @,
                      !.powThread = IF l.is = "vmpowStart" THEN 0 ELSE @]
    /\ Emit(IF l.is = "siStart" THEN SiLine(l) ELSE {})

\* A line that opens a section ends the one before.
SectionLine(l) ==
    /\ InSections(l) /\ l.is \in DOMAIN SectionOf
    /\ c' = [c EXCEPT !.mode = SectionOf[l.is],
                      !.coreIDs = IF l.is = "cpu15mSec" THEN <<>> ELSE @,
                      !.rowIdx = IF l.is = "cpu15mSec" THEN 0 ELSE @,
                      !.taskCols = IF l.is = "perTaskSec" THEN <<>> ELSE @,
                      !.detName = IF l.is = "procusdHdr" THEN l.name ELSE @,
                      !.ruLabel = IF l.is = "ruSec" THEN "" ELSE @,
                      !.powThread = IF l.is = "vmpowStart" THEN 0 ELSE @]
    /\ Emit(IF l.is = "siStart" THEN SiLine(l) ELSE {})

\* "Global-counter sections with a shorter elapsed time are incremental deltas".
GcElapsed(l) ==
    /\ InMode("gc-elapsed", l) /\ Emit({})
    /\ c' = IF l.is # "gcElapsed" THEN c
            ELSE [c EXCEPT !.mode = IF l.vals[1] >= GcMinElapsedSeconds THEN "gc" ELSE "gcskip"]

\* The load of the cores: one row for each minute, the most recent first.
Cpu15m(l) ==
    LET fits == l.is = "nums" /\ c.coreIDs # <<>> /\ Len(l.vals) = 2 * Len(c.coreIDs)
    IN
    /\ InMode("cpu15m", l)
    /\ c' = IF l.is = "coreHdr" THEN [c EXCEPT !.coreIDs = l.vals, !.rowIdx = 0]
            ELSE IF fits THEN [c EXCEPT !.rowIdx = @ + 1] ELSE c
    /\ Emit(IF fits
            THEN {SampleAt(c.ts - c.rowIdx, "cpu", <<"core">>, c.coreIDs[j], a, l.vals[2 * j - 2 + a]) :
                     j \in DOMAIN c.coreIDs, a \in {1, 2}}
            ELSE {})

\* The counters of each task; the last value of a row is their total.
PerTask(l) ==
    LET fits == l.is = "row" /\ c.taskCols # <<>> /\ Len(l.vals) = Len(c.taskCols) + 1
    IN
    /\ InMode("pertask", l)
    /\ c' = IF l.is = "perTaskHdr" THEN [c EXCEPT !.taskCols = l.vals] ELSE c
    /\ Emit(IF fits
            THEN {Sample("pertask", <<l.name>>, c.taskCols[j], 1, l.vals[j]) : j \in DOMAIN c.taskCols}
            ELSE {})

\* ruLine: one row of values for each label, the most recent minute first.
RuLine(l) ==
    LET values == c.ruLabel # "" /\ l.is = "nums"
    IN
    /\ InMode("ru", l)
    /\ c' = IF l.is = "ruLabel" THEN [c EXCEPT !.ruLabel = l.name]
            ELSE IF values THEN [c EXCEPT !.ruLabel = ""] ELSE c
    /\ Emit(IF values
            THEN {SampleAt(c.ts - (j - 1), "ru", <<c.ruLabel>>, 0, 1, l.vals[j]) : j \in DOMAIN l.vals}
            ELSE {})

\* vmpowLine: the io lines belong to the most recent thread.
VmpowLine(l) ==
    LET thread == IF l.is = "thread" THEN l.vals[1] ELSE c.powThread
    IN
    /\ InMode("vmpow", l)
    /\ c' = [c EXCEPT !.powThread = thread]
    /\ Emit(CASE l.is = "thread" /\ l.name # "" -> {Sample("vmpow", <<l.name>>, thread, 1, l.vals[2])}
              [] l.is = "ioWqe" -> Row("vmpow", "io_wqe", thread, l.vals, 2)
              [] l.is \in {"inflight", "usedWqe", "rcvThresh"} -> Row("vmpow", l.is, 0, l.vals, 3)
              [] OTHER -> {})

\* mempoolCols, sharedPoolCols, procusCols and procusdCols: the named columns.
MempoolCols == 10
SharedPoolCols == 9
ProcusCols == 8
ProcusdCols == 4

MempoolRow(l) == IF l.is = "row" THEN Row("mempool", l.name, 0, l.vals, MempoolCols) ELSE {}

SharedpoolRow(l) ==
    IF l.is = "row" THEN Row("sharedpool", l.name, 0, l.vals, SharedPoolCols) ELSE {}

\* softpoolRow, powpoolRow: what is free, and its share of the total in percent.
PoolRow(fam, l) ==
    LET free == l.vals[1]  total == l.vals[2]
    IN  {Sample(fam, <<l.name>>, 0, 1, free)} \cup
            (IF total = 0 THEN {} ELSE {Sample(fam, <<l.name>>, 0, 2, (100 * free) \div total)})

ProcusRow(fam, l) == IF l.is = "row" THEN Row(fam, l.name, 0, l.vals, ProcusCols) ELSE {}

\* A row of the table of one function, which the section's header names.
ProcusdRow(l) ==
    IF l.is = "nums" /\ Len(l.vals) >= 5
    THEN Row("procusd", c.detName, l.vals[1], Tail(l.vals), ProcusdCols) ELSE {}

\* The sections whose rows stand for themselves.
RowModes == {"gc", "cache", "mempool", "softpool", "powpool", "sharedpool",
             "procus_func", "procus_group", "procusd", "si", "gcskip", ""}

SectionRow(mode, l) ==
    CASE mode = "gc" /\ l.is = "row" /\ Len(l.vals) = 2 -> Row("gc", l.name, 0, l.vals, 1)
      [] mode = "cache" /\ l.is = "row" /\ Len(l.vals) = 6 -> Row("cache", l.name, 0, l.vals, 5)
      [] mode = "mempool" -> MempoolRow(l)
      [] mode = "sharedpool" -> SharedpoolRow(l)
      [] mode = "softpool" /\ l.is = "softRow" -> PoolRow("softpool", l)
      [] mode = "powpool" /\ l.is = "powRow" -> PoolRow("powpool", l)
      [] mode \in {"procus_func", "procus_group"} -> ProcusRow(mode, l)
      [] mode = "procusd" -> ProcusdRow(l)
      [] mode = "si" -> SiLine(l)
      [] OTHER -> {}

RowLine(l) ==
    \E mode \in RowModes : InMode(mode, l) /\ Emit(SectionRow(mode, l)) /\ UNCHANGED c

SectionsLine(l) ==
    \/ SectionLine(l) \/ GcElapsed(l) \/ Cpu15m(l) \/ PerTask(l) \/ RuLine(l)
    \/ VmpowLine(l) \/ RowLine(l)

----------------------------------------------------------------------------
(* CollectAllCounters.                                                     *)

Visiting == ~open /\ member < Len(Archive) /\ member' = member + 1

\* A member that is no monitor log is skipped.
SkipMember ==
    /\ Visiting /\ Archive[member + 1].file = "other"
    /\ UNCHANGED <<logs, c, out, open>>

\* Mistake: one collector for all logs.
OpenLogSameCollector ==
    /\ Visiting /\ Archive[member + 1].file # "other"
    /\ logs' = Append(logs, [path |-> Archive[member + 1], text |-> <<>>])
    /\ c' = [c EXCEPT !.plane = PlaneOf(Archive[member + 1])] /\ open' = TRUE
    /\ UNCHANGED out

\* collectMonitor: a collector for the next log.
OpenLog ==
    /\ Visiting /\ Archive[member + 1].file # "other"
    /\ logs' = Append(logs, [path |-> Archive[member + 1], text |-> <<>>])
    /\ c' = Collector(PlaneOf(Archive[member + 1])) /\ open' = TRUE
    /\ UNCHANGED out

\* Mistake: the last block of a log is not flushed.
CloseLogUnflushed == open /\ open' = FALSE /\ UNCHANGED <<member, logs, out, c>>

\* The log ends, also where its member breaks off: the last sums are flushed.
CloseLog ==
    /\ open /\ open' = FALSE
    /\ Emit(Flushed) /\ c' = [c EXCEPT !.nsAcc = <<>>]
    /\ UNCHANGED <<member, logs>>

CountersNext ==
    \/ SkipMember \/ OpenLog \/ CloseLog
    \/ \E l \in Readable : BlockHeader(l) \/ BlockLine(l) \/ SectionsLine(l)

CountersSpec == CountersInit /\ [][CountersNext]_counterVars

----------------------------------------------------------------------------
(* Properties.                                                             *)

\* The latest of some lines, or 0.
Latest(lines) == IF lines = {} THEN 0 ELSE CHOOSE j \in lines : \A x \in lines : x <= j

\* The lines of some shapes between two lines of a text; and the header of the
\* block that line k is in.
InText(t, from, k, shapes) == {j \in from+1..k-1 : t[j].is \in shapes}
LastText(t, from, k, shapes) == Latest(InText(t, from, k, shapes))
Start(t, k) == LastText(t, 0, k, {"hdr"})
Block(t, k) == IF Start(t, k) = 0 THEN "" ELSE t[Start(t, k)].name
InBlock(t, k, shapes) == LastText(t, Start(t, k), k, shapes)

\* The last time read at or before the header of the block of a line, or -1.
Dates(t, k) == {j \in 1..k-1 : t[j].is = "hdr" /\ t[j].vals # <<>>}
TimeBefore(t, k) == IF Dates(t, k) = {} THEN -1 ELSE t[Latest(Dates(t, k))].vals[1]

\* The time of sample s of a log with this path and text.
Dated(s, path, t) ==
    LET k == s.at[2]
        header == LastText(t, Start(t, k), k, {"coreHdr"})
        rows == {j \in InText(t, header, k, {"nums"}) : Len(t[j].vals) = Len(t[k].vals)}
        ago == IF s.fam = "cpu" /\ s.key = <<"core">> THEN {Cardinality(rows)}
               ELSE IF s.fam = "ru" THEN 0..Len(t[k].vals) - 1 ELSE {0}
    IN  /\ s.plane = PlaneOf(path)
        /\ TimeBefore(t, k) >= 0
        /\ TimeBefore(t, k) - s.ts \in ago

\* Every sample bears the plane of its own log and the time of its own block;
\* the rows of the minutes before it go back one minute each.  The rows a
\* rotated log starts with, before any header, give none.
SamplesDated ==
    \A s \in out : s.fam # "netstat_detail" =>
        Dated(s, logs[s.at[1]].path, logs[s.at[1]].text)

\* Where the samples of a family come from: the section of panio.
SectionOfFamily ==
    [gc |-> "gcSec", cpu |-> "cpu15mSec", pertask |-> "perTaskSec", cache |-> "cacheSec",
     mempool |-> "mempoolHdr", softpool |-> "softpoolHdr", powpool |-> "powpoolHdr",
     sharedpool |-> "sharedpoolHdr", procus_func |-> "procusFuncHdr",
     procus_group |-> "procusGroupHdr", procusd |-> "procusdHdr", ru |-> "ruSec",
     si |-> "siStart", vmpow |-> "vmpowStart"]

\* What a sample of panio is named after, in its own section: the gauge that says
\* the section is a full sample, the cores and tasks of the columns, the function,
\* the label, the thread.
OfSection(s, t) ==
    LET k == s.at[2]
        section == LastText(t, Start(t, k), k + 1, DOMAIN SectionOf)
        last(shapes) == LastText(t, section, k, shapes)
    IN  /\ section # 0 /\ t[section].is = SectionOfFamily[s.fam]
        /\ s.fam = "gc" =>
              \E g \in InText(t, section, k, {"gcElapsed"}) :
                 t[g].vals[1] >= GcMinElapsedSeconds /\ InText(t, section, g, {"gcElapsed"}) = {}
        /\ s.fam = "cpu" =>
              last({"coreHdr"}) # 0 /\ s.id \in Range(t[last({"coreHdr"})].vals)
        /\ s.fam = "pertask" =>
              last({"perTaskHdr"}) # 0 /\ s.id \in Range(t[last({"perTaskHdr"})].vals)
        /\ s.fam = "procusd" => s.key = <<t[section].name>>
        /\ s.fam = "ru" => /\ last({"ruLabel", "nums"}) \in InText(t, section, k, {"ruLabel"})
                           /\ last({"ruLabel"}) # 0
                           /\ s.key = <<t[last({"ruLabel"})].name>>
        /\ (s.fam = "vmpow" /\ t[k].is = "ioWqe") =>
              s.id = IF last({"thread"}) = 0 THEN 0 ELSE t[last({"thread"})].vals[1]

\* And in a block: the direction of an interface, the protocol, the vsys.
OfDirection(s, t) ==
    LET k == s.at[2]
        d == InBlock(t, k, {"rxtx", "bare", "iface"})  i == InBlock(t, k, {"iface"})
    IN  /\ d # 0 /\ t[d].is = "rxtx" /\ i # 0 /\ s.key = <<t[i].name, t[d].name>>
        /\ t[d].vals[1] = Len(t[k].vals)

OfProtocol(s, t) ==
    LET i == InBlock(t, s.at[2], {"section"}) IN i # 0 /\ s.key[1] = t[i].name

OfVsys(s, t) ==
    LET v == InBlock(t, s.at[2], {"vsys"})
    IN  s.id = IF v = 0 \/ t[v].vals[1] = 0 THEN 1 ELSE t[v].vals[1]

OfBlock(s, t) ==
    /\ (Block(t, s.at[2]) \notin Dedicated /\ s.fam # "netstat_detail") => OfSection(s, t)
    /\ s.fam = "ifconfig" => OfDirection(s, t)
    /\ s.fam = "nsstats" => OfProtocol(s, t)
    /\ s.fam = "appstats" => OfVsys(s, t)

\* The load that the first row of a cpu block gives.
FirstRow(s) == s.fam = "cpu" /\ s.key = <<"last_3m">>

\* What a sample is named after has been read in its own block and section, and
\* one row of a cpu block gives its load.
SamplesInContext ==
    \A s \in out :
        LET n == s.at[1]  t == logs[n].text
        IN  /\ OfBlock(s, t)
            /\ \A x \in out : (FirstRow(s) /\ FirstRow(x) /\ x.at[1] = n
                                 /\ Start(t, x.at[2]) = Start(t, s.at[2])) => x.at = s.at

\* How many more objects are opened than closed from line j on, before line k.
Depth(t, j, k) ==
    Cardinality(InText(t, j - 1, k, {"open"})) - Cardinality(InText(t, j - 1, k, {"close"}))

\* The objects of a cp_stats block that are open at line k.  An object is closed by
\* the first line after it up to which as many objects were closed as opened.
OpenText(t, k) ==
    {j \in InText(t, Start(t, k), k, {"open"}) : \A x \in j..k-1 : Depth(t, j, x + 1) > 0}

OfObjects(s, t) ==
    LET around == OpenText(t, s.at[2])  n == Cardinality(around)
    IN  s.fam = "cpstats" =>
          /\ around # {}
          /\ s.key = [p \in 1..n |-> IF p = n THEN t[s.at[2]].name
                                     ELSE t[Ascending(around)[p+1]].name]

\* "Names follow the nesting": a value of cp_stats is named after the objects
\* around it but the outermost one.
NamesFollowNesting == \A s \in out : OfObjects(s, logs[s.at[1]].text)

\* The sockets of one protocol and program between header h and line e of a text,
\* and what their queues add up to.
Named(t, h, e, name) == {j \in InText(t, h, e, {"sock"}) : t[j].name = name}
SumOver(t, lines, q) ==
    LET total[m \in 0..Len(t)] ==
            IF m = 0 THEN 0 ELSE total[m-1] + IF m \in lines THEN t[m].vals[q] ELSE 0
    IN  total[Len(t)]

\* The block of header h ends before line e: at the next header, or where the text
\* ends if there is no more of it to come.
Ends(t, h, e, closed) ==
    /\ t[h].is = "hdr" /\ Start(t, e) = h
    /\ IF e <= Len(t) THEN t[e].is = "hdr" ELSE closed
NetstatBlocks(t, closed) ==
    {b \in (1..Len(t)) \X (1..Len(t)+1) :
        t[b[1]].name = "netstat_detail" /\ Ends(t, b[1], b[2], closed) /\ TimeBefore(t, b[2]) >= 0}

\* The sums of a block, and what is said of a sample next to them.
SumOf(t, h, e, name, q) ==
    [key |-> <<name>>, col |-> q, ts |-> TimeBefore(t, e), at |-> e,
     v |-> SumOver(t, Named(t, h, e, name), q)]
SumsOf(t, h, e) ==
    {SumOf(t, h, e, t[j].name, q) : j \in InText(t, h, e, {"sock"}), q \in {1, 2}}
Given(s) == [key |-> s.key, col |-> s.col, ts |-> s.ts, at |-> s.at[2], v |-> s.v]

\* "Multiple sockets of the same proto+program are summed and flushed at the end
\* of the block": exactly once, at the time of that block, whatever ended it.
NetstatFlushed ==
    \A n \in DOMAIN logs :
        LET t == logs[n].text  closed == n < Len(logs) \/ ~open
        IN  {Given(s) : s \in {x \in out : x.fam = "netstat_detail" /\ x.at[1] = n}}
               = UNION {SumsOf(t, b[1], b[2]) : b \in NetstatBlocks(t, closed)}

=============================================================================
