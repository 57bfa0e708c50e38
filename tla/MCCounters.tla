----------------------------- MODULE MCCounters -----------------------------
(***************************************************************************)
(* Instances of Counters and Memory for TLC: monitor logs over a few kinds *)
(* of lines; logs with traces of the OOM killer, and a few counters of the *)
(* memory.  The two machines do not meet.                                  *)
(***************************************************************************)
EXTENDS Counters, Memory

L(is, name, vals) == [is |-> is, name |-> name, vals |-> vals]
Hdr(block, ts) == L("hdr", block, <<ts>>)
Undated(block) == L("hdr", block, <<>>)
Opener(is) == L(is, "", <<>>)

\* The sections of panio: each with its rows and a section that could take them.
Gc == {Opener("gcSec"), Opener("gcEnd"), L("gcElapsed", "", <<60>>), L("gcElapsed", "", <<120>>),
       L("row", "drop", <<5, 1>>), Hdr("panio", 100), Opener("mempoolHdr")}
Cores == {Opener("cpu15mSec"), L("coreHdr", "", <<0>>), L("coreHdr", "", <<1, 2>>), L("nums", "", <<7, 9>>),
          Hdr("panio", 100), Undated("panio"), Opener("procusdHdr")}
Tasks == {Opener("perTaskSec"), L("perTaskHdr", "", <<1>>), L("row", "drop", <<5, 6>>),
          Opener("procusFuncHdr"), Hdr("panio", 100), Hdr("panio", 103)}
Usage == {Opener("ruSec"), L("ruLabel", "session_avg", <<>>), L("ruLabel", "pktbuf_max", <<>>),
          L("nums", "", <<3, 4>>), Opener("cpu15mSec"), Hdr("panio", 100)}
Pow == {Opener("vmpowStart"), L("thread", "deq", <<1, 8>>), L("thread", "", <<2>>), L("ioWqe", "", <<3, 0>>),
        L("inflight", "", <<1>>), Hdr("panio", 100)}
Pools == {Opener("softpoolHdr"), Opener("powpoolHdr"), L("softRow", "work", <<1, 2>>), L("powRow", "wqe", <<0, 0>>),
          Hdr("panio", 100)}
Caches == {Opener("cacheSec"), Opener("sharedpoolHdr"), Opener("procusGroupHdr"),
           L("row", "a", <<1, 2, 3, 4, 5, 6>>), Hdr("panio", 100)}
Sessions == {L("procusdHdr", "flow", <<>>), L("nums", "", <<1, 2, 3, 4, 5>>), L("siStart", "supported", <<9>>),
             L("siRow", "tcp", <<2>>), L("siDiscard", "", <<1, 2, 3, 4>>), Hdr("panio", 100)}

\* Blocks with a reader of their own.
Netstat == {Hdr("netstat_detail", 100), Hdr("netstat_detail", 101), Hdr("panio", 102), Undated("netstat_detail"),
            L("sock", "tcp_sshd", <<1, 2>>), L("sock", "udp_ntpd", <<0, 3>>)}
Nested == {Hdr("cp_stats", 100), L("open", "platform", <<>>), L("open", "netmsg", <<>>), L("close", "", <<>>),
           L("leaf", "acl", <<0>>)}
Ifconfig == {Hdr("ifconfig", 100), L("iface", "eth0", <<>>), L("iface", "lo", <<>>), L("rxtx", "rx", <<2>>),
             L("rxtx", "tx", <<2>>), L("bare", "", <<1, 2>>), L("bare", "", <<3>>)}
Cpu == {Hdr("cpu", 100), L("loadAvg", "", <<>>), L("bare", "", <<17, 24>>), L("bare", "", <<1, 2, 3>>)}
Stats == {Hdr("netstat_stats", 100), L("section", "ip", <<>>), L("section", "tcp", <<>>),
          L("label", "forwarded", <<1>>)}
Apps == {Hdr("panio_infreq", 100), L("vsys", "", <<2>>), L("vsys", "", <<3>>), L("appRow", "web", <<1, 2, 3, 4, 5>>)}
Logs == {Hdr("logrcvr_statistics", 100), L("label", "total_mb", <<1>>), L("label", "traffic_logs_written", <<2>>),
         L("label", "logs", <<3>>)}
Fabric == {Hdr("fabric_traffic_stats", 100), L("text", "", <<>>), Hdr("panio", 101), L("siStart", "supported", <<9>>)}
MemRows == {Hdr("memory", 100), Hdr("memory_detail", 101), L("memRow", "", <<1, 2, 3, 4>>),
            L("swapRow", "", <<1, 2, 3>>), L("keyRow", "slab", <<5>>)}
Disks == {Hdr("slabinfo", 100), Hdr("filesystem", 101), L("slabRow", "kmalloc", <<2, 3, 96>>),
          L("fsRow", "root", <<50, 1000>>)}
ProcTables == {Hdr("processes", 100), Hdr("top", 101), L("procTotal", "", <<7>>), L("procTotals", "", <<1, 2, 3, 4, 5>>),
               L("procRow", "sshd", <<12, 1, 2, 3, 4>>), L("topRow", "sshd", <<12, 1, 2, 3, 4, 5, 6, 7>>),
               L("topPairs", "tasks", <<1, 2>>)}

MCAlphabets == {Gc, Cores, Tasks, Usage, Pow, Pools, Caches, Sessions, Netstat, Nested, Ifconfig, Cpu, Stats,
                Apps, Logs, Fabric, MemRows, Disks, ProcTables}

\* A data plane, a member that is no log, and the control plane of a slot.
MCArchive == <<[slot |-> "", dir |-> "dp0", file |-> "dp"], [slot |-> "", dir |-> "", file |-> "other"],
               [slot |-> "s1", dir |-> "cp", file |-> "cp"]>>

----------------------------------------------------------------------------
(* Traces of the OOM killer, and the memory of processes.                  *)

Trace(says, at) == [says |-> says, at |-> at]
Traces ==
    {Trace("invoked", 0), Trace("invoked", 2), Trace("killed", 1), Trace("killed", 0), Trace("other", 3)}
LogFile(scanned, text) == [scanned |-> scanned, lines |-> text]
TracesUpTo(n) == UNION {[1..k -> Traces] : k \in 0..n}

NoCounters ==
    [files |-> <<>>, avail |-> <<<<>>, <<>>, <<>>>>, procs |-> <<>>, slab |-> <<>>,
     totalMB |-> 0, mergespMB |-> -1]
Killings ==
    {[NoCounters EXCEPT !.files = <<LogFile(TRUE, t), LogFile(seen, u)>>] :
        t \in TracesUpTo(3), u \in TracesUpTo(1), seen \in BOOLEAN}

\* Points, one at a time; the last of them may come earlier.
Points(times, values) == [k \in DOMAIN values |-> [at |-> times[k], kb |-> values[k]]]
SeriesOfProc(p, pid, pts) == [proc |-> p, pid |-> pid, pts |-> pts]
Held == {10, 20, 50}

\* A process with three readings; or one that another PID takes over from, or runs
\* beside; and a second process.
OldRuns == {Points(<<1, 2, 3>>, v) : v \in [1..3 -> Held]}
NewRuns == {Points(<<4, 5>>, v) : v \in [1..2 -> Held]} \cup {Points(<<2, 3>>, v) : v \in [1..2 -> Held]}
SecondRuns == {Points(<<1, 3>>, v) : v \in {<<20, 20>>, <<10, 20>>, <<10, 50>>}}
Processes ==
    {<<SeriesOfProc(1, 1, a), SeriesOfProc(2, 2, b)>> : a \in OldRuns, b \in SecondRuns}
        \cup {<<SeriesOfProc(1, 1, a), SeriesOfProc(1, 3, b), SeriesOfProc(2, 2, d)>> :
                 a \in OldRuns, b \in NewRuns, d \in SecondRuns}
        \cup {<<SeriesOfProc(1, 1, a), SeriesOfProc(2, 2, b), SeriesOfProc(3, 3, b)>> :
                 a \in OldRuns, b \in SecondRuns}

Down == Points(<<1, 3>>, <<90, 10>>)
Declines ==
    {<<Down, <<>>, <<>>>>, <<Points(<<1>>, <<90>>), Points(<<1, 3>>, <<9000, 10>>), Down>>,
     <<<<>>, <<>>, Points(<<1, 3>>, <<90, 89>>)>>, <<<<>>, <<>>, <<>>>>,
     <<Points(<<1, 3>>, <<50, 50>>), <<>>, <<>>>>}
Slabs == {<<Points(<<1, 3>>, <<10, 20>>), Points(<<1>>, <<10>>)>>, <<>>}
Sizes == {<<0, -1>>, <<8192, -1>>, <<8192, 27>>, <<16384, 27>>, <<8192, 26>>}

MCSystems ==
    {NoCounters} \cup Killings
        \cup {[NoCounters EXCEPT !.procs = p, !.avail = a, !.slab = s] :
                 p \in Processes, a \in Declines, s \in Slabs}
        \cup {[NoCounters EXCEPT !.totalMB = s[1], !.mergespMB = s[2]] : s \in Sizes}

MCInit == CountersInit /\ MemoryInit
MCNext ==
    \/ system = NoCounters /\ file = 1 /\ ~sorted /\ CountersNext /\ UNCHANGED memoryVars
    \/ member = 0 /\ MemoryNext /\ UNCHANGED counterVars
MCSpec == MCInit /\ [][MCNext]_<<counterVars, memoryVars>>

=============================================================================
