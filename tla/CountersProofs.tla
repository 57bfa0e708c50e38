--------------------------- MODULE CountersProofs ---------------------------
(***************************************************************************)
(* Theorems about the counters and what is concluded from them, for every  *)
(* archive of monitor logs and any lines: a sample has the time, the plane *)
(* and the names of its own block, and the sums of a block come out once.  *)
(* An OOM incident is found once, and the blame for it follows from the    *)
(* evidence, whatever the number of suspects (Memory).                     *)
(***************************************************************************)
EXTENDS Counters, Memory, SelectionProofs

----------------------------------------------------------------------------
(* What a text says before line k.                                         *)

\* The header of the section that line k is in.
Section(t, k) == LastText(t, Start(t, k), k, DOMAIN SectionOf)

----------------------------------------------------------------------------
(* What the collector knows of a text before line e.                       *)

CollectorFields == DOMAIN Collector(<<>>)

\* The time, the block and the section.
Framed(x, t, e) ==
    LET s == Section(t, e) IN
    /\ DOMAIN x = CollectorFields
    /\ x.haveTs \in BOOLEAN /\ x.ts \in Nat /\ x.rowIdx \in Nat
    /\ x.haveTs <=> TimeBefore(t, e) # -1
    /\ x.haveTs => x.ts = TimeBefore(t, e)
    /\ x.block = Block(t, e)
    /\ x.block \notin Dedicated =>
          IF s = 0 THEN x.mode = ""
          ELSE IF t[s].is # "gcSec" THEN x.mode = SectionOf[t[s].is]
          ELSE IF InText(t, s, e, {"gcElapsed"}) = {} THEN x.mode = "gc-elapsed"
          ELSE x.mode \in {"gc", "gcskip"}

\* The last line of some shapes in the section of line k.
InSection(t, k, shapes) == LastText(t, Section(t, k), k, shapes)

\* The sections of panio: the gauge, the columns, the function, the label, the thread.
GaugeRead(x, t, e) ==
    LET s == Section(t, e) IN
    x.mode = "gc" =>
        \E g \in InText(t, s, e, {"gcElapsed"}) :
            t[g].vals[1] >= GcMinElapsedSeconds /\ InText(t, s, g, {"gcElapsed"}) = {}

\* The rows of minutes below the columns of some cores.
MinutesRead(t, from, k, cores) ==
    {j \in InText(t, from, k, {"nums"}) : Len(t[j].vals) = 2 * cores}

CoresRead(x, t, e) ==
    LET h == InSection(t, e, {"coreHdr"}) IN
    (x.mode = "cpu15m" /\ x.coreIDs # <<>>) =>
        /\ h # 0 /\ x.coreIDs = t[h].vals
        /\ x.rowIdx = Cardinality(MinutesRead(t, h, e, Len(x.coreIDs)))

TasksRead(x, t, e) ==
    LET h == InSection(t, e, {"perTaskHdr"}) IN
    (x.mode = "pertask" /\ x.taskCols # <<>>) => h # 0 /\ x.taskCols = t[h].vals

FunctionRead(x, t, e) == x.mode = "procusd" => x.detName = t[Section(t, e)].name

LabelRead(x, t, e) ==
    LET h == InSection(t, e, {"ruLabel", "nums"}) IN
    (x.mode = "ru" /\ x.ruLabel # "") =>
        /\ h \in InText(t, Section(t, e), e, {"ruLabel"})
        /\ InSection(t, e, {"ruLabel"}) = h
        /\ x.ruLabel = t[h].name

ThreadRead(x, t, e) ==
    LET h == InSection(t, e, {"thread"}) IN
    x.mode = "vmpow" => x.powThread = IF h = 0 THEN 0 ELSE t[h].vals[1]

InPanio(x, t, e) ==
    /\ GaugeRead(x, t, e) /\ CoresRead(x, t, e) /\ TasksRead(x, t, e)
    /\ FunctionRead(x, t, e) /\ LabelRead(x, t, e) /\ ThreadRead(x, t, e)

\* A block with a reader of its own.
InIfconfig(x, t, e) ==
    LET i == InBlock(t, e, {"iface"})
        d == InBlock(t, e, {"rxtx", "bare", "iface"})
    IN
    /\ x.curIface # "" => i # 0 /\ t[i].name = x.curIface
    /\ x.rxtxDir # "" =>
          /\ x.curIface # "" /\ d # 0 /\ t[d].is = "rxtx"
          /\ x.rxtxDir = t[d].name /\ x.rxtxCols = t[d].vals[1]

InStats(x, t, e) ==
    LET i == InBlock(t, e, {"section"})
    IN  x.nsSection # "" => i # 0 /\ x.nsSection = t[i].name

InApps(x, t, e) ==
    LET v == InBlock(t, e, {"vsys"})
    IN  x.appVsys = IF v = 0 THEN 0 ELSE t[v].vals[1]

\* The open objects, outermost first; each is as deep as there are open ones from it on.
InObjects(x, t, e) ==
    LET o == OpenText(t, e)  at == Ascending(o)  m == Cardinality(o) IN
    /\ x.cpsPath \in Seq(STRING) /\ Len(x.cpsPath) = m
    /\ \A p \in 1..m : x.cpsPath[p] = t[at[p]].name /\ Depth(t, at[p], e) = m - p + 1

Collected(x, t, e) ==
    /\ Framed(x, t, e)
    /\ x.block \notin Dedicated => InPanio(x, t, e)
    /\ x.block = "ifconfig" => InIfconfig(x, t, e)
    /\ x.block = "netstat_stats" => InStats(x, t, e)
    /\ x.block = "panio_infreq" => InApps(x, t, e)
    /\ x.block = "cp_stats" => InObjects(x, t, e)

----------------------------------------------------------------------------
(* The invariants.                                                         *)

\* What is said of a sample, by the path and the text of its log.
Good(s, path, t) == s.fam # "netstat_detail" => Dated(s, path, t) /\ OfBlock(s, t) /\ OfObjects(s, t)

Log == [path : Path, text : Seq(Line)]

CounterTypes ==
    /\ member \in Nat /\ open \in BOOLEAN /\ logs \in Seq(Log)
    /\ open => logs # <<>>

\* The collector of an open log knows its text, and bears its plane.
CollectorInv ==
    open => /\ Collected(c, logs[Len(logs)].text, Len(logs[Len(logs)].text) + 1)
            /\ c.plane = PlaneOf(logs[Len(logs)].path)

\* Every sample but the sums is of a line that was read.
SamplesInv ==
    \A s \in out : \E n \in 1..Len(logs) : \E k \in 1..Len(logs[n].text) + 1 :
        /\ s.at = <<n, k>>
        /\ s.fam # "netstat_detail" => k <= Len(logs[n].text)
        /\ Good(s, logs[n].path, logs[n].text)

\* One row of a cpu block gives its load.
FirstRowInv ==
    /\ \A s, x \in out : FirstRow(s) /\ FirstRow(x) /\ s.at[1] = x.at[1]
          /\ Start(logs[s.at[1]].text, s.at[2]) = Start(logs[s.at[1]].text, x.at[2]) => s.at = x.at
    /\ open /\ c.block = "cpu" /\ ~c.cpuDone =>
          LET n == Len(logs)  t == logs[n].text
          IN  \A s \in out : FirstRow(s) /\ s.at[1] = n => Start(t, s.at[2]) # Start(t, Len(t) + 1)

----------------------------------------------------------------------------
(* Reading a text line by line.                                            *)

LEMMA LatestIs ==
    ASSUME NEW m \in Nat, NEW T \in SUBSET (1..m)
    PROVE  /\ T = {} => Latest(T) = 0
           /\ T # {} => Latest(T) \in T /\ \A x \in T : x <= Latest(T)
           /\ Latest(T) \in 0..m
<1>1. CASE T = {}
  BY <1>1 DEF Latest
<1>2. CASE T # {}
  <2> DEFINE U == {k \in Nat : \E x \in T : k = m - x}
  <2>1. U \in SUBSET Nat /\ U # {}
    <3>1. PICK x \in T : TRUE
      BY <1>2
    <3>2. m - x \in Nat
      OBVIOUS
    <3>3. m - x \in U
      BY <3>2
    <3> QED BY <3>3
  <2>2. PICK k \in U : \A y \in U : k <= y
    <3> HIDE DEF U
    <3> QED BY <2>1, LeastNumber
  <2>3. PICK x \in T : k = m - x
    OBVIOUS
  <2>4. ASSUME NEW y \in T
        PROVE  y <= x
    <3>1. m - y \in Nat /\ x \in Nat /\ y \in Nat
      OBVIOUS
    <3>2. m - y \in U
      BY <3>1
    <3>3. m - x <= m - y
      <4> HIDE DEF U
      <4> QED BY <2>2, <2>3, <3>2
    <3> QED BY <3>1, <3>3
  <2>5. Latest(T) = CHOOSE j \in T : \A y \in T : y <= j
    BY <1>2 DEF Latest
  <2>6. Latest(T) \in T /\ \A y \in T : y <= Latest(T)
    <3> HIDE DEF U
    <3> QED BY <2>4, <2>5
  <2> HIDE DEF U
  <2>7. Latest(T) \in 1..m
    BY <2>6
  <2> QED BY <1>2, <2>6, <2>7
<1> QED BY <1>1, <1>2

LEMMA LatestOf ==
    ASSUME NEW m \in Nat, NEW T \in SUBSET (1..m), NEW x \in T, \A y \in T : y <= x
    PROVE  Latest(T) = x
<1>1. Latest(T) \in T /\ x <= Latest(T)
  BY LatestIs
<1>2. \A y \in T : y \in Nat
  OBVIOUS
<1> DEFINE z == Latest(T)
<1>3. z \in T /\ x <= z
  BY <1>1
<1> HIDE DEF z
<1>4. z <= x /\ x \in Nat /\ z \in Nat
  BY <1>2, <1>3
<1>5. z = x
  BY <1>3, <1>4
<1> QED BY <1>5 DEF z

LEMMA InTextIs ==
    ASSUME NEW t, NEW from \in Nat, NEW k \in Nat \ {0}, NEW S
    PROVE  /\ InText(t, from, k, S) \in SUBSET (from+1..k-1)
           /\ InText(t, from, k, S) \in SUBSET (1..k-1) /\ k - 1 \in Nat
           /\ IsFiniteSet(InText(t, from, k, S)) /\ Cardinality(InText(t, from, k, S)) \in Nat
           /\ LastText(t, from, k, S) \in 0..k-1
           /\ LastText(t, from, k, S) # 0 =>
                 /\ LastText(t, from, k, S) \in InText(t, from, k, S)
                 /\ LastText(t, from, k, S) \in from+1..k-1
                 /\ t[LastText(t, from, k, S)].is \in S
           /\ \A j \in InText(t, from, k, S) : j <= LastText(t, from, k, S)
           /\ LastText(t, from, k, S) = 0 <=> InText(t, from, k, S) = {}
<1> DEFINE T == InText(t, from, k, S)
<1>1. T \in SUBSET (from+1..k-1) /\ \A j \in T : t[j].is \in S
  BY DEF InText
<1>2. T \in SUBSET (1..k-1) /\ k - 1 \in Nat
  BY <1>1
<1> HIDE DEF T
<1>3. IsFiniteSet(T) /\ Cardinality(T) \in 0..k-1
  BY <1>2, Bounded
<1>4. /\ T = {} => Latest(T) = 0
      /\ T # {} => Latest(T) \in T /\ \A x \in T : x <= Latest(T)
      /\ Latest(T) \in 0..k-1
  BY <1>2, LatestIs
<1>5. LastText(t, from, k, S) = Latest(T)
  BY DEF LastText, T
<1>6. T # {} => Latest(T) # 0
  BY <1>2, <1>4
<1>7. Cardinality(T) \in Nat
  BY <1>2, <1>3
<1> QED BY <1>1, <1>2, <1>3, <1>4, <1>5, <1>6, <1>7 DEF T

\* The same behind line m.
LEMMA BehindIs ==
    ASSUME NEW t, NEW from \in Nat, NEW m \in Nat, NEW S
    PROVE  /\ InText(t, from, m+1, S) \in SUBSET (from+1..m)
           /\ InText(t, from, m+1, S) \in SUBSET (1..m)
           /\ IsFiniteSet(InText(t, from, m+1, S)) /\ Cardinality(InText(t, from, m+1, S)) \in Nat
           /\ LastText(t, from, m+1, S) \in 0..m
           /\ LastText(t, from, m+1, S) # 0 =>
                 /\ LastText(t, from, m+1, S) \in InText(t, from, m+1, S)
                 /\ LastText(t, from, m+1, S) \in from+1..m
                 /\ t[LastText(t, from, m+1, S)].is \in S
           /\ \A j \in InText(t, from, m+1, S) : j <= LastText(t, from, m+1, S)
           /\ LastText(t, from, m+1, S) = 0 <=> InText(t, from, m+1, S) = {}
<1> DEFINE k == m+1
<1>1. k \in Nat \ {0} /\ k - 1 = m
  OBVIOUS
<1> HIDE DEF k
<1>2. /\ InText(t, from, k, S) \in SUBSET (from+1..k-1)
      /\ InText(t, from, k, S) \in SUBSET (1..k-1)
      /\ LastText(t, from, k, S) \in 0..k-1
      /\ LastText(t, from, k, S) # 0 =>
            /\ LastText(t, from, k, S) \in InText(t, from, k, S)
            /\ LastText(t, from, k, S) \in from+1..k-1
            /\ t[LastText(t, from, k, S)].is \in S
  BY <1>1, InTextIs
<1>3. /\ IsFiniteSet(InText(t, from, k, S)) /\ Cardinality(InText(t, from, k, S)) \in Nat
      /\ \A j \in InText(t, from, k, S) : j <= LastText(t, from, k, S)
      /\ LastText(t, from, k, S) = 0 <=> InText(t, from, k, S) = {}
  BY <1>1, InTextIs
<1>4. /\ InText(t, from, k, S) \in SUBSET (from+1..m)
      /\ InText(t, from, k, S) \in SUBSET (1..m)
      /\ LastText(t, from, k, S) \in 0..m
      /\ LastText(t, from, k, S) # 0 =>
            /\ LastText(t, from, k, S) \in InText(t, from, k, S)
            /\ LastText(t, from, k, S) \in from+1..m
            /\ t[LastText(t, from, k, S)].is \in S
  BY <1>1, <1>2
<1> QED BY <1>3, <1>4 DEF k

\* u is the text t of n lines and one line more.
Longer(u, t, l, n) == t \in Seq(Line) /\ l \in Line /\ n = Len(t) /\ u = Append(t, l)

LEMMA LongerIs ==
    ASSUME NEW u, NEW t, NEW l, NEW n, Longer(u, t, l, n)
    PROVE  /\ n \in Nat /\ Len(t) = n /\ Len(u) = n+1 /\ u \in Seq(Line) /\ t \in Seq(Line)
           /\ u[n+1] = l /\ l \in Line
           /\ \A j \in 1..n : u[j] = t[j] /\ t[j] \in Line
<1>1. \A j \in 1..Len(t) : Longer(u, t, l, n) => t[j] \in Line
  BY ElementOfSeq DEF Longer
<1> QED BY <1>1 DEF Longer

\* A line more, seen from a line before it.
LEMMA OneMoreBefore ==
    ASSUME NEW u, NEW t, NEW l, NEW n, Longer(u, t, l, n),
           NEW from \in Nat, NEW k \in 1..n+1, NEW S
    PROVE  /\ InText(u, from, k, S) = InText(t, from, k, S)
           /\ LastText(u, from, k, S) = LastText(t, from, k, S)
<1>1. \A j \in from+1..k-1 : j \in 1..n
  BY LongerIs
<1>2. \A j \in 1..n : u[j] = t[j]
  BY LongerIs
<1>3. InText(u, from, k, S) = InText(t, from, k, S)
  BY <1>1, <1>2 DEF InText
<1> QED BY <1>3 DEF LastText

\* A line more, seen from behind it.
LEMMA OneMore ==
    ASSUME NEW u, NEW t, NEW l, NEW n, Longer(u, t, l, n), NEW from \in 0..n, NEW S
    PROVE  /\ n \in Nat /\ u[n+1] = l /\ \A j \in 1..n : u[j] = t[j]
           /\ InText(u, from, n+2, S) = InText(t, from, n+1, S) \cup (IF l.is \in S THEN {n+1} ELSE {})
           /\ LastText(u, from, n+2, S) = IF l.is \in S THEN n+1 ELSE LastText(t, from, n+1, S)
           /\ n+1 \notin InText(t, from, n+1, S)
<1>1. n \in Nat /\ u[n+1] = l /\ \A j \in 1..n : u[j] = t[j]
  BY LongerIs
<1> DEFINE T == InText(t, from, n+1, S)
           V == InText(u, from, n+2, S)
<1>2. \A j : j \in from+1..n+1 <=> (j \in from+1..n \/ j = n+1)
  BY <1>1
<1>3. n + 2 - 1 = n + 1 /\ n + 1 - 1 = n /\ \A j \in from+1..n : j \in 1..n /\ j # n+1
  BY <1>1
<1>4. /\ \A j : j \in V <=> j \in from+1..n+1 /\ u[j].is \in S
      /\ \A j : j \in T <=> j \in from+1..n /\ t[j].is \in S
  <2>1. /\ \A j : j \in V <=> j \in from+1..(n+2)-1 /\ u[j].is \in S
        /\ \A j : j \in T <=> j \in from+1..(n+1)-1 /\ t[j].is \in S
    BY DEF InText
  <2>2. from+1..(n+2)-1 = from+1..n+1 /\ from+1..(n+1)-1 = from+1..n
    BY <1>1
  <2> HIDE DEF V, T
  <2> QED BY <2>1, <2>2
<1>5. \A j : j \in V <=> (j \in T \/ (j = n+1 /\ l.is \in S))
  BY <1>1, <1>2, <1>3, <1>4
<1>6. V = T \cup (IF l.is \in S THEN {n+1} ELSE {})
  BY <1>5
<1>7. n+1 \notin T
  BY <1>3, <1>4
<1> HIDE DEF V, T
<1>8. CASE l.is \in S
  <2>1. V \in SUBSET (1..n+1) /\ n+1 \in Nat /\ n+1 \in V /\ \A y \in V : y <= n+1
    BY <1>1, <1>3, <1>4, <1>6, <1>8
  <2>2. Latest(V) = n+1
    BY <2>1, LatestOf
  <2> QED BY <1>1, <1>6, <1>7, <1>8, <2>2 DEF LastText, V, T
<1>9. CASE l.is \notin S
  <2>1. V = T
    BY <1>6, <1>9
  <2> QED BY <1>1, <1>6, <1>7, <1>9, <2>1 DEF LastText, V, T
<1> QED BY <1>8, <1>9

\* Behind the line itself nothing is read.
LEMMA NothingRead ==
    ASSUME NEW t, NEW n \in Nat, NEW S
    PROVE  InText(t, n+1, n+2, S) = {} /\ LastText(t, n+1, n+2, S) = 0
<1>1. InText(t, n+1, n+2, S) = {}
  BY DEF InText
<1> QED BY <1>1 DEF LastText, Latest

\* The last line of a kind, looked for from a line of it that comes before.
LEMMA LastFromLater ==
    ASSUME NEW t, NEW b \in Nat, NEW s \in Nat, b <= s, NEW k \in Nat \ {0}, NEW S,
           LastText(t, s, k, S) # 0
    PROVE  LastText(t, b, k, S) = LastText(t, s, k, S)
<1> DEFINE T == InText(t, b, k, S)
           x == LastText(t, s, k, S)
<1>1. x \in InText(t, s, k, S) /\ \A j \in InText(t, s, k, S) : j <= x
  BY InTextIs
<1>2. T \in SUBSET (1..k-1) /\ k - 1 \in Nat
  BY InTextIs
<1>3. x \in T
  BY <1>1 DEF InText
<1>4. ASSUME NEW j \in T
      PROVE  j <= x
  <2>1. j \in b+1..k-1 /\ t[j].is \in S
    BY DEF InText
  <2>2. CASE j > s
    <3>1. j \in InText(t, s, k, S)
      BY <2>1, <2>2 DEF InText
    <3> QED BY <1>1, <3>1
  <2>3. CASE j <= s
    <3>1. x \in s+1..k-1
      BY <1>1, InTextIs
    <3> QED BY <2>1, <2>3, <3>1
  <2> QED BY <2>1, <2>2, <2>3
<1> HIDE DEF T, x
<1>5. Latest(T) = x
  BY <1>2, <1>3, <1>4, LatestOf
<1> QED BY <1>5 DEF LastText, T, x

LEMMA StartIs ==
    ASSUME NEW t, NEW k \in Nat \ {0}
    PROVE  Start(t, k) \in 0..k-1 /\ Start(t, k) \in Nat
<1>1. LastText(t, 0, k, {"hdr"}) \in 0..k-1
  BY InTextIs
<1> QED BY <1>1 DEF Start

LEMMA TimeIs ==
    ASSUME NEW t \in Seq(Line), NEW k \in 1..Len(t)+1
    PROVE  /\ TimeBefore(t, k) = -1 \/ TimeBefore(t, k) \in Nat
           /\ Dates(t, k) \in SUBSET (1..k-1)
           /\ Dates(t, k) # {} => TimeBefore(t, k) = t[Latest(Dates(t, k))].vals[1]
                                  /\ TimeBefore(t, k) \in Nat
           /\ Dates(t, k) = {} => TimeBefore(t, k) = -1
<1> DEFINE D == Dates(t, k)
           d == Latest(D)
<1>1. D \in SUBSET (1..k-1) /\ \A j \in D : t[j].vals # <<>>
  BY DEF Dates
<1>2. \A j \in 1..k-1 : t[j] \in Line
  <2>1. \A j \in 1..k-1 : j \in 1..Len(t)
    OBVIOUS
  <2> QED BY <2>1, ElementOfSeq
<1>3. ASSUME D # {}
      PROVE  t[d].vals[1] \in Nat
  <2>1. d \in D
    <3>1. k - 1 \in Nat
      OBVIOUS
    <3> HIDE DEF D
    <3> QED BY <1>1, <1>3, <3>1, LatestIs
  <2>2. t[d].vals \in Seq(Nat) /\ t[d].vals # <<>>
    <3> HIDE DEF D, d
    <3>1. t[d] \in Line /\ t[d].vals # <<>>
      BY <1>1, <1>2, <2>1
    <3> QED BY <3>1 DEF Line
  <2> HIDE DEF d
  <2> QED BY <2>2
<1> QED BY <1>1, <1>3 DEF TimeBefore

\* What is said of a line stays as it is.
LEMMA FrameBefore ==
    ASSUME NEW u, NEW t, NEW l, NEW n, Longer(u, t, l, n), NEW k \in 1..n+1
    PROVE  /\ Start(u, k) = Start(t, k) /\ Start(t, k) \in 0..k-1
           /\ Block(u, k) = Block(t, k)
           /\ TimeBefore(u, k) = TimeBefore(t, k)
<1>1. Start(u, k) = Start(t, k)
  <2>1. LastText(u, 0, k, {"hdr"}) = LastText(t, 0, k, {"hdr"})
    BY OneMoreBefore
  <2> QED BY <2>1 DEF Start
<1>2. Start(t, k) \in 0..k-1
  <2>1. k \in Nat \ {0}
    BY LongerIs
  <2> QED BY <2>1, StartIs
<1>0. n \in Nat
  BY LongerIs
<1>3. \A j \in 1..n : u[j] = t[j]
  BY LongerIs
<1>4. \A j \in 1..k-1 : j \in 1..n
  BY <1>0
<1>5. Block(u, k) = Block(t, k)
  <2>1. Start(t, k) # 0 => Start(t, k) \in 1..k-1
    BY <1>2
  <2> QED BY <1>1, <1>3, <1>4, <2>1 DEF Block
<1>6. Dates(u, k) = Dates(t, k) /\ Dates(t, k) \in SUBSET (1..k-1) /\ k - 1 \in Nat
  BY <1>3, <1>4 DEF Dates
<1>7. TimeBefore(u, k) = TimeBefore(t, k)
  <2>1. Dates(t, k) # {} => Latest(Dates(t, k)) \in 1..n
    BY <1>4, <1>6, LatestIs
  <2> QED BY <1>3, <1>6, <2>1 DEF TimeBefore
<1> QED BY <1>1, <1>2, <1>5, <1>7

\* A line that is no header.
LEMMA FrameLine ==
    ASSUME NEW u, NEW t, NEW l, NEW n, Longer(u, t, l, n), l.is # "hdr"
    PROVE  /\ Start(u, n+2) = Start(t, n+1) /\ Start(t, n+1) \in 0..n
           /\ Block(u, n+2) = Block(t, n+1)
           /\ TimeBefore(u, n+2) = TimeBefore(t, n+1)
           /\ Section(u, n+2) = IF l.is \in DOMAIN SectionOf THEN n+1 ELSE Section(t, n+1)
           /\ Section(t, n+1) \in 0..n
<1>1. n \in Nat /\ 0 \in 0..n /\ u[n+1] = l /\ \A j \in 1..n : u[j] = t[j]
  BY LongerIs
<1>2. Start(u, n+2) = Start(t, n+1)
  <2>1. l.is \notin {"hdr"}
    OBVIOUS
  <2>2. LastText(u, 0, n+2, {"hdr"}) = LastText(t, 0, n+1, {"hdr"})
    BY <1>1, <2>1, OneMore
  <2> QED BY <2>2 DEF Start
<1>3. Start(t, n+1) \in 0..n /\ Start(t, n+1) \in Nat
  <2>1. LastText(t, 0, n+1, {"hdr"}) \in 0..n
    BY <1>1, BehindIs
  <2> QED BY <2>1 DEF Start
<1>4. Block(u, n+2) = Block(t, n+1)
  <2>1. Start(t, n+1) # 0 => Start(t, n+1) \in 1..n
    BY <1>3
  <2> QED BY <1>1, <1>2, <2>1 DEF Block
<1>5. Dates(u, n+2) = Dates(t, n+1) /\ Dates(t, n+1) \in SUBSET (1..n)
  <2>1. \A j : j \in 1..n+2-1 <=> j \in 1..n \/ j = n+1
    BY <1>1
  <2>2. \A j : j \in 1..n+1-1 <=> j \in 1..n
    BY <1>1
  <2> QED BY <1>1, <2>1, <2>2 DEF Dates
<1>6. TimeBefore(u, n+2) = TimeBefore(t, n+1)
  <2>1. Dates(t, n+1) # {} => Latest(Dates(t, n+1)) \in 1..n
    BY <1>1, <1>5, LatestIs
  <2> QED BY <1>1, <1>5, <2>1 DEF TimeBefore
<1>7. Section(u, n+2) = IF l.is \in DOMAIN SectionOf THEN n+1 ELSE Section(t, n+1)
  <2> DEFINE b == Start(t, n+1)
             S == DOMAIN SectionOf
  <2>1. b \in 0..n
    BY <1>3
  <2> HIDE DEF b, S
  <2>2. LastText(u, b, n+2, S) = IF l.is \in S THEN n+1 ELSE LastText(t, b, n+1, S)
    BY <2>1, OneMore
  <2> QED BY <1>2, <2>2 DEF Section, b, S
<1>8. Section(t, n+1) \in 0..n
  <2> DEFINE b == Start(t, n+1)
  <2>1. b \in Nat
    BY <1>3
  <2> HIDE DEF b
  <2>2. LastText(t, b, n+1, DOMAIN SectionOf) \in 0..n
    BY <1>1, <2>1, BehindIs
  <2> QED BY <2>2 DEF Section, b
<1> QED BY <1>2, <1>3, <1>4, <1>6, <1>7, <1>8

\* A header.
LEMMA FrameHeader ==
    ASSUME NEW u, NEW t, NEW l, NEW n, Longer(u, t, l, n), l.is = "hdr"
    PROVE  /\ Start(u, n+2) = n+1 /\ Block(u, n+2) = l.name /\ Section(u, n+2) = 0
           /\ TimeBefore(u, n+2) = IF l.vals = <<>> THEN TimeBefore(t, n+1) ELSE l.vals[1]
<1>1. n \in Nat /\ 0 \in 0..n /\ u[n+1] = l /\ \A j \in 1..n : u[j] = t[j]
  BY LongerIs
<1>2. Start(u, n+2) = n+1
  <2>1. l.is \in {"hdr"}
    OBVIOUS
  <2>2. LastText(u, 0, n+2, {"hdr"}) = n+1
    BY <1>1, <2>1, OneMore
  <2> QED BY <2>2 DEF Start
<1>3. Block(u, n+2) = l.name
  <2>1. n+1 # 0
    BY <1>1
  <2> QED BY <1>1, <1>2, <2>1 DEF Block
<1>4. Section(u, n+2) = 0
  BY <1>1, <1>2, NothingRead DEF Section
<1>5. \A j : j \in 1..n+2-1 <=> j \in 1..n \/ j = n+1
  BY <1>1
<1>6. \A j : j \in 1..n+1-1 <=> j \in 1..n
  BY <1>1
<1>7. CASE l.vals = <<>>
  <2>1. Dates(u, n+2) = Dates(t, n+1) /\ Dates(t, n+1) \in SUBSET (1..n)
    BY <1>1, <1>5, <1>6, <1>7 DEF Dates
  <2>2. Dates(t, n+1) # {} => Latest(Dates(t, n+1)) \in 1..n
    BY <1>1, <2>1, LatestIs
  <2> QED BY <1>1, <1>2, <1>3, <1>4, <1>7, <2>1, <2>2 DEF TimeBefore
<1>8. CASE l.vals # <<>>
  <2>1. /\ Dates(u, n+2) \in SUBSET (1..n+1) /\ n+1 \in Dates(u, n+2) /\ n+1 \in Nat
        /\ \A j \in Dates(u, n+2) : j <= n+1
    BY <1>1, <1>5, <1>8 DEF Dates
  <2>2. Latest(Dates(u, n+2)) = n+1
    BY <2>1, LatestOf
  <2> QED BY <1>1, <1>2, <1>3, <1>4, <1>8, <2>1, <2>2 DEF TimeBefore
<1> QED BY <1>7, <1>8

LEMMA SameBefore ==
    ASSUME NEW u, NEW t, NEW l, NEW n, Longer(u, t, l, n)
    PROVE  \A from \in Nat : \A k \in 1..n+1 : \A S :
              /\ InText(u, from, k, S) = InText(t, from, k, S)
              /\ LastText(u, from, k, S) = LastText(t, from, k, S)
              /\ InText(t, from, k, S) \in SUBSET (1..k-1) /\ LastText(t, from, k, S) \in 0..k-1
              /\ LastText(t, from, k, S) \in Nat
<1>1. ASSUME NEW from \in Nat, NEW k \in 1..n+1, NEW S
      PROVE  /\ InText(u, from, k, S) = InText(t, from, k, S)
             /\ LastText(u, from, k, S) = LastText(t, from, k, S)
  BY OneMoreBefore
<1>2. ASSUME NEW from \in Nat, NEW k \in 1..n+1, NEW S
      PROVE  /\ InText(t, from, k, S) \in SUBSET (1..k-1) /\ LastText(t, from, k, S) \in 0..k-1
             /\ LastText(t, from, k, S) \in Nat
  <2>1. k \in Nat \ {0}
    BY LongerIs
  <2>2. InText(t, from, k, S) \in SUBSET (1..k-1) /\ LastText(t, from, k, S) \in 0..k-1
    BY <2>1, InTextIs
  <2> QED BY <2>2
<1> QED BY <1>1, <1>2

LEMMA DatedStays ==
    ASSUME NEW u, NEW t, NEW l, NEW n, Longer(u, t, l, n),
           NEW s, NEW path, s.at[2] \in 1..n, Dated(s, path, t)
    PROVE  Dated(s, path, u)
<1> DEFINE k == s.at[2]
           b == Start(t, k)
           h == LastText(t, b, k, {"coreHdr"})
           N == InText(t, h, k, {"nums"})
<1>0. k \in 1..n /\ k \in 1..n+1 /\ n \in Nat
  BY LongerIs
<1> HIDE DEF k
<1>1. Start(u, k) = b /\ b \in 0..k-1 /\ b \in Nat /\ TimeBefore(u, k) = TimeBefore(t, k)
  BY <1>0, FrameBefore
<1> HIDE DEF b
<1>2. LastText(u, b, k, {"coreHdr"}) = h /\ h \in Nat
  BY <1>0, <1>1, SameBefore
<1> HIDE DEF h
<1>3. InText(u, h, k, {"nums"}) = N /\ N \in SUBSET (1..k-1)
  BY <1>0, <1>2, SameBefore
<1> HIDE DEF N
<1>4. u[k] = t[k] /\ \A j \in N : u[j] = t[j]
  <2>1. \A j \in 1..n : u[j] = t[j]
    BY LongerIs
  <2>2. \A j \in N : j \in 1..n
    BY <1>0, <1>3
  <2> QED BY <1>0, <2>1, <2>2
<1>5. {j \in N : Len(u[j].vals) = Len(u[k].vals)} = {j \in N : Len(t[j].vals) = Len(t[k].vals)}
  BY <1>4
<1>6. /\ s.plane = PlaneOf(path) /\ TimeBefore(t, k) >= 0
      /\ TimeBefore(t, k) - s.ts \in
            (IF s.fam = "cpu" /\ s.key = <<"core">>
             THEN {Cardinality({j \in N : Len(t[j].vals) = Len(t[k].vals)})}
             ELSE IF s.fam = "ru" THEN 0..Len(t[k].vals) - 1 ELSE {0})
  BY DEF Dated, k, b, h, N
<1>7. TimeBefore(u, k) - s.ts \in
         (IF s.fam = "cpu" /\ s.key = <<"core">>
          THEN {Cardinality({j \in N : Len(u[j].vals) = Len(u[k].vals)})}
          ELSE IF s.fam = "ru" THEN 0..Len(u[k].vals) - 1 ELSE {0})
  BY <1>1, <1>4, <1>5, <1>6
<1> QED BY <1>1, <1>2, <1>3, <1>6, <1>7 DEF Dated, k

LEMMA OfSectionStays ==
    ASSUME NEW u, NEW t, NEW l, NEW n, Longer(u, t, l, n),
           NEW s, s.at[2] \in 1..n, OfSection(s, t)
    PROVE  OfSection(s, u)
<1> DEFINE k == s.at[2]
           b == Start(t, k)
           z == LastText(t, b, k+1, DOMAIN SectionOf)
           last(S) == LastText(t, z, k, S)
<1>0. k \in 1..n /\ k \in 1..n+1 /\ k+1 \in 1..n+1 /\ n \in Nat
  BY LongerIs
<1>00. /\ z # 0 /\ t[z].is = SectionOfFamily[s.fam]
       /\ s.fam = "gc" =>
             \E g \in InText(t, z, k, {"gcElapsed"}) :
                t[g].vals[1] >= GcMinElapsedSeconds /\ InText(t, z, g, {"gcElapsed"}) = {}
       /\ s.fam = "cpu" => last({"coreHdr"}) # 0 /\ s.id \in Range(t[last({"coreHdr"})].vals)
       /\ s.fam = "pertask" => last({"perTaskHdr"}) # 0 /\ s.id \in Range(t[last({"perTaskHdr"})].vals)
       /\ s.fam = "procusd" => s.key = <<t[z].name>>
       /\ s.fam = "ru" => /\ last({"ruLabel", "nums"}) \in InText(t, z, k, {"ruLabel"})
                          /\ last({"ruLabel"}) # 0
                          /\ s.key = <<t[last({"ruLabel"})].name>>
       /\ (s.fam = "vmpow" /\ t[k].is = "ioWqe") =>
             s.id = IF last({"thread"}) = 0 THEN 0 ELSE t[last({"thread"})].vals[1]
  BY DEF OfSection
<1> HIDE DEF k
<1>1. Start(u, k) = b /\ b \in Nat
  BY <1>0, FrameBefore
<1> HIDE DEF b
<1>2. LastText(u, b, k+1, DOMAIN SectionOf) = z /\ z \in 0..k /\ z \in Nat
  <2>1. LastText(u, b, k+1, DOMAIN SectionOf) = z
    <3> DEFINE S == DOMAIN SectionOf
               m == k+1
    <3>1. m \in 1..n+1
      BY <1>0
    <3> HIDE DEF S, m
    <3>2. \A j \in 1..n+1 : \A V : LastText(u, b, j, V) = LastText(t, b, j, V)
      <4>1. b \in Nat
        BY <1>1
      <4> QED BY <4>1, SameBefore
    <3>3. LastText(u, b, m, S) = LastText(t, b, m, S)
      BY <3>1, <3>2
    <3> QED BY <3>3 DEF S, m
  <2>2. k \in Nat
    BY <1>0
  <2>3. z \in 0..k
    BY <1>1, <2>2, BehindIs
  <2> HIDE DEF z
  <2> QED BY <2>1, <2>3
<1> HIDE DEF z
<1>3. /\ \A S : LastText(u, z, k, S) = last(S) /\ InText(u, z, k, S) = InText(t, z, k, S)
                /\ last(S) \in 0..k-1 /\ InText(t, z, k, S) \in SUBSET (1..k-1)
      /\ \A g \in 1..n : InText(u, z, g, {"gcElapsed"}) = InText(t, z, g, {"gcElapsed"})
  <2>1. \A g \in 1..n : g \in 1..n+1
    BY <1>0
  <2>2. z \in Nat
    BY <1>2
  <2>3. \A j \in 1..n+1 : \A V :
           /\ InText(u, z, j, V) = InText(t, z, j, V)
           /\ LastText(u, z, j, V) = LastText(t, z, j, V)
           /\ InText(t, z, j, V) \in SUBSET (1..j-1) /\ LastText(t, z, j, V) \in 0..j-1
    BY <2>2, SameBefore
  <2> QED BY <1>0, <2>1, <2>3
<1>4. \A j \in 1..n : u[j] = t[j]
  BY LongerIs
<1>5. u[k] = t[k] /\ u[z] = t[z] /\ \A S : \A j \in InText(t, z, k, S) : j \in 1..n /\ u[j] = t[j]
  <2>1. z \in 1..n
    BY <1>0, <1>00, <1>2
  <2>2. 1..k-1 \in SUBSET (1..n)
    BY <1>0
  <2>3. \A S : \A j \in InText(t, z, k, S) : j \in 1..n
    BY <1>3, <2>2
  <2> QED BY <1>0, <1>4, <2>1, <2>3
<1>6. \A S : last(S) # 0 => u[last(S)] = t[last(S)]
  <2>1. ASSUME NEW S, last(S) # 0
        PROVE  last(S) \in 1..n
    <3> DEFINE x == last(S)
    <3>1. x \in 0..k-1 /\ x # 0
      BY <1>3, <2>1
    <3> HIDE DEF x
    <3>2. x \in 1..n
      BY <1>0, <3>1
    <3> QED BY <3>2 DEF x
  <2> QED BY <1>4, <2>1
<1>7. /\ z # 0 /\ u[z].is = SectionOfFamily[s.fam]
      /\ s.fam = "gc" =>
            \E g \in InText(t, z, k, {"gcElapsed"}) :
               u[g].vals[1] >= GcMinElapsedSeconds /\ InText(u, z, g, {"gcElapsed"}) = {}
      /\ s.fam = "cpu" => last({"coreHdr"}) # 0 /\ s.id \in Range(u[last({"coreHdr"})].vals)
      /\ s.fam = "pertask" => last({"perTaskHdr"}) # 0 /\ s.id \in Range(u[last({"perTaskHdr"})].vals)
      /\ s.fam = "procusd" => s.key = <<u[z].name>>
      /\ s.fam = "ru" => /\ last({"ruLabel", "nums"}) \in InText(t, z, k, {"ruLabel"})
                         /\ last({"ruLabel"}) # 0
                         /\ s.key = <<u[last({"ruLabel"})].name>>
      /\ (s.fam = "vmpow" /\ u[k].is = "ioWqe") =>
            s.id = IF last({"thread"}) = 0 THEN 0 ELSE u[last({"thread"})].vals[1]
  <2>1. /\ s.fam = "gc" =>
            \E g \in InText(t, z, k, {"gcElapsed"}) :
               u[g].vals[1] >= GcMinElapsedSeconds /\ InText(u, z, g, {"gcElapsed"}) = {}
    BY <1>00, <1>3, <1>5
  <2> HIDE DEF last
  <2> QED BY <1>00, <1>5, <1>6, <2>1
<1>8. LastText(u, Start(u, k), k+1, DOMAIN SectionOf) = z
  BY <1>1, <1>2
<1>9. \A S : LastText(u, z, k, S) = last(S) /\ InText(u, z, k, S) = InText(t, z, k, S)
  BY <1>3
<1> HIDE DEF last
<1> QED BY <1>7, <1>8, <1>9 DEF OfSection, k

LEMMA InBlockStays ==
    ASSUME NEW u, NEW t, NEW l, NEW n, Longer(u, t, l, n), NEW k \in 1..n, NEW S
    PROVE  /\ InBlock(u, k, S) = InBlock(t, k, S) /\ InBlock(t, k, S) \in 0..k-1
           /\ InBlock(t, k, S) # 0 => u[InBlock(t, k, S)] = t[InBlock(t, k, S)]
           /\ u[k] = t[k]
<1> DEFINE b == Start(t, k)
           x == InBlock(t, k, S)
<1>0. k \in 1..n+1 /\ n \in Nat
  BY LongerIs
<1>1. Start(u, k) = b /\ b \in Nat
  BY <1>0, FrameBefore
<1> HIDE DEF b
<1>2. LastText(u, b, k, S) = LastText(t, b, k, S) /\ LastText(t, b, k, S) \in 0..k-1
  BY <1>0, <1>1, SameBefore
<1>3. InBlock(u, k, S) = x /\ x \in 0..k-1
  BY <1>1, <1>2 DEF InBlock, b
<1> HIDE DEF x
<1>4. x # 0 => x \in 1..n
  BY <1>0, <1>3
<1>5. \A j \in 1..n : u[j] = t[j]
  BY LongerIs
<1> QED BY <1>3, <1>4, <1>5 DEF x

LEMMA OfBlockStays ==
    ASSUME NEW u, NEW t, NEW l, NEW n, Longer(u, t, l, n),
           NEW s, s.at[2] \in 1..n, OfBlock(s, t)
    PROVE  OfBlock(s, u)
<1>0. s.at[2] \in 1..n+1
  BY LongerIs
<1>1. Block(u, s.at[2]) = Block(t, s.at[2])
  BY <1>0, FrameBefore
<1>2. OfSection(s, t) => OfSection(s, u)
  BY OfSectionStays
<1>3. OfDirection(s, t) => OfDirection(s, u)
  <2> DEFINE k == s.at[2]
             d(x) == InBlock(x, k, {"rxtx", "bare", "iface"})
             i(x) == InBlock(x, k, {"iface"})
  <2>1. k \in 1..n
    OBVIOUS
  <2>2. \A x : OfDirection(s, x) <=>
                  /\ d(x) # 0 /\ x[d(x)].is = "rxtx" /\ i(x) # 0
                  /\ s.key = <<x[i(x)].name, x[d(x)].name>>
                  /\ x[d(x)].vals[1] = Len(x[k].vals)
    BY DEF OfDirection
  <2> HIDE DEF k
  <2>3. d(u) = d(t) /\ i(u) = i(t) /\ u[k] = t[k] /\ (d(t) # 0 => u[d(t)] = t[d(t)])
        /\ (i(t) # 0 => u[i(t)] = t[i(t)])
    BY <2>1, InBlockStays
  <2> HIDE DEF d, i
  <2> QED BY <2>2, <2>3
<1>4. OfProtocol(s, t) => OfProtocol(s, u)
  BY InBlockStays DEF OfProtocol
<1>5. OfVsys(s, t) => OfVsys(s, u)
  BY InBlockStays DEF OfVsys
<1> QED BY <1>1, <1>2, <1>3, <1>4, <1>5 DEF OfBlock

LEMMA OpenTextIs ==
    ASSUME NEW t, NEW k \in Nat \ {0}
    PROVE  /\ OpenText(t, k) \in SUBSET (1..k-1) /\ OpenText(t, k) \in SUBSET Nat
           /\ IsFiniteSet(OpenText(t, k)) /\ Cardinality(OpenText(t, k)) \in Nat
<1>1. Start(t, k) \in Nat
  BY StartIs
<1>2. InText(t, Start(t, k), k, {"open"}) \in SUBSET (1..k-1) /\ k - 1 \in Nat
  BY <1>1, InTextIs
<1>3. OpenText(t, k) \in SUBSET (1..k-1)
  BY <1>2 DEF OpenText
<1>4. IsFiniteSet(OpenText(t, k)) /\ Cardinality(OpenText(t, k)) \in 0..k-1
      /\ OpenText(t, k) \in SUBSET Nat
  BY <1>2, <1>3, Bounded
<1> QED BY <1>2, <1>3, <1>4

LEMMA OpenBefore ==
    ASSUME NEW u, NEW t, NEW l, NEW n, Longer(u, t, l, n), NEW k \in 1..n+1
    PROVE  OpenText(u, k) = OpenText(t, k)
<1>0. n \in Nat /\ k \in Nat \ {0} /\ k - 1 \in Nat
  BY LongerIs
<1>1. Start(u, k) = Start(t, k) /\ Start(t, k) \in Nat
  BY <1>0, FrameBefore, StartIs
<1>2. InText(u, Start(t, k), k, {"open"}) = InText(t, Start(t, k), k, {"open"})
      /\ InText(t, Start(t, k), k, {"open"}) \in SUBSET (1..k-1)
  BY <1>1, SameBefore
<1>3. ASSUME NEW j \in 1..k-1, NEW x \in j..k-1, NEW S
      PROVE  InText(u, j - 1, x + 1, S) = InText(t, j - 1, x + 1, S)
  <2>1. j - 1 \in Nat /\ x + 1 \in 1..n+1
    BY <1>0
  <2> QED BY <2>1, SameBefore
<1>4. \A j \in 1..k-1 : \A x \in j..k-1 : Depth(u, j, x + 1) = Depth(t, j, x + 1)
  BY <1>3 DEF Depth
<1> QED BY <1>1, <1>2, <1>4 DEF OpenText

LEMMA OfObjectsStays ==
    ASSUME NEW u, NEW t, NEW l, NEW n, Longer(u, t, l, n),
           NEW s, s.at[2] \in 1..n, OfObjects(s, t)
    PROVE  OfObjects(s, u)
<1> DEFINE k == s.at[2]
           o == OpenText(t, k)
           m == Cardinality(o)
           at == Ascending(o)
<1>0. k \in 1..n /\ k \in 1..n+1 /\ k \in Nat \ {0} /\ n \in Nat
  BY LongerIs
<1>00. s.fam = "cpstats" =>
          /\ o # {}
          /\ s.key = [p \in 1..m |-> IF p = m THEN t[k].name ELSE t[at[p+1]].name]
  BY DEF OfObjects
<1> HIDE DEF k
<1>1. OpenText(u, k) = o
  BY <1>0, OpenBefore
<1>2. o \in SUBSET (1..k-1) /\ o \in SUBSET Nat /\ IsFiniteSet(o) /\ m \in Nat
  BY <1>0, OpenTextIs
<1> HIDE DEF o
<1>3. \A p \in 1..m : at[p] \in o
  BY <1>2, AscendingIs
<1>4. \A j \in 1..n : u[j] = t[j]
  BY LongerIs
<1>5. ASSUME NEW p \in 1..m
      PROVE  (IF p = m THEN u[k].name ELSE u[at[p+1]].name)
                = (IF p = m THEN t[k].name ELSE t[at[p+1]].name)
  <2>1. p # m => p + 1 \in 1..m
    BY <1>2
  <2>2. p # m => at[p+1] \in 1..n
    <3>1. \A j \in o : j \in 1..n
      BY <1>0, <1>2
    <3> QED BY <1>3, <2>1, <3>1
  <2> QED BY <1>0, <1>4, <2>2
<1> HIDE DEF m, at
<1>6. s.fam = "cpstats" =>
          /\ o # {}
          /\ s.key = [p \in 1..m |-> IF p = m THEN u[k].name ELSE u[at[p+1]].name]
  BY <1>00, <1>5
<1> QED BY <1>1, <1>6 DEF OfObjects, k, m, at

LEMMA GoodStays ==
    ASSUME NEW u, NEW t, NEW l, NEW n, Longer(u, t, l, n),
           NEW s, NEW path, s.fam # "netstat_detail" => s.at[2] \in 1..n, Good(s, path, t)
    PROVE  Good(s, path, u)
<1> SUFFICES ASSUME s.fam # "netstat_detail"
             PROVE  Dated(s, path, u) /\ OfBlock(s, u) /\ OfObjects(s, u)
  BY DEF Good
<1>1. s.at[2] \in 1..n /\ Dated(s, path, t) /\ OfBlock(s, t) /\ OfObjects(s, t)
  BY DEF Good
<1> QED BY <1>1, DatedStays, OfBlockStays, OfObjectsStays

----------------------------------------------------------------------------
(* A line more, seen from the section and the block.                       *)

LEMMA BlockMore ==
    ASSUME NEW u, NEW t, NEW l, NEW n, Longer(u, t, l, n), l.is # "hdr", NEW S
    PROVE  /\ InBlock(u, n+2, S) = IF l.is \in S THEN n+1 ELSE InBlock(t, n+1, S)
           /\ InBlock(t, n+1, S) \in 0..n
           /\ n+1 # 0 /\ u[n+1] = l
           /\ InBlock(t, n+1, S) # 0 => u[InBlock(t, n+1, S)] = t[InBlock(t, n+1, S)]
<1> DEFINE b == Start(t, n+1)
           x == InBlock(t, n+1, S)
<1>1. Start(u, n+2) = b /\ b \in 0..n /\ n \in Nat /\ b \in Nat
  <2>1. Start(u, n+2) = b /\ b \in 0..n
    BY FrameLine
  <2> HIDE DEF b
  <2> QED BY <2>1, LongerIs
<1> HIDE DEF b
<1>2. LastText(u, b, n+2, S) = IF l.is \in S THEN n+1 ELSE LastText(t, b, n+1, S)
  BY <1>1, OneMore
<1>3. LastText(t, b, n+1, S) \in 0..n
  BY <1>1, BehindIs
<1>4. InBlock(u, n+2, S) = (IF l.is \in S THEN n+1 ELSE x) /\ x \in 0..n
  BY <1>1, <1>2, <1>3 DEF InBlock, b
<1> HIDE DEF x
<1>5. x # 0 => x \in 1..n
  BY <1>1, <1>4
<1>6. \A j \in 1..n : u[j] = t[j]
  BY LongerIs
<1> QED BY <1>1, <1>4, <1>5, <1>6, LongerIs DEF x

LEMMA SectionMore ==
    ASSUME NEW u, NEW t, NEW l, NEW n, Longer(u, t, l, n), l.is # "hdr",
           l.is \notin DOMAIN SectionOf, NEW S
    PROVE  /\ Section(u, n+2) = Section(t, n+1) /\ Section(t, n+1) \in 0..n
           /\ Section(t, n+1) # 0 => u[Section(t, n+1)] = t[Section(t, n+1)]
           /\ InText(u, Section(t, n+1), n+2, S)
                 = InText(t, Section(t, n+1), n+1, S) \cup (IF l.is \in S THEN {n+1} ELSE {})
           /\ InText(t, Section(t, n+1), n+1, S) \in SUBSET (1..n)
           /\ InSection(u, n+2, S) = IF l.is \in S THEN n+1 ELSE InSection(t, n+1, S)
           /\ InSection(t, n+1, S) \in 0..n
           /\ n+1 # 0 /\ u[n+1] = l
           /\ InSection(t, n+1, S) # 0 => u[InSection(t, n+1, S)] = t[InSection(t, n+1, S)]
<1> DEFINE z == Section(t, n+1)
           x == InSection(t, n+1, S)
<1>1. Section(u, n+2) = z /\ z \in 0..n /\ n \in Nat /\ z \in Nat
  <2>1. Section(u, n+2) = z /\ z \in 0..n
    BY FrameLine
  <2> HIDE DEF z
  <2> QED BY <2>1, LongerIs
<1> HIDE DEF z
<1>2. /\ LastText(u, z, n+2, S) = IF l.is \in S THEN n+1 ELSE LastText(t, z, n+1, S)
      /\ InText(u, z, n+2, S) = InText(t, z, n+1, S) \cup (IF l.is \in S THEN {n+1} ELSE {})
  BY <1>1, OneMore
<1>3. LastText(t, z, n+1, S) \in 0..n /\ InText(t, z, n+1, S) \in SUBSET (1..n)
  BY <1>1, BehindIs
<1>4. InSection(u, n+2, S) = (IF l.is \in S THEN n+1 ELSE x) /\ x \in 0..n
  BY <1>1, <1>2, <1>3 DEF InSection, z
<1> HIDE DEF x
<1>5. (x # 0 => x \in 1..n) /\ (z # 0 => z \in 1..n)
  BY <1>1, <1>4
<1>6. \A j \in 1..n : u[j] = t[j]
  BY LongerIs
<1>7. u[n+1] = l /\ n+1 # 0
  BY <1>1, LongerIs
<1>8. (x # 0 => u[x] = t[x]) /\ (z # 0 => u[z] = t[z])
  BY <1>5, <1>6
<1> QED BY <1>1, <1>2, <1>3, <1>4, <1>7, <1>8 DEF x, z

\* The lines from a section up to a line before the last.
LEMMA SectionSame ==
    ASSUME NEW u, NEW t, NEW l, NEW n, Longer(u, t, l, n), NEW S, NEW k \in 1..n+1
    PROVE  InText(u, Section(t, n+1), k, S) = InText(t, Section(t, n+1), k, S)
<1> DEFINE z == Section(t, n+1)
<1>1. z \in Nat
  <2>1. n \in Nat /\ Start(t, n+1) \in Nat
    <3>1. n \in Nat /\ n+1 \in Nat \ {0}
      BY LongerIs
    <3> QED BY <3>1, StartIs
  <2>2. LastText(t, Start(t, n+1), n+1, DOMAIN SectionOf) \in 0..n
    BY <2>1, BehindIs
  <2> QED BY <2>1, <2>2 DEF Section
<1> HIDE DEF z
<1>2. InText(u, z, k, S) = InText(t, z, k, S)
  BY <1>1, SameBefore
<1> QED BY <1>2 DEF z

----------------------------------------------------------------------------
(* The sections.                                                           *)

SectionLines ==
    {"gcSec", "gcEnd", "cpu15mSec", "cacheSec", "perTaskSec", "mempoolHdr",
     "softpoolHdr", "powpoolHdr", "sharedpoolHdr", "procusFuncHdr", "procusGroupHdr",
     "procusdHdr", "ruSec", "siStart", "vmpowStart"}

\* Each mode is set by one line; what opens a section is no header and no row.
LEMMA SectionsAre ==
    /\ DOMAIN SectionOf = SectionLines
    /\ SectionOf["gcSec"] = "gc-elapsed"
    /\ SectionOf["gcEnd"] = ""
    /\ SectionOf["cpu15mSec"] = "cpu15m"
    /\ SectionOf["cacheSec"] = "cache"
    /\ SectionOf["perTaskSec"] = "pertask"
    /\ SectionOf["mempoolHdr"] = "mempool"
    /\ SectionOf["softpoolHdr"] = "softpool"
    /\ SectionOf["powpoolHdr"] = "powpool"
    /\ SectionOf["sharedpoolHdr"] = "sharedpool"
    /\ SectionOf["procusFuncHdr"] = "procus_func"
    /\ SectionOf["procusGroupHdr"] = "procus_group"
    /\ SectionOf["procusdHdr"] = "procusd"
    /\ SectionOf["ruSec"] = "ru"
    /\ SectionOf["siStart"] = "si"
    /\ SectionOf["vmpowStart"] = "vmpow"
BY DEF SectionOf, SectionLines

LEMMA ModesAre ==
    ASSUME NEW f \in DOMAIN SectionOf
    PROVE  /\ SectionOf[f] \notin {"gc", "gcskip"} /\ f # "hdr"
           /\ SectionOf[f] = "gc-elapsed" => f = "gcSec"
           /\ SectionOf[f] = "" => f = "gcEnd"
           /\ SectionOf[f] = "cpu15m" => f = "cpu15mSec"
           /\ SectionOf[f] = "cache" => f = "cacheSec"
           /\ SectionOf[f] = "pertask" => f = "perTaskSec"
           /\ SectionOf[f] = "mempool" => f = "mempoolHdr"
           /\ SectionOf[f] = "softpool" => f = "softpoolHdr"
           /\ SectionOf[f] = "powpool" => f = "powpoolHdr"
           /\ SectionOf[f] = "sharedpool" => f = "sharedpoolHdr"
           /\ SectionOf[f] = "procus_func" => f = "procusFuncHdr"
           /\ SectionOf[f] = "procus_group" => f = "procusGroupHdr"
           /\ SectionOf[f] = "procusd" => f = "procusdHdr"
           /\ SectionOf[f] = "ru" => f = "ruSec"
           /\ SectionOf[f] = "si" => f = "siStart"
           /\ SectionOf[f] = "vmpow" => f = "vmpowStart"
<1>1. f \in SectionLines
  BY SectionsAre
<1> QED BY <1>1, SectionsAre DEF SectionLines

LEMMA SectionIs ==
    ASSUME NEW u, NEW t, NEW l, NEW n, Longer(u, t, l, n)
    PROVE  /\ Section(t, n+1) \in 0..n /\ Start(t, n+1) \in 0..n /\ n \in Nat
           /\ Section(t, n+1) # 0 => /\ t[Section(t, n+1)].is \in DOMAIN SectionOf
                                     /\ Section(t, n+1) > Start(t, n+1)
<1> DEFINE b == Start(t, n+1)
           S == DOMAIN SectionOf
<1>1. n \in Nat /\ b \in 0..n /\ b \in Nat
  <2>1. n \in Nat
    BY LongerIs
  <2>2. LastText(t, 0, n+1, {"hdr"}) \in 0..n
    BY <2>1, BehindIs
  <2> QED BY <2>1, <2>2 DEF Start
<1> HIDE DEF b, S
<1>2. /\ LastText(t, b, n+1, S) \in 0..n
      /\ LastText(t, b, n+1, S) # 0 => /\ LastText(t, b, n+1, S) \in b+1..n
                                       /\ t[LastText(t, b, n+1, S)].is \in S
  BY <1>1, BehindIs
<1>3. LastText(t, b, n+1, S) # 0 => LastText(t, b, n+1, S) > b
  BY <1>1, <1>2
<1> QED BY <1>1, <1>2, <1>3 DEF Section, b, S

----------------------------------------------------------------------------
(* The frame after a line.                                                 *)

\* A line that is no header and opens no section, under the same mode.
LEMMA FramedLine ==
    ASSUME NEW u, NEW t, NEW l, NEW n, Longer(u, t, l, n), NEW x, NEW y,
           Framed(x, t, n+1), l.is # "hdr",
           DOMAIN y = DOMAIN x, y.ts = x.ts, y.haveTs = x.haveTs, y.block = x.block,
           y.rowIdx \in Nat,
           y.block \notin Dedicated =>
              /\ l.is \notin DOMAIN SectionOf
              /\ \/ y.mode = x.mode /\ (x.mode = "gc-elapsed" => l.is # "gcElapsed")
                 \/ x.mode = "gc-elapsed" /\ l.is = "gcElapsed" /\ y.mode \in {"gc", "gcskip"}
    PROVE  Framed(y, u, n+2)
<1> DEFINE z == Section(t, n+1)
           P == InText(t, z, n+1, {"gcElapsed"})
           Q == InText(u, z, n+2, {"gcElapsed"})
<1>1. TimeBefore(u, n+2) = TimeBefore(t, n+1) /\ Block(u, n+2) = Block(t, n+1)
  BY FrameLine
<1>2. /\ DOMAIN x = CollectorFields
      /\ x.haveTs \in BOOLEAN /\ x.ts \in Nat
      /\ (x.haveTs <=> TimeBefore(t, n+1) # -1)
      /\ x.haveTs => x.ts = TimeBefore(t, n+1)
      /\ x.block = Block(t, n+1)
      /\ x.block \notin Dedicated =>
            IF z = 0 THEN x.mode = ""
            ELSE IF t[z].is # "gcSec" THEN x.mode = SectionOf[t[z].is]
            ELSE IF P = {} THEN x.mode = "gc-elapsed"
            ELSE x.mode \in {"gc", "gcskip"}
  BY DEF Framed
<1>3. ASSUME y.block \notin Dedicated
      PROVE  /\ Section(u, n+2) = z
             /\ IF z = 0 THEN y.mode = ""
                ELSE IF u[z].is # "gcSec" THEN y.mode = SectionOf[u[z].is]
                ELSE IF Q = {} THEN y.mode = "gc-elapsed"
                ELSE y.mode \in {"gc", "gcskip"}
  <2>1. /\ Section(u, n+2) = z /\ (z # 0 => u[z] = t[z])
        /\ Q = P \cup (IF l.is \in {"gcElapsed"} THEN {n+1} ELSE {})
    BY <1>3, SectionMore
  <2>2. z # 0 /\ x.mode = "gc-elapsed" => t[z].is = "gcSec" /\ P = {}
    <3>1. z # 0 => t[z].is \in DOMAIN SectionOf
      BY SectionIs
    <3>2. \A f \in DOMAIN SectionOf : SectionOf[f] = "gc-elapsed" => f = "gcSec"
      BY ModesAre
    <3> HIDE DEF z, P
    <3> QED BY <1>2, <1>3, <3>1, <3>2
  <2>3. z = 0 => x.mode = ""
    <3> HIDE DEF z, P
    <3> QED BY <1>2, <1>3
  <2> HIDE DEF z, P, Q
  <2>4. CASE y.mode = x.mode /\ (x.mode = "gc-elapsed" => l.is # "gcElapsed")
    <3>1. P # {} \/ l.is # "gcElapsed" => (Q = {} <=> P = {})
      BY <2>1
    <3>2. P = {} /\ z # 0 /\ t[z].is = "gcSec" => x.mode = "gc-elapsed"
      BY <1>2, <1>3
    <3> QED BY <1>2, <1>3, <2>1, <2>3, <2>4, <3>1, <3>2
  <2>5. CASE x.mode = "gc-elapsed" /\ l.is = "gcElapsed" /\ y.mode \in {"gc", "gcskip"}
    <3>1. Q # {}
      BY <2>1, <2>5
    <3> QED BY <2>1, <2>2, <2>3, <2>5, <3>1
  <2> QED BY <1>3, <2>4, <2>5
<1> HIDE DEF z, P, Q
<1>4. y.block \notin Dedicated =>
         LET s == Section(u, n+2) IN
         IF s = 0 THEN y.mode = ""
         ELSE IF u[s].is # "gcSec" THEN y.mode = SectionOf[u[s].is]
         ELSE IF InText(u, s, n+2, {"gcElapsed"}) = {} THEN y.mode = "gc-elapsed"
         ELSE y.mode \in {"gc", "gcskip"}
  BY <1>3 DEF Q
<1>5. /\ DOMAIN y = CollectorFields
      /\ y.haveTs \in BOOLEAN /\ y.ts \in Nat /\ y.rowIdx \in Nat
      /\ (y.haveTs <=> TimeBefore(u, n+2) # -1)
      /\ y.haveTs => y.ts = TimeBefore(u, n+2)
      /\ y.block = Block(u, n+2)
  BY <1>1, <1>2
<1> QED BY <1>4, <1>5 DEF Framed

----------------------------------------------------------------------------
(* The collector at the beginning of a log and of a block.                 *)

Fresh(y) ==
    /\ y.mode = "" /\ y.curIface = "" /\ y.rxtxDir = "" /\ y.nsSection = "" /\ y.appVsys = 0
    /\ y.cpsPath = <<>>

LEMMA FreshKnows ==
    ASSUME NEW y, NEW t, NEW e, Framed(y, t, e), Fresh(y),
           \A S : InText(t, Start(t, e), e, S) = {}
    PROVE  Collected(y, t, e)
<1>1. \A S : InBlock(t, e, S) = 0
  BY DEF InBlock, LastText, Latest
<1>2. InPanio(y, t, e)
  BY DEF Fresh, InPanio, GaugeRead, CoresRead, TasksRead, FunctionRead, LabelRead, ThreadRead
<1>3. InIfconfig(y, t, e) /\ InStats(y, t, e)
  BY DEF Fresh, InIfconfig, InStats
<1>4. InApps(y, t, e)
  BY <1>1 DEF Fresh, InApps
<1>5. InObjects(y, t, e)
  <2>1. OpenText(t, e) = {}
    BY DEF OpenText
  <2>2. Cardinality(OpenText(t, e)) = 0
    BY <2>1, FS_EmptySet
  <2>3. y.cpsPath \in Seq(STRING) /\ Len(y.cpsPath) = 0
    <3>1. y.cpsPath = <<>>
      BY DEF Fresh
    <3>2. <<>> \in Seq(STRING) /\ Len(<<>>) = 0
      OBVIOUS
    <3> QED BY <3>1, <3>2
  <2>4. \A p \in 1..0 : FALSE
    OBVIOUS
  <2> QED BY <2>2, <2>3, <2>4 DEF InObjects
<1> QED BY <1>2, <1>3, <1>4, <1>5 DEF Collected

LEMMA FieldsAre ==
    ASSUME NEW p
    PROVE  /\ DOMAIN Collector(p) = CollectorFields
           /\ Fresh(Collector(p))
           /\ Collector(p).plane = p /\ Collector(p).block = ""
           /\ ~Collector(p).haveTs /\ Collector(p).haveTs \in BOOLEAN
           /\ Collector(p).ts \in Nat /\ Collector(p).rowIdx \in Nat
BY DEF Collector, CollectorFields, Fresh

LEMMA KnowsNothingYet ==
    ASSUME NEW p
    PROVE  Collected(Collector(p), <<>>, 1)
<1> DEFINE y == Collector(p)
<1>1. \A from \in Nat : \A S : InText(<<>>, from, 1, S) = {}
  BY DEF InText
<1>2. \A S : LastText(<<>>, 0, 1, S) = 0
  BY <1>1 DEF LastText, Latest
<1>3. Start(<<>>, 1) = 0 /\ Section(<<>>, 1) = 0
  BY <1>2 DEF Start, Section
<1>4. Block(<<>>, 1) = ""
  BY <1>3 DEF Block
<1>5. TimeBefore(<<>>, 1) = -1
  <2>1. Dates(<<>>, 1) = {}
    BY DEF Dates
  <2> QED BY <2>1 DEF TimeBefore
<1>6. /\ DOMAIN y = CollectorFields /\ Fresh(y) /\ ~y.haveTs /\ y.haveTs \in BOOLEAN
      /\ y.block = "" /\ y.ts \in Nat /\ y.rowIdx \in Nat
  BY FieldsAre
<1> HIDE DEF y
<1>7. Framed(y, <<>>, 1)
  <2>1. y.haveTs <=> TimeBefore(<<>>, 1) # -1
    BY <1>5, <1>6
  <2>2. y.mode = ""
    BY <1>6 DEF Fresh
  <2>3. y.haveTs \in BOOLEAN
    BY <1>6
  <2>4. y.ts \in Nat /\ y.rowIdx \in Nat /\ y.block = Block(<<>>, 1)
    BY <1>4, <1>6
  <2>5. DOMAIN y = CollectorFields /\ (y.haveTs => y.ts = TimeBefore(<<>>, 1))
    BY <1>6
  <2> QED BY <1>3, <2>1, <2>2, <2>3, <2>4, <2>5 DEF Framed
<1>8. \A S : InText(<<>>, Start(<<>>, 1), 1, S) = {}
  BY <1>1, <1>3
<1> QED BY <1>6, <1>7, <1>8, FreshKnows DEF y

LEMMA HeaderKnows ==
    ASSUME NEW u, NEW t, NEW l, NEW n, Longer(u, t, l, n), l.is = "hdr", NEW x, NEW y,
           Framed(x, t, n+1), Fresh(y), DOMAIN y = CollectorFields,
           y.ts = (IF l.vals = <<>> THEN x.ts ELSE l.vals[1]), y.rowIdx = x.rowIdx,
           y.haveTs = (x.haveTs \/ l.vals # <<>>), y.block = l.name
    PROVE  Collected(y, u, n+2)
<1>1. /\ Start(u, n+2) = n+1 /\ Block(u, n+2) = l.name /\ Section(u, n+2) = 0
      /\ TimeBefore(u, n+2) = IF l.vals = <<>> THEN TimeBefore(t, n+1) ELSE l.vals[1]
  BY FrameHeader
<1>2. n \in Nat /\ l \in Line
  BY LongerIs
<1>3. l.vals # <<>> => l.vals[1] \in Nat
  <2>1. l.vals \in Seq(Nat)
    BY <1>2 DEF Line
  <2> QED BY <2>1
<1>4. /\ x.haveTs \in BOOLEAN /\ x.ts \in Nat /\ x.rowIdx \in Nat
      /\ (x.haveTs <=> TimeBefore(t, n+1) # -1)
      /\ x.haveTs => x.ts = TimeBefore(t, n+1)
  BY DEF Framed
<1>5. (y.haveTs <=> TimeBefore(u, n+2) # -1) /\ (y.haveTs => y.ts = TimeBefore(u, n+2))
  <2>1. CASE l.vals = <<>>
    BY <1>1, <1>4, <2>1
  <2>2. CASE l.vals # <<>>
    <3>1. TimeBefore(u, n+2) = l.vals[1] /\ TimeBefore(u, n+2) # -1
      BY <1>1, <1>3, <2>2
    <3> QED BY <3>1, <2>2
  <2> QED BY <2>1, <2>2
<1>6. y.ts \in Nat /\ y.rowIdx \in Nat /\ y.haveTs \in BOOLEAN
  BY <1>3, <1>4
<1>7. Framed(y, u, n+2)
  BY <1>1, <1>5, <1>6 DEF Framed, Fresh
<1>8. \A S : InText(u, Start(u, n+2), n+2, S) = {}
  BY <1>1, <1>2, NothingRead
<1> QED BY <1>7, <1>8, FreshKnows

----------------------------------------------------------------------------
(* The collector after a line of a section.                                *)

\* A line that opens one.
Opens(x, y, l) ==
    /\ DOMAIN y = DOMAIN x /\ y.ts = x.ts /\ y.haveTs = x.haveTs /\ y.block = x.block
    /\ y.mode = SectionOf[l.is]
    /\ y.coreIDs = IF l.is = "cpu15mSec" THEN <<>> ELSE x.coreIDs
    /\ y.rowIdx = IF l.is = "cpu15mSec" THEN 0 ELSE x.rowIdx
    /\ y.taskCols = IF l.is = "perTaskSec" THEN <<>> ELSE x.taskCols
    /\ y.detName = IF l.is = "procusdHdr" THEN l.name ELSE x.detName
    /\ y.ruLabel = IF l.is = "ruSec" THEN "" ELSE x.ruLabel
    /\ y.powThread = IF l.is = "vmpowStart" THEN 0 ELSE x.powThread

LEMMA SectionKnows ==
    ASSUME NEW u, NEW t, NEW l, NEW n, Longer(u, t, l, n), NEW x, NEW y,
           Framed(x, t, n+1), x.block \notin Dedicated, l.is \in DOMAIN SectionOf, Opens(x, y, l)
    PROVE  Collected(y, u, n+2)
<1>0. l.is # "hdr"
  BY ModesAre
<1>1. /\ Section(u, n+2) = n+1 /\ n \in Nat /\ n+1 # 0 /\ u[n+1] = l
      /\ Block(u, n+2) = Block(t, n+1) /\ TimeBefore(u, n+2) = TimeBefore(t, n+1)
  <2>1. n \in Nat /\ u[n+1] = l
    BY LongerIs
  <2> QED BY <1>0, <2>1, FrameLine
<1>2. \A S : InText(u, n+1, n+2, S) = {} /\ InSection(u, n+2, S) = 0
  BY <1>1, NothingRead DEF InSection
<1>3. Framed(y, u, n+2)
  <2>1. /\ DOMAIN y = CollectorFields /\ y.haveTs \in BOOLEAN /\ y.ts \in Nat /\ y.rowIdx \in Nat
        /\ (y.haveTs <=> TimeBefore(u, n+2) # -1)
        /\ y.haveTs => y.ts = TimeBefore(u, n+2)
        /\ y.block = Block(u, n+2)
    <3>1. /\ DOMAIN x = CollectorFields /\ x.haveTs \in BOOLEAN /\ x.ts \in Nat /\ x.rowIdx \in Nat
          /\ (x.haveTs <=> TimeBefore(t, n+1) # -1)
          /\ x.haveTs => x.ts = TimeBefore(t, n+1)
          /\ x.block = Block(t, n+1)
      BY DEF Framed
    <3>2. y.rowIdx \in Nat
      <4>1. y.rowIdx = 0 \/ y.rowIdx = x.rowIdx
        BY DEF Opens
      <4> QED BY <3>1, <4>1
    <3>3. DOMAIN y = DOMAIN x /\ y.ts = x.ts /\ y.haveTs = x.haveTs /\ y.block = x.block
      BY DEF Opens
    <3> QED BY <1>1, <3>1, <3>2, <3>3
  <2>2. IF u[n+1].is # "gcSec" THEN y.mode = SectionOf[u[n+1].is]
        ELSE IF InText(u, n+1, n+2, {"gcElapsed"}) = {} THEN y.mode = "gc-elapsed"
        ELSE y.mode \in {"gc", "gcskip"}
    BY <1>1, <1>2, SectionsAre DEF Opens
  <2> QED BY <1>1, <2>1, <2>2 DEF Framed
<1>4. y.mode = SectionOf[l.is] /\ y.mode # "gc"
  BY ModesAre DEF Opens
<1>5. GaugeRead(y, u, n+2) /\ CoresRead(y, u, n+2) /\ TasksRead(y, u, n+2)
  BY <1>4, ModesAre DEF GaugeRead, CoresRead, TasksRead, Opens
<1>6. FunctionRead(y, u, n+2)
  BY <1>1, ModesAre DEF FunctionRead, Opens
<1>7. LabelRead(y, u, n+2)
  BY ModesAre DEF LabelRead, Opens
<1>8. ThreadRead(y, u, n+2)
  BY <1>2, ModesAre DEF ThreadRead, Opens
<1>9. InPanio(y, u, n+2)
  BY <1>5, <1>6, <1>7, <1>8 DEF InPanio
<1> QED BY <1>3, <1>9 DEF Collected, Dedicated, Opens

\* A line below it: the frame, and what the mode has read.
LEMMA PanioKnows ==
    ASSUME NEW y, NEW u, NEW e, Framed(y, u, e), y.block \notin Dedicated,
           y.mode = "gc" => GaugeRead(y, u, e),
           y.mode = "cpu15m" => CoresRead(y, u, e),
           y.mode = "pertask" => TasksRead(y, u, e),
           y.mode = "procusd" => FunctionRead(y, u, e),
           y.mode = "ru" => LabelRead(y, u, e),
           y.mode = "vmpow" => ThreadRead(y, u, e)
    PROVE  Collected(y, u, e)
<1>1. GaugeRead(y, u, e)
  BY DEF GaugeRead
<1>2. CoresRead(y, u, e) /\ TasksRead(y, u, e)
  BY DEF CoresRead, TasksRead
<1>3. FunctionRead(y, u, e)
  BY DEF FunctionRead
<1>4. LabelRead(y, u, e)
  BY DEF LabelRead
<1>5. ThreadRead(y, u, e)
  BY DEF ThreadRead
<1> QED BY <1>1, <1>2, <1>3, <1>4, <1>5 DEF Collected, InPanio, Dedicated


----------------------------------------------------------------------------
(* The collector after a row of a section.                                 *)

FrameFields == {"plane", "ts", "haveTs", "block", "mode", "rowIdx"}

LEMMA FieldNames ==
    /\ FrameFields \subseteq CollectorFields
    /\ {"loadAvgNext", "cpuDone", "curIface", "rxtxDir", "rxtxCols", "lrDone", "nsAcc", "nsSection",
        "appVsys", "cpsPath", "fabricUnsupported"} \subseteq CollectorFields
    /\ {"coreIDs", "taskCols", "detName", "ruLabel", "powThread"} \subseteq CollectorFields
BY DEF CollectorFields, Collector, FrameFields

\* The fields of the frame that a line leaves alone, but for the mode.
Keeps(x, y) ==
    /\ DOMAIN y = DOMAIN x /\ y.plane = x.plane /\ y.ts = x.ts
    /\ y.haveTs = x.haveTs /\ y.block = x.block

LEMMA SetsMode ==
    ASSUME NEW x, NEW v, DOMAIN x = CollectorFields
    PROVE  /\ Keeps(x, [x EXCEPT !.mode = v])
           /\ [x EXCEPT !.mode = v].mode = v
           /\ [x EXCEPT !.mode = v].rowIdx = x.rowIdx
BY FieldNames DEF Keeps, FrameFields

LEMMA SetsTasks ==
    ASSUME NEW x, DOMAIN x = CollectorFields, NEW v, NEW y, y = [x EXCEPT !.taskCols = v]
    PROVE  Keeps(x, y) /\ y.mode = x.mode /\ y.taskCols = v /\ y.rowIdx = x.rowIdx
BY FieldNames DEF Keeps, FrameFields

LEMMA SetsLabel ==
    ASSUME NEW x, DOMAIN x = CollectorFields, NEW v, NEW y, y = [x EXCEPT !.ruLabel = v]
    PROVE  Keeps(x, y) /\ y.mode = x.mode /\ y.ruLabel = v /\ y.rowIdx = x.rowIdx
BY FieldNames DEF Keeps, FrameFields

LEMMA SetsThread ==
    ASSUME NEW x, DOMAIN x = CollectorFields, NEW v, NEW y, y = [x EXCEPT !.powThread = v]
    PROVE  Keeps(x, y) /\ y.mode = x.mode /\ y.powThread = v /\ y.rowIdx = x.rowIdx
BY FieldNames DEF Keeps, FrameFields

LEMMA SetsRow ==
    ASSUME NEW x, DOMAIN x = CollectorFields, NEW v, NEW y, y = [x EXCEPT !.rowIdx = v]
    PROVE  Keeps(x, y) /\ y.mode = x.mode /\ y.rowIdx = v /\ y.coreIDs = x.coreIDs
BY FieldNames DEF Keeps, FrameFields

\* A line of a section that is none of those that open one.
Below(u, t, l, n, x) ==
    /\ Longer(u, t, l, n) /\ l.is # "hdr" /\ l.is \notin DOMAIN SectionOf
    /\ Collected(x, t, n+1) /\ x.block \notin Dedicated

LEMMA BelowIs ==
    ASSUME NEW u, NEW t, NEW l, NEW n, NEW x, Below(u, t, l, n, x)
    PROVE  /\ Longer(u, t, l, n) /\ l.is # "hdr" /\ l.is \notin DOMAIN SectionOf
           /\ x.block \notin Dedicated /\ Framed(x, t, n+1)
           /\ DOMAIN x = CollectorFields /\ x.rowIdx \in Nat
           /\ GaugeRead(x, t, n+1) /\ CoresRead(x, t, n+1) /\ TasksRead(x, t, n+1)
           /\ FunctionRead(x, t, n+1) /\ LabelRead(x, t, n+1) /\ ThreadRead(x, t, n+1)
BY DEF Below, Collected, Framed, InPanio

LEMMA BelowFramed ==
    ASSUME NEW u, NEW t, NEW l, NEW n, NEW x, Below(u, t, l, n, x), NEW y, Keeps(x, y),
           y.rowIdx \in Nat,
           \/ y.mode = x.mode /\ (x.mode = "gc-elapsed" => l.is # "gcElapsed")
           \/ x.mode = "gc-elapsed" /\ l.is = "gcElapsed" /\ y.mode \in {"gc", "gcskip"}
    PROVE  Framed(y, u, n+2) /\ y.block \notin Dedicated
<1>1. /\ Longer(u, t, l, n) /\ l.is # "hdr" /\ l.is \notin DOMAIN SectionOf
      /\ x.block \notin Dedicated /\ Framed(x, t, n+1)
  BY BelowIs
<1>2. DOMAIN y = DOMAIN x /\ y.ts = x.ts /\ y.haveTs = x.haveTs /\ y.block = x.block
  BY DEF Keeps
<1> QED BY <1>1, <1>2, FramedLine

\* Where the collector expects the gauge of global counters there is none yet.
LEMMA NoGaugeYet ==
    ASSUME NEW u, NEW t, NEW l, NEW n, NEW x, Below(u, t, l, n, x), x.mode = "gc-elapsed"
    PROVE  Section(t, n+1) # 0 /\ InText(t, Section(t, n+1), n+1, {"gcElapsed"}) = {}
<1> DEFINE z == Section(t, n+1)
           P == InText(t, z, n+1, {"gcElapsed"})
<1>1. /\ Longer(u, t, l, n) /\ x.block \notin Dedicated /\ Framed(x, t, n+1)
  BY BelowIs
<1>2. IF z = 0 THEN x.mode = ""
      ELSE IF t[z].is # "gcSec" THEN x.mode = SectionOf[t[z].is]
      ELSE IF P = {} THEN x.mode = "gc-elapsed"
      ELSE x.mode \in {"gc", "gcskip"}
  BY <1>1 DEF Framed
<1>3. z # 0 => t[z].is \in DOMAIN SectionOf
  BY <1>1, SectionIs
<1> HIDE DEF z, P
<1>4. z # 0
  BY <1>2
<1>5. t[z].is = "gcSec"
  BY <1>2, <1>3, <1>4, ModesAre
<1> QED BY <1>2, <1>4, <1>5 DEF z, P

LEMMA GcKnows ==
    ASSUME NEW u, NEW t, NEW l, NEW n, NEW x, Below(u, t, l, n, x), x.mode = "gc-elapsed",
           NEW y, y = IF l.is # "gcElapsed" THEN x
                      ELSE [x EXCEPT !.mode = IF l.vals[1] >= GcMinElapsedSeconds THEN "gc" ELSE "gcskip"]
    PROVE  Collected(y, u, n+2) /\ Keeps(x, y)
<1> DEFINE z == Section(t, n+1)
           G == InText(t, z, n+1, {"gcElapsed"})
<1>1. Longer(u, t, l, n) /\ l.is # "hdr" /\ l.is \notin DOMAIN SectionOf /\ DOMAIN x = CollectorFields
      /\ x.rowIdx \in Nat
  BY BelowIs
<1>2. CASE l.is # "gcElapsed"
  <2>1. y = x /\ Keeps(x, y)
    BY <1>2 DEF Keeps
  <2>2. Framed(y, u, n+2) /\ y.block \notin Dedicated
    BY <1>1, <1>2, <2>1, BelowFramed
  <2> QED BY <2>1, <2>2, PanioKnows
<1>3. CASE l.is = "gcElapsed"
  <2> DEFINE m == IF l.vals[1] >= GcMinElapsedSeconds THEN "gc" ELSE "gcskip"
  <2>1. y = [x EXCEPT !.mode = m] /\ m \in {"gc", "gcskip"}
        /\ (m = "gc" => l.vals[1] >= GcMinElapsedSeconds)
    BY <1>3
  <2> HIDE DEF m
  <2>2. Keeps(x, y) /\ y.mode = m /\ y.rowIdx \in Nat
    BY <1>1, <2>1, SetsMode
  <2>3. Framed(y, u, n+2) /\ y.block \notin Dedicated
    BY <1>3, <2>1, <2>2, BelowFramed
  <2>4. ASSUME m = "gc"
        PROVE  GaugeRead(y, u, n+2)
    <3>1. /\ Section(u, n+2) = z /\ u[n+1] = l
          /\ InText(u, z, n+2, {"gcElapsed"}) = G \cup (IF l.is \in {"gcElapsed"} THEN {n+1} ELSE {})
      BY <1>1, SectionMore
    <3>2. G = {}
      BY NoGaugeYet
    <3>3. n+1 \in 1..n+1
      BY <1>1, LongerIs
    <3>4. InText(u, z, n+1, {"gcElapsed"}) = G
      BY <1>1, <3>3, SectionSame
    <3>5. n+1 \in InText(u, z, n+2, {"gcElapsed"})
      BY <1>3, <3>1
    <3> QED BY <2>1, <2>4, <3>1, <3>2, <3>4, <3>5 DEF GaugeRead
  <2> QED BY <2>1, <2>2, <2>3, <2>4, PanioKnows
<1> QED BY <1>2, <1>3

\* A row more below the columns of the cores.
LEMMA MinutesMore ==
    ASSUME NEW u, NEW t, NEW l, NEW n, Longer(u, t, l, n), NEW h \in 0..n, NEW m
    PROVE  /\ Cardinality(MinutesRead(t, h, n+1, m)) \in Nat
           /\ Cardinality(MinutesRead(u, h, n+2, m))
                 = Cardinality(MinutesRead(t, h, n+1, m))
                      + IF l.is = "nums" /\ Len(l.vals) = 2 * m THEN 1 ELSE 0
<1> DEFINE A == MinutesRead(t, h, n+1, m)
           B == MinutesRead(u, h, n+2, m)
           P == InText(t, h, n+1, {"nums"})
           Q == InText(u, h, n+2, {"nums"})
<1>1. /\ n \in Nat /\ u[n+1] = l /\ \A j \in 1..n : u[j] = t[j]
      /\ Q = P \cup (IF l.is \in {"nums"} THEN {n+1} ELSE {})
      /\ n+1 \notin P
  BY OneMore
<1>2. P \in SUBSET (1..n) /\ IsFiniteSet(P)
  <2>1. h \in Nat
    BY <1>1
  <2> QED BY <1>1, <2>1, BehindIs
<1>3. \A j : j \in A <=> j \in P /\ Len(t[j].vals) = 2 * m
  BY DEF MinutesRead
<1>4. \A j : j \in B <=> j \in Q /\ Len(u[j].vals) = 2 * m
  BY DEF MinutesRead
<1> HIDE DEF A, B, P, Q
<1>5. A \in SUBSET P /\ IsFiniteSet(A) /\ n+1 \notin A /\ Cardinality(A) \in Nat
  <2>1. A \in SUBSET P
    BY <1>3
  <2> QED BY <1>1, <1>2, <2>1, FS_Subset, FS_CardinalityType
<1>6. \A j \in P : u[j] = t[j]
  BY <1>1, <1>2
<1>7. CASE l.is = "nums" /\ Len(l.vals) = 2 * m
  <2>1. \A j : j \in B <=> j \in A \/ j = n+1
    BY <1>1, <1>3, <1>4, <1>6, <1>7
  <2>2. B = A \cup {n+1}
    BY <2>1
  <2>3. Cardinality(B) = Cardinality(A) + 1
    BY <1>5, <2>2, FS_AddElement
  <2> QED BY <1>5, <1>7, <2>3 DEF A, B
<1>8. CASE ~(l.is = "nums" /\ Len(l.vals) = 2 * m)
  <2>1. \A j : j \in B <=> j \in A
    BY <1>1, <1>3, <1>4, <1>6, <1>8
  <2>2. B = A
    BY <2>1
  <2> QED BY <1>5, <1>8, <2>2 DEF A, B
<1> QED BY <1>7, <1>8

Fits(x, l) == l.is = "nums" /\ x.coreIDs # <<>> /\ Len(l.vals) = 2 * Len(x.coreIDs)

AfterMinutes(x, y, l) ==
    y = IF l.is = "coreHdr" THEN [x EXCEPT !.coreIDs = l.vals, !.rowIdx = 0]
        ELSE IF Fits(x, l) THEN [x EXCEPT !.rowIdx = @ + 1] ELSE x

LEMMA CoresKnow ==
    ASSUME NEW u, NEW t, NEW l, NEW n, NEW x, Below(u, t, l, n, x), x.mode = "cpu15m",
           NEW y, AfterMinutes(x, y, l)
    PROVE  Collected(y, u, n+2) /\ Keeps(x, y)
<1> DEFINE h == InSection(t, n+1, {"coreHdr"})
           g == InSection(u, n+2, {"coreHdr"})
           rows(v, k, e, m) == Cardinality(MinutesRead(v, k, e, m))
<1>1. Longer(u, t, l, n) /\ l.is # "hdr" /\ l.is \notin DOMAIN SectionOf /\ DOMAIN x = CollectorFields
      /\ x.rowIdx \in Nat /\ CoresRead(x, t, n+1) /\ n \in Nat
  BY BelowIs, LongerIs
<1>2. /\ g = (IF l.is \in {"coreHdr"} THEN n+1 ELSE h) /\ h \in 0..n /\ n+1 # 0 /\ u[n+1] = l
      /\ h # 0 => u[h] = t[h]
  BY <1>1, SectionMore
<1>3. x.coreIDs # <<>> => h # 0 /\ x.coreIDs = t[h].vals /\ x.rowIdx = rows(t, h, n+1, Len(x.coreIDs))
  BY <1>1 DEF CoresRead
<1>4. \A m : /\ rows(t, h, n+1, m) \in Nat
             /\ rows(u, h, n+2, m) = rows(t, h, n+1, m)
                                       + IF l.is = "nums" /\ Len(l.vals) = 2 * m THEN 1 ELSE 0
  BY <1>1, <1>2, MinutesMore
<1>5. \A m : rows(u, n+1, n+2, m) = 0
  <2>1. InText(u, n+1, n+2, {"nums"}) = {}
    BY <1>1, NothingRead
  <2>2. \A m : MinutesRead(u, n+1, n+2, m) = {}
    BY <2>1 DEF MinutesRead
  <2> QED BY <2>2, FS_EmptySet
<1>6. CoresRead(y, u, n+2) <=>
         ((y.mode = "cpu15m" /\ y.coreIDs # <<>>) =>
            g # 0 /\ y.coreIDs = u[g].vals /\ y.rowIdx = rows(u, g, n+2, Len(y.coreIDs)))
  BY DEF CoresRead
<1> HIDE DEF h, g, rows
<1>7. /\ Keeps(x, y) /\ y.mode = x.mode /\ y.rowIdx \in Nat
      /\ y.coreIDs # <<>> =>
            g # 0 /\ y.coreIDs = u[g].vals /\ y.rowIdx = rows(u, g, n+2, Len(y.coreIDs))
  <2>1. CASE l.is = "coreHdr"
    <3>1. y = [x EXCEPT !.coreIDs = l.vals, !.rowIdx = 0]
      BY <2>1 DEF AfterMinutes
    <3>2. Keeps(x, y) /\ y.mode = x.mode /\ y.coreIDs = l.vals /\ y.rowIdx = 0
      <4> DEFINE v == l.vals
                 w == 0
      <4>1. y = [x EXCEPT !.coreIDs = v, !.rowIdx = w]
        BY <3>1
      <4> HIDE DEF v, w
      <4>2. Keeps(x, y) /\ y.mode = x.mode /\ y.coreIDs = v /\ y.rowIdx = w
        <5>1. DOMAIN x = CollectorFields
          BY <1>1
        <5> QED BY <4>1, <5>1, FieldNames DEF Keeps, FrameFields
      <4> QED BY <4>2 DEF v, w
    <3> QED BY <1>2, <1>5, <2>1, <3>2
  <2>2. CASE l.is # "coreHdr" /\ Fits(x, l)
    <3>1. y = [x EXCEPT !.rowIdx = @ + 1]
      BY <2>2 DEF AfterMinutes
    <3>2. Keeps(x, y) /\ y.mode = x.mode /\ y.coreIDs = x.coreIDs /\ y.rowIdx = x.rowIdx + 1
      <4> DEFINE v == x.rowIdx + 1
      <4>1. y = [x EXCEPT !.rowIdx = v]
        BY <3>1
      <4> HIDE DEF v
      <4>2. Keeps(x, y) /\ y.mode = x.mode /\ y.coreIDs = x.coreIDs /\ y.rowIdx = v
        BY <1>1, <4>1, SetsRow
      <4> QED BY <4>2 DEF v
    <3>3. l.is = "nums" /\ x.coreIDs # <<>> /\ Len(l.vals) = 2 * Len(x.coreIDs)
      BY <2>2 DEF Fits
    <3>4. rows(u, h, n+2, Len(x.coreIDs)) = rows(t, h, n+1, Len(x.coreIDs)) + 1
      BY <1>4, <3>3
    <3>5. g = h /\ h # 0 /\ x.coreIDs = u[g].vals /\ y.rowIdx = rows(u, g, n+2, Len(x.coreIDs))
      BY <1>2, <1>3, <2>2, <3>2, <3>3, <3>4
    <3>6. y.rowIdx \in Nat
      BY <1>1, <3>2
    <3> QED BY <3>2, <3>5, <3>6
  <2>3. CASE l.is # "coreHdr" /\ ~Fits(x, l)
    <3>1. y = x /\ Keeps(x, y)
      BY <2>3 DEF Keeps, AfterMinutes
    <3>2. ASSUME x.coreIDs # <<>>
          PROVE  rows(u, h, n+2, Len(x.coreIDs)) = rows(t, h, n+1, Len(x.coreIDs))
      <4>1. ~(l.is = "nums" /\ Len(l.vals) = 2 * Len(x.coreIDs))
        BY <2>3, <3>2 DEF Fits
      <4>2. /\ rows(t, h, n+1, Len(x.coreIDs)) \in Nat
            /\ rows(u, h, n+2, Len(x.coreIDs)) = rows(t, h, n+1, Len(x.coreIDs)) + 0
        BY <1>4, <4>1
      <4> QED BY <4>2
    <3> QED BY <1>1, <1>2, <1>3, <2>3, <3>1, <3>2
  <2> QED BY <2>1, <2>2, <2>3
<1>8. Framed(y, u, n+2) /\ y.block \notin Dedicated
  BY <1>7, BelowFramed
<1> QED BY <1>6, <1>7, <1>8, PanioKnows

AfterTasks(x, y, l) == y = IF l.is = "perTaskHdr" THEN [x EXCEPT !.taskCols = l.vals] ELSE x

LEMMA TasksKnow ==
    ASSUME NEW u, NEW t, NEW l, NEW n, NEW x, Below(u, t, l, n, x), x.mode = "pertask",
           NEW y, AfterTasks(x, y, l)
    PROVE  Collected(y, u, n+2) /\ Keeps(x, y)
<1> DEFINE h == InSection(t, n+1, {"perTaskHdr"})
           g == InSection(u, n+2, {"perTaskHdr"})
<1>1. Longer(u, t, l, n) /\ l.is # "hdr" /\ l.is \notin DOMAIN SectionOf /\ DOMAIN x = CollectorFields
      /\ x.rowIdx \in Nat /\ TasksRead(x, t, n+1)
  BY BelowIs
<1>2. /\ g = (IF l.is \in {"perTaskHdr"} THEN n+1 ELSE h) /\ n+1 # 0 /\ u[n+1] = l
      /\ h # 0 => u[h] = t[h]
  BY <1>1, SectionMore
<1>3. x.taskCols # <<>> => h # 0 /\ x.taskCols = t[h].vals
  BY <1>1 DEF TasksRead
<1>4. TasksRead(y, u, n+2) <=>
         ((y.mode = "pertask" /\ y.taskCols # <<>>) => g # 0 /\ y.taskCols = u[g].vals)
  BY DEF TasksRead
<1> HIDE DEF h, g
<1>5. /\ Keeps(x, y) /\ y.mode = x.mode /\ y.rowIdx \in Nat
      /\ y.taskCols # <<>> => g # 0 /\ y.taskCols = u[g].vals
  <2>1. CASE l.is = "perTaskHdr"
    <3>1. y = [x EXCEPT !.taskCols = l.vals]
      BY <2>1 DEF AfterTasks
    <3>2. Keeps(x, y) /\ y.mode = x.mode /\ y.taskCols = l.vals /\ y.rowIdx = x.rowIdx
      BY <1>1, <3>1, SetsTasks
    <3> QED BY <1>1, <1>2, <2>1, <3>2
  <2>2. CASE l.is # "perTaskHdr"
    <3>1. y = x /\ Keeps(x, y)
      BY <2>2 DEF Keeps, AfterTasks
    <3> QED BY <1>1, <1>2, <1>3, <2>2, <3>1
  <2> QED BY <2>1, <2>2
<1>6. Framed(y, u, n+2) /\ y.block \notin Dedicated
  BY <1>5, BelowFramed
<1> QED BY <1>4, <1>5, <1>6, PanioKnows

AfterLabel(x, y, l) ==
    y = IF l.is = "ruLabel" THEN [x EXCEPT !.ruLabel = l.name]
        ELSE IF x.ruLabel # "" /\ l.is = "nums" THEN [x EXCEPT !.ruLabel = ""] ELSE x

LEMMA LabelKnows ==
    ASSUME NEW u, NEW t, NEW l, NEW n, NEW x, Below(u, t, l, n, x), x.mode = "ru",
           NEW y, AfterLabel(x, y, l)
    PROVE  Collected(y, u, n+2) /\ Keeps(x, y)
<1> DEFINE z == Section(t, n+1)
           h == InSection(t, n+1, {"ruLabel", "nums"})
           g == InSection(u, n+2, {"ruLabel", "nums"})
           a == InSection(t, n+1, {"ruLabel"})
           b == InSection(u, n+2, {"ruLabel"})
           A == InText(t, z, n+1, {"ruLabel"})
           B == InText(u, z, n+2, {"ruLabel"})
<1>1. Longer(u, t, l, n) /\ l.is # "hdr" /\ l.is \notin DOMAIN SectionOf /\ DOMAIN x = CollectorFields
      /\ x.rowIdx \in Nat /\ LabelRead(x, t, n+1)
  BY BelowIs
<1> DEFINE S == {"ruLabel", "nums"}
           R == {"ruLabel"}
<1>2. /\ Section(u, n+2) = z /\ n+1 # 0 /\ u[n+1] = l
      /\ g = (IF l.is \in S THEN n+1 ELSE h)
      /\ h # 0 => u[h] = t[h]
  <2> HIDE DEF S
  <2>1. /\ Section(u, n+2) = z /\ n+1 # 0 /\ u[n+1] = l
        /\ InSection(u, n+2, S) = IF l.is \in S THEN n+1 ELSE InSection(t, n+1, S)
        /\ InSection(t, n+1, S) # 0 => u[InSection(t, n+1, S)] = t[InSection(t, n+1, S)]
    BY <1>1, SectionMore
  <2> QED BY <2>1 DEF S
<1>3. /\ b = (IF l.is \in R THEN n+1 ELSE a)
      /\ B = A \cup (IF l.is \in R THEN {n+1} ELSE {})
      /\ A \in SUBSET (1..n)
  <2> HIDE DEF R
  <2>1. /\ InSection(u, n+2, R) = IF l.is \in R THEN n+1 ELSE InSection(t, n+1, R)
        /\ InText(u, z, n+2, R) = InText(t, z, n+1, R) \cup (IF l.is \in R THEN {n+1} ELSE {})
        /\ InText(t, z, n+1, R) \in SUBSET (1..n)
    BY <1>1, SectionMore
  <2> QED BY <2>1 DEF R
<1>4. x.ruLabel # "" => h \in A /\ a = h /\ x.ruLabel = t[h].name
  BY <1>1 DEF LabelRead
<1>5. LabelRead(y, u, n+2) <=>
         ((y.mode = "ru" /\ y.ruLabel # "") => g \in B /\ b = g /\ y.ruLabel = u[g].name)
  BY <1>2 DEF LabelRead
<1> HIDE DEF z, h, g, a, b, A, B
<1>6. 0 \notin A
  <2>1. 0 \notin 1..n
    BY <1>1, LongerIs
  <2> QED BY <1>3, <2>1
<1>7. /\ Keeps(x, y) /\ y.mode = x.mode /\ y.rowIdx \in Nat
      /\ y.ruLabel # "" => g \in B /\ b = g /\ y.ruLabel = u[g].name
  <2>1. CASE l.is = "ruLabel"
    <3>1. y = [x EXCEPT !.ruLabel = l.name]
      BY <2>1 DEF AfterLabel
    <3>2. Keeps(x, y) /\ y.mode = x.mode /\ y.ruLabel = l.name /\ y.rowIdx = x.rowIdx
      BY <1>1, <3>1, SetsLabel
    <3> QED BY <1>1, <1>2, <1>3, <2>1, <3>2
  <2>2. CASE l.is # "ruLabel" /\ x.ruLabel # "" /\ l.is = "nums"
    <3>1. y = [x EXCEPT !.ruLabel = ""]
      BY <2>2 DEF AfterLabel
    <3>2. Keeps(x, y) /\ y.mode = x.mode /\ y.ruLabel = "" /\ y.rowIdx = x.rowIdx
      <4> DEFINE v == ""
      <4>1. y = [x EXCEPT !.ruLabel = v]
        BY <3>1
      <4> HIDE DEF v
      <4>2. Keeps(x, y) /\ y.mode = x.mode /\ y.ruLabel = v /\ y.rowIdx = x.rowIdx
        BY <1>1, <4>1, SetsLabel
      <4> QED BY <4>2 DEF v
    <3> QED BY <1>1, <3>2
  <2>3. CASE l.is # "ruLabel" /\ ~(x.ruLabel # "" /\ l.is = "nums")
    <3>1. y = x /\ Keeps(x, y)
      BY <2>3 DEF Keeps, AfterLabel
    <3> QED BY <1>1, <1>2, <1>3, <1>4, <1>6, <2>3, <3>1
  <2> QED BY <2>1, <2>2, <2>3
<1>8. Framed(y, u, n+2) /\ y.block \notin Dedicated
  BY <1>7, BelowFramed
<1> QED BY <1>5, <1>7, <1>8, PanioKnows

AfterThread(x, y, l) ==
    y = [x EXCEPT !.powThread = IF l.is = "thread" THEN l.vals[1] ELSE x.powThread]

LEMMA ThreadKnows ==
    ASSUME NEW u, NEW t, NEW l, NEW n, NEW x, Below(u, t, l, n, x), x.mode = "vmpow",
           NEW y, AfterThread(x, y, l)
    PROVE  Collected(y, u, n+2) /\ Keeps(x, y)
<1> DEFINE h == InSection(t, n+1, {"thread"})
           g == InSection(u, n+2, {"thread"})
<1>1. Longer(u, t, l, n) /\ l.is # "hdr" /\ l.is \notin DOMAIN SectionOf /\ DOMAIN x = CollectorFields
      /\ x.rowIdx \in Nat /\ ThreadRead(x, t, n+1)
  BY BelowIs
<1>2. /\ g = (IF l.is \in {"thread"} THEN n+1 ELSE h) /\ n+1 # 0 /\ u[n+1] = l
      /\ h # 0 => u[h] = t[h]
  BY <1>1, SectionMore
<1>3. x.powThread = IF h = 0 THEN 0 ELSE t[h].vals[1]
  BY <1>1 DEF ThreadRead
<1>4. ThreadRead(y, u, n+2) <=>
         (y.mode = "vmpow" => y.powThread = IF g = 0 THEN 0 ELSE u[g].vals[1])
  BY DEF ThreadRead
<1>5. /\ Keeps(x, y) /\ y.mode = x.mode /\ y.rowIdx = x.rowIdx
      /\ y.powThread = IF l.is = "thread" THEN l.vals[1] ELSE x.powThread
  <2> DEFINE v == IF l.is = "thread" THEN l.vals[1] ELSE x.powThread
  <2>1. y = [x EXCEPT !.powThread = v]
    BY DEF AfterThread
  <2> HIDE DEF v
  <2>2. Keeps(x, y) /\ y.mode = x.mode /\ y.powThread = v /\ y.rowIdx = x.rowIdx
    BY <1>1, <2>1, SetsThread
  <2> QED BY <2>2 DEF v
<1> HIDE DEF h, g
<1>7. y.powThread = IF g = 0 THEN 0 ELSE u[g].vals[1]
  BY <1>2, <1>3, <1>5
<1>8. Framed(y, u, n+2) /\ y.block \notin Dedicated
  BY <1>1, <1>5, BelowFramed
<1> QED BY <1>4, <1>5, <1>7, <1>8, PanioKnows

LEMMA RowsKnow ==
    ASSUME NEW u, NEW t, NEW l, NEW n, NEW x, Below(u, t, l, n, x), x.mode \in RowModes
    PROVE  Collected(x, u, n+2) /\ Keeps(x, x)
<1> DEFINE z == Section(t, n+1)
           A == InText(t, z, n+1, {"gcElapsed"})
           B == InText(u, z, n+2, {"gcElapsed"})
<1>0. /\ x.mode \notin {"gc-elapsed", "cpu15m", "pertask", "ru", "vmpow"}
  BY DEF RowModes
<1>1. Longer(u, t, l, n) /\ l.is # "hdr" /\ l.is \notin DOMAIN SectionOf /\ DOMAIN x = CollectorFields
      /\ x.rowIdx \in Nat /\ GaugeRead(x, t, n+1) /\ FunctionRead(x, t, n+1) /\ Framed(x, t, n+1)
      /\ x.block \notin Dedicated
  BY BelowIs
<1>2. Keeps(x, x)
  BY DEF Keeps
<1>3. Framed(x, u, n+2)
  BY <1>0, <1>1, <1>2, BelowFramed
<1>4. /\ Section(u, n+2) = z /\ (z # 0 => u[z] = t[z])
      /\ B = A \cup (IF l.is \in {"gcElapsed"} THEN {n+1} ELSE {})
      /\ A \in SUBSET (1..n)
  BY <1>1, SectionMore
<1>5. ASSUME x.mode = "gc"
      PROVE  GaugeRead(x, u, n+2)
  <2>1. PICK g \in A : t[g].vals[1] >= GcMinElapsedSeconds /\ InText(t, z, g, {"gcElapsed"}) = {}
    BY <1>1, <1>5 DEF GaugeRead
  <2>2. g \in 1..n
    BY <1>4
  <2>3. g \in 1..n+1 /\ u[g] = t[g]
    <3>1. n \in Nat
      BY <1>1, LongerIs
    <3> QED BY <1>1, <2>2, <3>1, LongerIs
  <2>4. InText(u, z, g, {"gcElapsed"}) = {}
    BY <1>1, <2>1, <2>3, SectionSame
  <2>5. g \in B
    BY <1>4
  <2> HIDE DEF z, A
  <2> QED BY <1>4, <2>1, <2>3, <2>4, <2>5 DEF GaugeRead, B
<1>6. ASSUME x.mode = "procusd"
      PROVE  FunctionRead(x, u, n+2)
  <2>1. z # 0
    BY <1>1, <1>6 DEF Framed
  <2> QED BY <1>1, <1>4, <1>6, <2>1 DEF FunctionRead
<1> QED BY <1>0, <1>1, <1>2, <1>3, <1>5, <1>6, PanioKnows

----------------------------------------------------------------------------
(* The collector after a line of a block with a reader of its own.         *)

LEMMA ReaderFramed ==
    ASSUME NEW u, NEW t, NEW l, NEW n, Longer(u, t, l, n), l.is # "hdr",
           NEW x, NEW y, Framed(x, t, n+1), x.block \in Dedicated, Keeps(x, y), y.rowIdx = x.rowIdx
    PROVE  Framed(y, u, n+2) /\ y.block = x.block
<1>1. y.rowIdx \in Nat
  BY DEF Framed
<1>2. DOMAIN y = DOMAIN x /\ y.ts = x.ts /\ y.haveTs = x.haveTs /\ y.block = x.block
  BY DEF Keeps
<1> QED BY <1>1, <1>2, FramedLine

Stateless == Dedicated \ {"ifconfig", "netstat_stats", "panio_infreq", "cp_stats"}

LEMMA ReaderKnows ==
    ASSUME NEW u, NEW t, NEW l, NEW n, Longer(u, t, l, n), l.is # "hdr",
           NEW x, NEW y, Collected(x, t, n+1), x.block \in Dedicated, Keeps(x, y),
           y.rowIdx = x.rowIdx,
           \/ x.block \in Stateless
           \/ x.block = "ifconfig" /\ InIfconfig(y, u, n+2)
           \/ x.block = "netstat_stats" /\ InStats(y, u, n+2)
           \/ x.block = "panio_infreq" /\ InApps(y, u, n+2)
           \/ x.block = "cp_stats" /\ InObjects(y, u, n+2)
    PROVE  Collected(y, u, n+2)
<1>1. Framed(x, t, n+1)
  BY DEF Collected
<1>2. Framed(y, u, n+2) /\ y.block = x.block
  BY <1>1, ReaderFramed
<1> QED BY <1>2 DEF Collected, Stateless

AfterIfconfig(x, y, l) ==
    y = CASE l.is = "iface" -> [x EXCEPT !.curIface = l.name, !.rxtxDir = ""]
          [] l.is = "rxtx" /\ x.curIface # "" -> [x EXCEPT !.rxtxDir = l.name, !.rxtxCols = l.vals[1]]
          [] l.is = "bare" /\ x.rxtxDir # "" -> [x EXCEPT !.rxtxDir = ""]
          [] OTHER -> x

Ifconfig(y, curIface, rxtxDir, rxtxCols) ==
    y.curIface = curIface /\ y.rxtxDir = rxtxDir /\ y.rxtxCols = rxtxCols

LEMMA AfterIfconfigIs ==
    ASSUME NEW x, NEW y, NEW l, DOMAIN x = CollectorFields, AfterIfconfig(x, y, l)
    PROVE  /\ Keeps(x, y) /\ y.rowIdx = x.rowIdx
           /\ l.is = "iface" => Ifconfig(y, l.name, "", x.rxtxCols)
           /\ l.is = "rxtx" /\ x.curIface # "" => Ifconfig(y, x.curIface, l.name, l.vals[1])
           /\ l.is = "bare" /\ x.rxtxDir # "" => Ifconfig(y, x.curIface, "", x.rxtxCols)
           /\ l.is # "iface" /\ ~(l.is = "rxtx" /\ x.curIface # "")
                 /\ ~(l.is = "bare" /\ x.rxtxDir # "") =>
                    Ifconfig(y, x.curIface, x.rxtxDir, x.rxtxCols)
<1>1. CASE l.is = "iface"
  <2>1. y = [x EXCEPT !.curIface = l.name, !.rxtxDir = ""]
    BY <1>1 DEF AfterIfconfig
  <2> QED BY <1>1, <2>1, FieldNames DEF Keeps, FrameFields, Ifconfig
<1>2. CASE l.is = "rxtx" /\ x.curIface # ""
  <2>1. y = [x EXCEPT !.rxtxDir = l.name, !.rxtxCols = l.vals[1]]
    BY <1>2 DEF AfterIfconfig
  <2> QED BY <1>2, <2>1, FieldNames DEF Keeps, FrameFields, Ifconfig
<1>3. CASE l.is = "bare" /\ x.rxtxDir # ""
  <2>1. y = [x EXCEPT !.rxtxDir = ""]
    BY <1>3 DEF AfterIfconfig
  <2> QED BY <1>3, <2>1, FieldNames DEF Keeps, FrameFields, Ifconfig
<1>4. CASE /\ l.is # "iface" /\ ~(l.is = "rxtx" /\ x.curIface # "")
           /\ ~(l.is = "bare" /\ x.rxtxDir # "")
  <2>1. y = x
    BY <1>4 DEF AfterIfconfig
  <2> QED BY <1>4, <2>1 DEF Keeps, Ifconfig
<1> QED BY <1>1, <1>2, <1>3, <1>4

LEMMA IfconfigKnows ==
    ASSUME NEW u, NEW t, NEW l, NEW n, Longer(u, t, l, n), l.is # "hdr",
           NEW x, NEW y, Collected(x, t, n+1), x.block = "ifconfig", AfterIfconfig(x, y, l)
    PROVE  Collected(y, u, n+2) /\ Keeps(x, y)
<1> DEFINE S == {"iface"}
           R == {"rxtx", "bare", "iface"}
           i == InBlock(t, n+1, S)
           j == InBlock(u, n+2, S)
           d == InBlock(t, n+1, R)
           g == InBlock(u, n+2, R)
<1>1. DOMAIN x = CollectorFields /\ InIfconfig(x, t, n+1) /\ x.block \in Dedicated
  BY DEF Collected, Framed, Dedicated
<1>2. j = (IF l.is \in S THEN n+1 ELSE i) /\ (i # 0 => u[i] = t[i]) /\ n+1 # 0 /\ u[n+1] = l
  <2> HIDE DEF S
  <2> QED BY BlockMore
<1>3. g = (IF l.is \in R THEN n+1 ELSE d) /\ (d # 0 => u[d] = t[d])
  <2> HIDE DEF R
  <2> QED BY BlockMore
<1>4. /\ x.curIface # "" => i # 0 /\ t[i].name = x.curIface
      /\ x.rxtxDir # "" => /\ x.curIface # "" /\ d # 0 /\ t[d].is = "rxtx"
                           /\ x.rxtxDir = t[d].name /\ x.rxtxCols = t[d].vals[1]
  BY <1>1 DEF InIfconfig
<1>5. InIfconfig(y, u, n+2) <=>
         /\ y.curIface # "" => j # 0 /\ u[j].name = y.curIface
         /\ y.rxtxDir # "" => /\ y.curIface # "" /\ g # 0 /\ u[g].is = "rxtx"
                              /\ y.rxtxDir = u[g].name /\ y.rxtxCols = u[g].vals[1]
  BY DEF InIfconfig
<1> HIDE DEF i, j, d, g
<1>6. /\ Keeps(x, y) /\ y.rowIdx = x.rowIdx
      /\ l.is = "iface" => Ifconfig(y, l.name, "", x.rxtxCols)
      /\ l.is = "rxtx" /\ x.curIface # "" => Ifconfig(y, x.curIface, l.name, l.vals[1])
      /\ l.is = "bare" /\ x.rxtxDir # "" => Ifconfig(y, x.curIface, "", x.rxtxCols)
      /\ l.is # "iface" /\ ~(l.is = "rxtx" /\ x.curIface # "")
            /\ ~(l.is = "bare" /\ x.rxtxDir # "") =>
               Ifconfig(y, x.curIface, x.rxtxDir, x.rxtxCols)
  BY <1>1, AfterIfconfigIs
<1>7. InIfconfig(y, u, n+2)
  <2>1. CASE l.is = "iface"
    BY <1>2, <1>5, <1>6, <2>1 DEF Ifconfig
  <2>2. CASE l.is = "rxtx" /\ x.curIface # ""
    BY <1>2, <1>3, <1>4, <1>5, <1>6, <2>2 DEF Ifconfig
  <2>3. CASE l.is = "bare" /\ x.rxtxDir # ""
    BY <1>2, <1>4, <1>5, <1>6, <2>3 DEF Ifconfig
  <2>4. CASE /\ l.is # "iface" /\ ~(l.is = "rxtx" /\ x.curIface # "")
             /\ ~(l.is = "bare" /\ x.rxtxDir # "")
    <3>1. Ifconfig(y, x.curIface, x.rxtxDir, x.rxtxCols)
      BY <1>6, <2>4
    <3>2. x.rxtxDir # "" => g = d
      BY <1>3, <1>4, <2>4
    <3>3. j = i
      BY <1>2, <2>4
    <3> QED BY <1>2, <1>3, <1>4, <1>5, <3>1, <3>2, <3>3 DEF Ifconfig
  <2> QED BY <2>1, <2>2, <2>3, <2>4
<1> QED BY <1>1, <1>6, <1>7, ReaderKnows

AfterStats(x, y, l) == y = IF l.is = "section" THEN [x EXCEPT !.nsSection = l.name] ELSE x

LEMMA StatsKnow ==
    ASSUME NEW u, NEW t, NEW l, NEW n, Longer(u, t, l, n), l.is # "hdr",
           NEW x, NEW y, Collected(x, t, n+1), x.block = "netstat_stats", AfterStats(x, y, l)
    PROVE  Collected(y, u, n+2) /\ Keeps(x, y)
<1> DEFINE i == InBlock(t, n+1, {"section"})
           j == InBlock(u, n+2, {"section"})
<1>1. DOMAIN x = CollectorFields /\ InStats(x, t, n+1) /\ x.block \in Dedicated
  BY DEF Collected, Framed, Dedicated
<1>2. j = (IF l.is \in {"section"} THEN n+1 ELSE i) /\ (i # 0 => u[i] = t[i]) /\ n+1 # 0 /\ u[n+1] = l
  BY BlockMore
<1>3. x.nsSection # "" => i # 0 /\ x.nsSection = t[i].name
  BY <1>1 DEF InStats
<1>4. InStats(y, u, n+2) <=> (y.nsSection # "" => j # 0 /\ y.nsSection = u[j].name)
  BY DEF InStats
<1> HIDE DEF i, j
<1>5. Keeps(x, y) /\ y.rowIdx = x.rowIdx /\ InStats(y, u, n+2)
  <2>1. CASE l.is = "section"
    <3>1. y = [x EXCEPT !.nsSection = l.name]
      BY <2>1 DEF AfterStats
    <3>2. Keeps(x, y) /\ y.rowIdx = x.rowIdx /\ y.nsSection = l.name
      BY <1>1, <3>1, FieldNames DEF Keeps, FrameFields
    <3> QED BY <1>2, <1>4, <2>1, <3>2
  <2>2. CASE l.is # "section"
    <3>1. y = x /\ Keeps(x, y)
      BY <2>2 DEF AfterStats, Keeps
    <3> QED BY <1>2, <1>3, <1>4, <2>2, <3>1
  <2> QED BY <2>1, <2>2
<1> QED BY <1>1, <1>5, ReaderKnows

AfterApps(x, y, l) == y = IF l.is = "vsys" THEN [x EXCEPT !.appVsys = l.vals[1]] ELSE x

LEMMA AppsKnow ==
    ASSUME NEW u, NEW t, NEW l, NEW n, Longer(u, t, l, n), l.is # "hdr",
           NEW x, NEW y, Collected(x, t, n+1), x.block = "panio_infreq", AfterApps(x, y, l)
    PROVE  Collected(y, u, n+2) /\ Keeps(x, y)
<1> DEFINE i == InBlock(t, n+1, {"vsys"})
           j == InBlock(u, n+2, {"vsys"})
<1>1. DOMAIN x = CollectorFields /\ InApps(x, t, n+1) /\ x.block \in Dedicated
  BY DEF Collected, Framed, Dedicated
<1>2. j = (IF l.is \in {"vsys"} THEN n+1 ELSE i) /\ (i # 0 => u[i] = t[i]) /\ n+1 # 0 /\ u[n+1] = l
  BY BlockMore
<1>3. x.appVsys = IF i = 0 THEN 0 ELSE t[i].vals[1]
  BY <1>1 DEF InApps
<1>4. InApps(y, u, n+2) <=> y.appVsys = IF j = 0 THEN 0 ELSE u[j].vals[1]
  BY DEF InApps
<1> HIDE DEF i, j
<1>5. Keeps(x, y) /\ y.rowIdx = x.rowIdx /\ InApps(y, u, n+2)
  <2>1. CASE l.is = "vsys"
    <3>1. y = [x EXCEPT !.appVsys = l.vals[1]]
      BY <2>1 DEF AfterApps
    <3>2. Keeps(x, y) /\ y.rowIdx = x.rowIdx /\ y.appVsys = l.vals[1]
      BY <1>1, <3>1, FieldNames DEF Keeps, FrameFields
    <3> QED BY <1>2, <1>4, <2>1, <3>2
  <2>2. CASE l.is # "vsys"
    <3>1. y = x /\ Keeps(x, y)
      BY <2>2 DEF AfterApps, Keeps
    <3> QED BY <1>2, <1>3, <1>4, <2>2, <3>1
  <2> QED BY <2>1, <2>2
<1> QED BY <1>1, <1>5, ReaderKnows

----------------------------------------------------------------------------
(* The objects of cp_stats.                                                *)

LEMMA CountMore ==
    ASSUME NEW u, NEW t, NEW l, NEW n, Longer(u, t, l, n), NEW from \in 0..n, NEW S
    PROVE  /\ Cardinality(InText(t, from, n+1, S)) \in Nat
           /\ Cardinality(InText(u, from, n+2, S))
                 = Cardinality(InText(t, from, n+1, S)) + IF l.is \in S THEN 1 ELSE 0
<1> DEFINE P == InText(t, from, n+1, S)
           Q == InText(u, from, n+2, S)
<1>1. Q = P \cup (IF l.is \in S THEN {n+1} ELSE {}) /\ n+1 \notin P /\ n \in Nat
  BY OneMore
<1>2. IsFiniteSet(P) /\ Cardinality(P) \in Nat
  <2>1. from \in Nat /\ n \in Nat
    BY <1>1
  <2> QED BY <2>1, BehindIs
<1> HIDE DEF P, Q
<1>3. CASE l.is \in S
  <2>1. Cardinality(Q) = Cardinality(P) + 1
    BY <1>1, <1>2, <1>3, FS_AddElement
  <2> QED BY <1>2, <1>3, <2>1 DEF P, Q
<1>4. CASE l.is \notin S
  BY <1>1, <1>2, <1>4 DEF P, Q
<1> QED BY <1>3, <1>4

Step(l) == IF l.is = "open" THEN 1 ELSE IF l.is = "close" THEN -1 ELSE 0

LEMMA DepthMore ==
    ASSUME NEW u, NEW t, NEW l, NEW n, Longer(u, t, l, n), NEW j \in 1..n+1
    PROVE  /\ Depth(t, j, n+1) \in Int
           /\ Depth(u, j, n+2) = Depth(t, j, n+1) + Step(l)
<1> DEFINE a == Cardinality(InText(t, j-1, n+1, {"open"}))
           b == Cardinality(InText(t, j-1, n+1, {"close"}))
           f == Cardinality(InText(u, j-1, n+2, {"open"}))
           g == Cardinality(InText(u, j-1, n+2, {"close"}))
<1>1. j - 1 \in 0..n
  BY LongerIs
<1>2. a \in Nat /\ f = a + IF l.is \in {"open"} THEN 1 ELSE 0
  BY <1>1, CountMore
<1>3. b \in Nat /\ g = b + IF l.is \in {"close"} THEN 1 ELSE 0
  BY <1>1, CountMore
<1>4. Depth(t, j, n+1) = a - b /\ Depth(u, j, n+2) = f - g
  BY DEF Depth
<1> HIDE DEF a, b, f, g
<1>5. CASE l.is = "open"
  BY <1>2, <1>3, <1>4, <1>5 DEF Step
<1>6. CASE l.is = "close"
  BY <1>2, <1>3, <1>4, <1>6 DEF Step
<1>7. CASE l.is \notin {"open", "close"}
  BY <1>2, <1>3, <1>4, <1>7 DEF Step
<1> QED BY <1>5, <1>6, <1>7

LEMMA DepthSame ==
    ASSUME NEW u, NEW t, NEW l, NEW n, Longer(u, t, l, n)
    PROVE  /\ \A j \in 1..n : \A x \in j..n : Depth(u, j, x+1) = Depth(t, j, x+1)
           /\ Depth(t, n+1, n+1) = 0
<1>1. n \in Nat
  BY LongerIs
<1>2. ASSUME NEW j \in 1..n, NEW x \in j..n
      PROVE  Depth(u, j, x+1) = Depth(t, j, x+1)
  <2>1. j - 1 \in Nat /\ x+1 \in 1..n+1
    BY <1>1
  <2>2. \A S : InText(u, j-1, x+1, S) = InText(t, j-1, x+1, S)
    BY <2>1, SameBefore
  <2> QED BY <2>2 DEF Depth
<1>3. Depth(t, n+1, n+1) = 0
  <2> DEFINE A(S) == InText(t, (n+1) - 1, n+1, S)
  <2>1. \A S : A(S) = {}
    BY <1>1 DEF InText
  <2>2. Depth(t, n+1, n+1) = Cardinality(A({"open"})) - Cardinality(A({"close"}))
    BY DEF Depth
  <2> HIDE DEF A
  <2>3. Cardinality({}) = 0
    BY FS_EmptySet
  <2>4. A({"open"}) = {} /\ A({"close"}) = {}
    BY <2>1
  <2>5. Depth(t, n+1, n+1) = 0 - 0
    BY <2>2, <2>3, <2>4
  <2> QED BY <2>5
<1> QED BY <1>2, <1>3

\* An object stays open until a line closes it.
LEMMA OpenMore ==
    ASSUME NEW u, NEW t, NEW l, NEW n, Longer(u, t, l, n), l.is # "hdr"
    PROVE  \A j : j \in OpenText(u, n+2) <=>
              \/ j \in OpenText(t, n+1) /\ Depth(t, j, n+1) + Step(l) > 0
              \/ j = n+1 /\ l.is = "open"
<1> DEFINE b == Start(t, n+1)
           P == InText(t, b, n+1, {"open"})
           Q == InText(u, b, n+2, {"open"})
<1>0. n \in Nat /\ b \in 0..n /\ b \in Nat /\ Start(u, n+2) = b
  <2>1. n \in Nat /\ b \in 0..n /\ Start(u, n+2) = b
    BY FrameLine, LongerIs
  <2> HIDE DEF b
  <2> QED BY <2>1
<1> HIDE DEF b
<1>1. Q = P \cup (IF l.is \in {"open"} THEN {n+1} ELSE {}) /\ n+1 \notin P
  BY <1>0, OneMore
<1>2. P \in SUBSET (1..n)
  BY <1>0, BehindIs
<1>3. \A j : j \in OpenText(t, n+1) <=> j \in P /\ \A x \in j..n : Depth(t, j, x+1) > 0
  <2>1. \A j : j..(n+1)-1 = j..n
    <3>1. (n+1) - 1 = n
      BY <1>0
    <3> QED BY <3>1
  <2>2. \A j : j \in OpenText(t, n+1) <=> j \in P /\ \A x \in j..(n+1)-1 : Depth(t, j, x+1) > 0
    BY DEF OpenText, b
  <2> HIDE DEF P
  <2> QED BY <2>1, <2>2
<1>4. \A j : j \in OpenText(u, n+2) <=> j \in Q /\ \A x \in j..n+1 : Depth(u, j, x+1) > 0
  <2>1. \A j : j..(n+2)-1 = j..n+1
    <3>1. (n+2) - 1 = n+1
      BY <1>0
    <3> QED BY <3>1
  <2>2. \A j : j \in OpenText(u, n+2) <=> j \in Q /\ \A x \in j..(n+2)-1 : Depth(u, j, x+1) > 0
    BY <1>0 DEF OpenText
  <2> HIDE DEF Q
  <2> QED BY <2>1, <2>2
<1> HIDE DEF P, Q
<1>5. ASSUME NEW j \in 1..n
      PROVE  (\A x \in j..n+1 : Depth(u, j, x+1) > 0) <=>
                (\A x \in j..n : Depth(t, j, x+1) > 0) /\ Depth(t, j, n+1) + Step(l) > 0
  <2>1. \A x : x \in j..n+1 <=> x \in j..n \/ x = n+1
    BY <1>0
  <2>2. n + 1 + 1 = n + 2 /\ j \in 1..n+1
    BY <1>0
  <2>3. Depth(u, j, n+2) = Depth(t, j, n+1) + Step(l)
    BY <2>2, DepthMore
  <2>4. \A x \in j..n : Depth(u, j, x+1) = Depth(t, j, x+1)
    BY DepthSame
  <2> QED BY <2>1, <2>2, <2>3, <2>4
<1>6. l.is = "open" => \A x \in n+1..n+1 : Depth(u, n+1, x+1) > 0
  <2>1. n+1 \in 1..n+1 /\ n+1+1 = n+2 /\ \A x \in n+1..n+1 : x = n+1
    BY <1>0
  <2>2. Depth(u, n+1, n+2) = Depth(t, n+1, n+1) + Step(l) /\ Depth(t, n+1, n+1) = 0
    BY <2>1, DepthMore, DepthSame
  <2>3. l.is = "open" => Depth(u, n+1, n+2) > 0
    BY <2>2 DEF Step
  <2> QED BY <2>1, <2>3
<1> TAKE j
<1>7. CASE j \in P
  <2>1. j \in 1..n /\ j # n+1 /\ j \in Q
    BY <1>1, <1>2, <1>7
  <2> QED BY <1>3, <1>4, <1>5, <1>7, <2>1
<1>8. CASE j \notin P
  <2>1. j \notin OpenText(t, n+1)
    BY <1>3, <1>8
  <2>2. j \in Q <=> j = n+1 /\ l.is = "open"
    BY <1>1, <1>8
  <2> QED BY <1>4, <1>6, <2>1, <2>2
<1> QED BY <1>7, <1>8

AfterObjects(x, y, l) ==
    y = CASE l.is = "open" -> [x EXCEPT !.cpsPath = Append(@, l.name)]
          [] l.is = "close" /\ x.cpsPath # <<>> -> [x EXCEPT !.cpsPath = SubSeq(@, 1, Len(@) - 1)]
          [] OTHER -> x

LEMMA SetsPath ==
    ASSUME NEW x, DOMAIN x = CollectorFields, NEW v, NEW y, y = [x EXCEPT !.cpsPath = v]
    PROVE  Keeps(x, y) /\ y.rowIdx = x.rowIdx /\ y.cpsPath = v
BY FieldNames DEF Keeps, FrameFields

LEMMA AfterObjectsIs ==
    ASSUME NEW x, NEW y, NEW l, DOMAIN x = CollectorFields, AfterObjects(x, y, l)
    PROVE  /\ Keeps(x, y) /\ y.rowIdx = x.rowIdx
           /\ l.is = "open" => y.cpsPath = Append(x.cpsPath, l.name)
           /\ l.is = "close" /\ x.cpsPath # <<>> =>
                 y.cpsPath = SubSeq(x.cpsPath, 1, Len(x.cpsPath) - 1)
           /\ l.is # "open" /\ ~(l.is = "close" /\ x.cpsPath # <<>>) => y.cpsPath = x.cpsPath
<1>1. CASE l.is = "open"
  <2> DEFINE v == Append(x.cpsPath, l.name)
  <2>1. y = [x EXCEPT !.cpsPath = v]
    BY <1>1 DEF AfterObjects
  <2> HIDE DEF v
  <2>2. Keeps(x, y) /\ y.rowIdx = x.rowIdx /\ y.cpsPath = v
    BY <2>1, SetsPath
  <2> QED BY <1>1, <2>2 DEF v
<1>2. CASE l.is = "close" /\ x.cpsPath # <<>>
  <2> DEFINE v == SubSeq(x.cpsPath, 1, Len(x.cpsPath) - 1)
  <2>1. y = [x EXCEPT !.cpsPath = v]
    BY <1>2 DEF AfterObjects
  <2> HIDE DEF v
  <2>2. Keeps(x, y) /\ y.rowIdx = x.rowIdx /\ y.cpsPath = v
    BY <2>1, SetsPath
  <2> QED BY <1>2, <2>2 DEF v
<1>3. CASE l.is # "open" /\ ~(l.is = "close" /\ x.cpsPath # <<>>)
  <2>1. y = x
    BY <1>3 DEF AfterObjects
  <2> QED BY <1>3, <2>1 DEF Keeps
<1> QED BY <1>1, <1>2, <1>3

\* The stack of a text, by the objects that are open in it.
Stacked(path, t, e, o) ==
    /\ path \in Seq(STRING) /\ Len(path) = Cardinality(o)
    /\ \A p \in 1..Cardinality(o) : /\ path[p] = t[Ascending(o)[p]].name
                                    /\ Depth(t, Ascending(o)[p], e) = Cardinality(o) - p + 1

LEMMA OpenBehind ==
    ASSUME NEW t, NEW n \in Nat
    PROVE  /\ OpenText(t, n+1) \in SUBSET (1..n) /\ OpenText(t, n+1) \in SUBSET Nat
           /\ IsFiniteSet(OpenText(t, n+1)) /\ Cardinality(OpenText(t, n+1)) \in Nat
<1>1. n+1 \in Nat \ {0}
  OBVIOUS
<1>2. /\ OpenText(t, n+1) \in SUBSET (1..(n+1)-1) /\ OpenText(t, n+1) \in SUBSET Nat
      /\ IsFiniteSet(OpenText(t, n+1)) /\ Cardinality(OpenText(t, n+1)) \in Nat
  BY <1>1, OpenTextIs
<1>3. 1..(n+1)-1 = 1..n
  OBVIOUS
<1> QED BY <1>2, <1>3

LEMMA StackedOpen ==
    ASSUME NEW u, NEW t, NEW l, NEW n, Longer(u, t, l, n), l.is = "open",
           NEW path, Stacked(path, t, n+1, OpenText(t, n+1))
    PROVE  Stacked(Append(path, l.name), u, n+2, OpenText(u, n+2))
<1> DEFINE o == OpenText(t, n+1)
           w == OpenText(u, n+2)
           m == Cardinality(o)
           a == Ascending(o)
           b == Ascending(w)
           q == Append(path, l.name)
<1>0. /\ n \in Nat /\ l \in Line /\ l.name \in STRING /\ l.is # "hdr" /\ u[n+1] = l
      /\ \A j \in 1..n : u[j] = t[j]
  <2>1. n \in Nat /\ l \in Line /\ u[n+1] = l /\ \A j \in 1..n : u[j] = t[j]
    BY LongerIs
  <2>2. l.name \in STRING
    BY <2>1 DEF Line
  <2> QED BY <2>1, <2>2
<1>1. o \in SUBSET (1..n) /\ o \in SUBSET Nat /\ IsFiniteSet(o) /\ m \in Nat
  BY <1>0, OpenBehind
<1>2. /\ path \in Seq(STRING) /\ Len(path) = m
      /\ \A p \in 1..m : path[p] = t[a[p]].name /\ Depth(t, a[p], n+1) = m - p + 1
  BY DEF Stacked
<1>3. \A p \in 1..m : a[p] \in o
  BY <1>1, AscendingIs
<1>4. \A j : j \in w <=> (j \in o /\ Depth(t, j, n+1) + 1 > 0) \/ j = n+1
  BY <1>0, OpenMore DEF Step
<1> HIDE DEF o, w
<1>5. \A j \in o : Depth(t, j, n+1) + 1 > 0
  <2> TAKE j \in o
  <2>1. PICK p \in 1..m : a[p] = j
    BY <1>1, AscendingIs
  <2>2. Depth(t, j, n+1) = m - p + 1
    BY <1>2, <2>1
  <2> HIDE DEF m, a
  <2> QED BY <1>1, <2>2
<1>6. w = o \cup {n+1}
  BY <1>4, <1>5
<1>7. \A j \in o : j < n+1
  BY <1>0, <1>1
<1>8. Cardinality(w) = m + 1 /\ b = Append(a, n+1)
  <2>1. n+1 \in Nat
    BY <1>0
  <2> QED BY <1>1, <1>6, <1>7, <2>1, AscendingAppend
<1>9. a \in Seq(o) /\ Len(a) = m
  BY <1>1, AscendingIs
<1>10. b[m+1] = n+1 /\ \A p \in 1..m : b[p] = a[p]
  <2> HIDE DEF a, b
  <2> QED BY <1>1, <1>8, <1>9
<1>11. /\ q \in Seq(STRING) /\ Len(q) = m + 1 /\ q[m+1] = l.name
       /\ \A p \in 1..m : q[p] = path[p]
  BY <1>0, <1>1, <1>2
<1> HIDE DEF m, a, b, q
<1>12. ASSUME NEW p \in 1..m+1
       PROVE  q[p] = u[b[p]].name /\ Depth(u, b[p], n+2) = (m+1) - p + 1
  <2>1. CASE p \in 1..m
    <3>0. \A j \in o : j \in 1..n /\ j \in 1..n+1
      BY <1>0, <1>1
    <3>1. a[p] \in 1..n /\ a[p] \in 1..n+1
      BY <1>3, <2>1, <3>0
    <3>2. Depth(u, a[p], n+2) = Depth(t, a[p], n+1) + Step(l)
      BY <3>1, DepthMore
    <3>3. Depth(u, a[p], n+2) = (m - p + 1) + 1
      BY <1>0, <1>2, <2>1, <3>2 DEF Step
    <3>4. Depth(u, a[p], n+2) = (m+1) - p + 1
      BY <1>1, <3>3
    <3> QED BY <1>0, <1>2, <1>10, <1>11, <2>1, <3>1, <3>4
  <2>2. CASE p = m+1
    <3>1. n+1 \in 1..n+1
      BY <1>0
    <3>2. Depth(u, n+1, n+2) = 0 + 1
      BY <3>1, DepthMore, DepthSame DEF Step
    <3>3. (m+1) - p + 1 = 1
      BY <1>1, <2>2
    <3> QED BY <1>0, <1>10, <1>11, <2>2, <3>2, <3>3
  <2> QED BY <1>1, <2>1, <2>2
<1> QED BY <1>8, <1>11, <1>12 DEF Stacked, w, q, b

LEMMA StackedClose ==
    ASSUME NEW u, NEW t, NEW l, NEW n, Longer(u, t, l, n), l.is = "close",
           NEW path, Stacked(path, t, n+1, OpenText(t, n+1)), path # <<>>
    PROVE  Stacked(SubSeq(path, 1, Len(path) - 1), u, n+2, OpenText(u, n+2))
<1> DEFINE o == OpenText(t, n+1)
           w == OpenText(u, n+2)
           m == Cardinality(o)
           a == Ascending(o)
           b == Ascending(w)
           q == SubSeq(path, 1, Len(path) - 1)
<1>0. /\ n \in Nat /\ l.is # "hdr" /\ l.is # "open" /\ \A j \in 1..n : u[j] = t[j]
  BY LongerIs
<1>1. o \in SUBSET (1..n) /\ o \in SUBSET Nat /\ IsFiniteSet(o) /\ m \in Nat
  BY <1>0, OpenBehind
<1>2. /\ path \in Seq(STRING) /\ Len(path) = m
      /\ \A p \in 1..m : path[p] = t[a[p]].name /\ Depth(t, a[p], n+1) = m - p + 1
  BY DEF Stacked
<1>3. /\ \A p \in 1..m : a[p] \in o
      /\ \A p, r \in 1..m : p < r => a[p] < a[r]
      /\ \A j \in o : \E p \in 1..m : a[p] = j
  BY <1>1, AscendingIs
<1>4. \A j : j \in w <=> (j \in o /\ Depth(t, j, n+1) - 1 > 0)
  <2>1. \A j : j \in w <=> (j \in o /\ Depth(t, j, n+1) + (-1) > 0)
    BY <1>0, OpenMore DEF Step
  <2>2. \A j \in o : Depth(t, j, n+1) \in Int
    <3>1. \A j \in o : j \in 1..n+1
      BY <1>0, <1>1
    <3> QED BY <3>1, DepthMore
  <2> HIDE DEF o, w
  <2> QED BY <2>1, <2>2
<1>5. m \in Nat \ {0} /\ m - 1 \in Nat
  BY <1>1, <1>2
<1> HIDE DEF o, w, m, a
<1>6. \A p \in 1..m : a[p] \in w <=> p # m
  <2> TAKE p \in 1..m
  <2>1. a[p] \in w <=> (m - p + 1) - 1 > 0
    BY <1>2, <1>3, <1>4
  <2> QED BY <1>5, <2>1
<1>7. w = o \ {a[m]}
  <2>1. ASSUME NEW j
        PROVE  j \in w <=> j \in o /\ j # a[m]
    <3>1. CASE j \in o
      <4>1. PICK p \in 1..m : a[p] = j
        BY <1>3, <3>1
      <4>2. p = m \/ p < m
        BY <1>5
      <4>3. p < m => a[p] < a[m]
        BY <1>3, <1>5
      <4>4. a[p] \in Nat /\ a[m] \in Nat
        <5>1. m \in 1..m
          BY <1>5
        <5>2. a[p] \in o /\ a[m] \in o
          BY <1>3, <5>1
        <5> QED BY <1>1, <5>2
      <4>5. p # m => a[p] # a[m]
        BY <4>2, <4>3, <4>4
      <4> QED BY <1>6, <3>1, <4>1, <4>5
    <3>2. CASE j \notin o
      BY <1>4, <3>2
    <3> QED BY <3>1, <3>2
  <2> QED BY <2>1
<1>8. a[m] \in o
  BY <1>3, <1>5
<1>9. Cardinality(w) = m - 1 /\ w \in SUBSET o
  BY <1>1, <1>7, <1>8, FS_RemoveElement DEF m
<1>10. \A p \in 1..m-1 : b[p] = a[p]
  <2>1. \A x \in w : \A y \in o \ w : x < y
    <3> SUFFICES ASSUME NEW x \in w, NEW y \in o \ w
                 PROVE  x < y
      OBVIOUS
    <3>1. x \in o /\ x # a[m] /\ y = a[m]
      BY <1>7
    <3>2. PICK p \in 1..m : a[p] = x
      BY <1>3, <3>1
    <3>3. p # m
      BY <3>1, <3>2
    <3>4. p < m
      BY <1>5, <3>3
    <3> QED BY <1>3, <1>5, <3>1, <3>2, <3>4
  <2>2. \A p \in 1..Cardinality(w) : Ascending(w)[p] = Ascending(o)[p]
    BY <1>1, <1>9, <2>1, AscendingInitial
  <2> QED BY <1>9, <2>2 DEF a, b
<1>11. /\ q \in Seq(STRING) /\ Len(q) = m - 1
       /\ \A p \in 1..m-1 : q[p] = path[p]
  <2>1. /\ q = [p \in 1..m-1 |-> path[p]]
    BY <1>2, <1>5
  <2>2. \A p \in 1..m-1 : path[p] \in STRING
    BY <1>2, <1>5
  <2> HIDE DEF q
  <2> QED BY <1>5, <2>1, <2>2
<1> HIDE DEF b, q
<1>12. ASSUME NEW p \in 1..m-1
       PROVE  q[p] = u[b[p]].name /\ Depth(u, b[p], n+2) = (m-1) - p + 1
  <2>1. p \in 1..m
    BY <1>5
  <2>0. \A j \in o : j \in 1..n /\ j \in 1..n+1
    <3>1. \A j \in o : j \in 1..n
      BY <1>1
    <3>2. \A j \in 1..n : j \in 1..n+1
      BY <1>0
    <3> HIDE DEF o
    <3> QED BY <3>1, <3>2
  <2>2. a[p] \in 1..n /\ a[p] \in 1..n+1
    BY <1>3, <2>0, <2>1
  <2>3. Depth(u, a[p], n+2) = Depth(t, a[p], n+1) + Step(l)
    BY <2>2, DepthMore
  <2>4. Depth(u, a[p], n+2) = (m - p + 1) + (-1)
    BY <1>0, <1>2, <2>1, <2>3 DEF Step
  <2>5. Depth(u, a[p], n+2) = (m-1) - p + 1
    BY <1>5, <2>4
  <2> QED BY <1>0, <1>2, <1>10, <1>11, <2>1, <2>2, <2>5
<1> QED BY <1>9, <1>11, <1>12 DEF Stacked, w, q, b

LEMMA StackedSame ==
    ASSUME NEW u, NEW t, NEW l, NEW n, Longer(u, t, l, n), l.is # "hdr",
           NEW path, Stacked(path, t, n+1, OpenText(t, n+1)),
           l.is \notin {"open", "close"} \/ (l.is = "close" /\ path = <<>>)
    PROVE  Stacked(path, u, n+2, OpenText(u, n+2))
<1> DEFINE o == OpenText(t, n+1)
           w == OpenText(u, n+2)
           m == Cardinality(o)
           a == Ascending(o)
<1>0. n \in Nat /\ l.is # "open" /\ \A j \in 1..n : u[j] = t[j]
  BY LongerIs
<1>1. o \in SUBSET (1..n) /\ o \in SUBSET Nat /\ IsFiniteSet(o) /\ m \in Nat
  BY <1>0, OpenBehind
<1>2. /\ path \in Seq(STRING) /\ Len(path) = m
      /\ \A p \in 1..m : path[p] = t[a[p]].name /\ Depth(t, a[p], n+1) = m - p + 1
  BY DEF Stacked
<1>3. (\A p \in 1..m : a[p] \in o) /\ \A j \in o : \E p \in 1..m : a[p] = j
  BY <1>1, AscendingIs
<1>4. \A j : j \in w <=> (j \in o /\ Depth(t, j, n+1) + Step(l) > 0)
  BY <1>0, OpenMore
<1> HIDE DEF o, w, m, a
<1>5. o # {} => Step(l) = 0
  <2>1. path = <<>> => m = 0
    BY <1>2
  <2>2. m = 0 => o = {}
    BY <1>3
  <2> QED BY <2>1, <2>2 DEF Step
<1>6. \A j \in o : Depth(t, j, n+1) > 0 /\ Depth(t, j, n+1) \in Int
  <2> TAKE j \in o
  <2>1. PICK p \in 1..m : a[p] = j
    BY <1>3
  <2>2. Depth(t, j, n+1) = m - p + 1
    BY <1>2, <2>1
  <2> QED BY <1>1, <2>2
<1>7. w = o
  <2>1. \A j \in o : Depth(t, j, n+1) + Step(l) > 0
    BY <1>5, <1>6
  <2> QED BY <1>4, <2>1
<1>8. ASSUME NEW p \in 1..m
      PROVE  path[p] = u[a[p]].name /\ Depth(u, a[p], n+2) = m - p + 1
  <2>0. \A j \in o : j \in 1..n /\ j \in 1..n+1
    <3>1. \A j \in o : j \in 1..n
      BY <1>1
    <3>2. \A j \in 1..n : j \in 1..n+1
      BY <1>0
    <3> HIDE DEF o
    <3> QED BY <3>1, <3>2
  <2>1. a[p] \in o /\ a[p] \in 1..n /\ a[p] \in 1..n+1
    BY <1>3, <2>0
  <2>2. Depth(u, a[p], n+2) = Depth(t, a[p], n+1) + Step(l)
    BY <2>1, DepthMore
  <2>3. Depth(u, a[p], n+2) = Depth(t, a[p], n+1)
    BY <1>5, <1>6, <2>1, <2>2
  <2> QED BY <1>0, <1>2, <2>1, <2>3
<1> QED BY <1>2, <1>7, <1>8 DEF Stacked, w, m, a

LEMMA ObjectsKnow ==
    ASSUME NEW u, NEW t, NEW l, NEW n, Longer(u, t, l, n), l.is # "hdr",
           NEW x, NEW y, Collected(x, t, n+1), x.block = "cp_stats", AfterObjects(x, y, l)
    PROVE  Collected(y, u, n+2) /\ Keeps(x, y)
<1>1. DOMAIN x = CollectorFields /\ InObjects(x, t, n+1) /\ x.block \in Dedicated
  BY DEF Collected, Framed, Dedicated
<1>2. Stacked(x.cpsPath, t, n+1, OpenText(t, n+1))
  BY <1>1 DEF InObjects, Stacked
<1>3. /\ Keeps(x, y) /\ y.rowIdx = x.rowIdx
      /\ l.is = "open" => y.cpsPath = Append(x.cpsPath, l.name)
      /\ l.is = "close" /\ x.cpsPath # <<>> =>
            y.cpsPath = SubSeq(x.cpsPath, 1, Len(x.cpsPath) - 1)
      /\ l.is # "open" /\ ~(l.is = "close" /\ x.cpsPath # <<>>) => y.cpsPath = x.cpsPath
  BY <1>1, AfterObjectsIs
<1>4. Stacked(y.cpsPath, u, n+2, OpenText(u, n+2))
  <2>1. CASE l.is = "open"
    BY <1>2, <1>3, <2>1, StackedOpen
  <2>2. CASE l.is = "close" /\ x.cpsPath # <<>>
    BY <1>2, <1>3, <2>2, StackedClose
  <2>3. CASE l.is # "open" /\ ~(l.is = "close" /\ x.cpsPath # <<>>)
    <3>1. l.is \notin {"open", "close"} \/ (l.is = "close" /\ x.cpsPath = <<>>)
      BY <2>3
    <3>2. y.cpsPath = x.cpsPath
      BY <1>3, <2>3
    <3> QED BY <1>2, <3>1, <3>2, StackedSame
  <2> QED BY <2>1, <2>2, <2>3
<1>5. InObjects(y, u, n+2)
  BY <1>4 DEF InObjects, Stacked
<1> QED BY <1>1, <1>3, <1>5, ReaderKnows

----------------------------------------------------------------------------
(* A line is read: what the state holds then, and what must be shown of    *)
(* the samples it gives and of the collector.                              *)

Text == logs[Len(logs)].text
LogPath == logs[Len(logs)].path

LEMMA ReadIs ==
    ASSUME CounterTypes, NEW l \in Line, Read(l)
    PROVE  /\ Len(logs) \in Nat \ {0} /\ Len(logs') = Len(logs) /\ logs' \in Seq(Log)
           /\ logs'[Len(logs)].text = Append(Text, l) /\ logs'[Len(logs)].path = LogPath
           /\ \A n \in 1..Len(logs) : n # Len(logs) => logs'[n] = logs[n]
           /\ Longer(Append(Text, l), Text, l, Len(Text))
           /\ Here = <<Len(logs), Len(Text) + 1>>
           /\ open /\ open' = open /\ member' = member
<1> DEFINE N == Len(logs)
           r == [logs[N] EXCEPT !.text = Append(@, l)]
<1>1. logs \in Seq(Log) /\ open /\ logs # <<>>
  BY DEF CounterTypes, Read
<1>2. N \in Nat \ {0} /\ N \in 1..N /\ DOMAIN logs = 1..N
  BY <1>1
<1>3. logs[N] \in Log
  BY <1>1, <1>2, ElementOfSeq
<1>4. Text \in Seq(Line)
  BY <1>3 DEF Log, Text
<1>5. r \in Log /\ r.text = Append(Text, l) /\ r.path = LogPath
  BY <1>3 DEF Log, Text, LogPath
<1>6. logs' = [logs EXCEPT ![N] = r] /\ open' = open /\ member' = member
  BY DEF Read
<1> HIDE DEF r
<1>7. /\ logs' \in Seq(Log) /\ Len(logs') = N /\ logs'[N] = r
      /\ \A n \in 1..N : n # N => logs'[n] = logs[n]
  <2> HIDE DEF N
  <2>1. logs' \in Seq(Log) /\ Len(logs') = Len(logs)
    <3> DEFINE m == Len(logs)
    <3>1. m \in Nat /\ logs \in [1..m -> Log]
      BY <1>1
    <3> HIDE DEF m
    <3>2. logs' \in [1..m -> Log]
      BY <1>5, <1>6, <3>1
    <3>3. logs' \in Seq(Log) /\ Len(logs') = m
      BY <3>1, <3>2
    <3> QED BY <3>3 DEF m
  <2> QED BY <1>2, <1>6, <2>1 DEF N
<1>8. Longer(Append(Text, l), Text, l, Len(Text))
  BY <1>4 DEF Longer
<1>9. Here = <<N, Len(Text) + 1>>
  BY DEF Here, Text
<1> QED BY <1>1, <1>2, <1>5, <1>6, <1>7, <1>8, <1>9

\* The samples that a line gives are good for the text it ends.
NewGood(S, l) ==
    c.haveTs => \A s \in S : s.at = Here /\ Good(s, LogPath, Append(Text, l))

\* A line gives the load of a cpu block only as the first such row in it.
NewFirst(S, l) ==
    \/ l.is = "hdr" /\ \A s \in S : ~FirstRow(s)
    \/ c'.block # "cpu" /\ \A s \in S : ~FirstRow(s)
    \/ /\ l.is # "hdr" /\ c.block = "cpu" /\ (c.cpuDone => c'.cpuDone)
       /\ (\E s \in S : FirstRow(s)) => ~c.cpuDone /\ c'.cpuDone

LEMMA ReadTypes ==
    ASSUME CounterTypes, NEW l \in Line, Read(l)
    PROVE  CounterTypes'
<1>1. /\ Len(logs) \in Nat \ {0} /\ Len(logs') = Len(logs) /\ logs' \in Seq(Log)
      /\ open' = open /\ member' = member
  BY ReadIs
<1> QED BY <1>1 DEF CounterTypes

LEMMA ReadCollects ==
    ASSUME CounterTypes, CollectorInv, NEW l \in Line, Read(l),
           Collected(c', Append(Text, l), Len(Text) + 2), c'.plane = c.plane
    PROVE  CollectorInv'
<1>1. /\ Len(logs) \in Nat \ {0} /\ Len(logs') = Len(logs)
      /\ logs'[Len(logs)].text = Append(Text, l) /\ logs'[Len(logs)].path = LogPath /\ open
      /\ Longer(Append(Text, l), Text, l, Len(Text))
  BY ReadIs
<1>2. Len(Append(Text, l)) + 1 = Len(Text) + 2
  <2>1. Len(Append(Text, l)) = Len(Text) + 1 /\ Len(Text) \in Nat
    BY <1>1, LongerIs
  <2> QED BY <2>1
<1>3. c.plane = PlaneOf(LogPath)
  BY <1>1 DEF CollectorInv, LogPath
<1>4. logs'[Len(logs')].text = Append(Text, l) /\ logs'[Len(logs')].path = LogPath
  BY <1>1
<1>5. Collected(c', logs'[Len(logs')].text, Len(logs'[Len(logs')].text) + 1)
  BY <1>2, <1>4
<1>6. c'.plane = PlaneOf(logs'[Len(logs')].path)
  BY <1>3, <1>4
<1> QED BY <1>5, <1>6 DEF CollectorInv

\* A sample of a line that was read.
Sampled(s, text, path, n, k) ==
    /\ s.at = <<n, k>> /\ (s.fam # "netstat_detail" => k <= Len(text))
    /\ Good(s, path, text)

LEMMA ReadSamples ==
    ASSUME CounterTypes, SamplesInv, NEW l \in Line, Read(l), NEW S, Emit(S), NewGood(S, l)
    PROVE  SamplesInv'
<1> DEFINE N == Len(logs)
           u == Append(Text, l)
<1>1. /\ N \in Nat \ {0} /\ Len(logs') = N
      /\ logs'[N].text = u /\ logs'[N].path = LogPath
      /\ \A n \in 1..N : n # N => logs'[n] = logs[n]
      /\ Longer(u, Text, l, Len(Text)) /\ Here = <<N, Len(Text) + 1>>
  BY ReadIs
<1>2. Len(u) = Len(Text) + 1 /\ Len(Text) \in Nat
  BY <1>1, LongerIs
<1> HIDE DEF u
<1>3. ASSUME NEW s \in out
      PROVE  \E n \in 1..N : \E k \in 1..Len(logs'[n].text) + 1 :
                Sampled(s, logs'[n].text, logs'[n].path, n, k)
  <2>1. PICK n \in 1..N : \E k \in 1..Len(logs[n].text) + 1 :
               Sampled(s, logs[n].text, logs[n].path, n, k)
    BY DEF SamplesInv, Sampled
  <2>2. PICK k \in 1..Len(logs[n].text) + 1 : Sampled(s, logs[n].text, logs[n].path, n, k)
    BY <2>1
  <2>3. CASE n # N
    BY <1>1, <2>2, <2>3
  <2>4. CASE n = N
    <3>1. /\ k \in 1..Len(Text) + 1 /\ s.at = <<N, k>>
          /\ (s.fam # "netstat_detail" => k <= Len(Text)) /\ Good(s, LogPath, Text)
      BY <2>2, <2>4 DEF Sampled, Text, LogPath
    <3>2. s.fam # "netstat_detail" => s.at[2] \in 1..Len(Text)
      BY <1>2, <3>1
    <3>3. Good(s, LogPath, u)
      BY <1>1, <3>1, <3>2, GoodStays
    <3>4. k \in 1..Len(u) + 1 /\ (s.fam # "netstat_detail" => k <= Len(u))
      BY <1>2, <3>1
    <3>5. Sampled(s, u, LogPath, N, k)
      BY <3>1, <3>3, <3>4 DEF Sampled
    <3> QED BY <1>1, <2>4, <3>4, <3>5
  <2> QED BY <2>3, <2>4
<1>4. ASSUME NEW s \in S, c.haveTs
      PROVE  \E n \in 1..N : \E k \in 1..Len(logs'[n].text) + 1 :
                Sampled(s, logs'[n].text, logs'[n].path, n, k)
  <2>1. s.at = <<N, Len(Text) + 1>> /\ Good(s, LogPath, u)
    BY <1>1, <1>4 DEF NewGood, u
  <2>2. Len(Text) + 1 \in 1..Len(u) + 1 /\ Len(Text) + 1 <= Len(u) /\ N \in 1..N
    BY <1>1, <1>2
  <2>3. Sampled(s, u, LogPath, N, Len(Text) + 1)
    BY <2>1, <2>2 DEF Sampled
  <2> QED BY <1>1, <2>2, <2>3
<1>5. \A s \in out' : s \in out \/ (s \in S /\ c.haveTs)
  BY DEF Emit
<1>6. \A s \in out' : \E n \in 1..Len(logs') : \E k \in 1..Len(logs'[n].text) + 1 :
         Sampled(s, logs'[n].text, logs'[n].path, n, k)
  BY <1>1, <1>3, <1>4, <1>5
<1> QED BY <1>6 DEF SamplesInv, Sampled

LEMMA ReadFirst ==
    ASSUME CounterTypes, SamplesInv, FirstRowInv, NEW l \in Line, Read(l), NEW S, Emit(S),
           NewGood(S, l), NewFirst(S, l)
    PROVE  FirstRowInv'
<1> DEFINE N == Len(logs)
           u == Append(Text, l)
           m == Len(Text)
<1>1. /\ N \in Nat \ {0} /\ Len(logs') = N
      /\ logs'[N].text = u
      /\ \A n \in 1..N : n # N => logs'[n] = logs[n]
      /\ Longer(u, Text, l, m) /\ Here = <<N, m + 1>> /\ open
  BY ReadIs
<1>2. Len(u) = m + 1 /\ m \in Nat
  BY <1>1, LongerIs
<1> HIDE DEF u
<1>3. ASSUME NEW s \in out, FirstRow(s)
      PROVE  /\ s.at[1] \in 1..N /\ (s.at[1] = N => s.at[2] \in 1..m)
             /\ Start(logs'[s.at[1]].text, s.at[2]) = Start(logs[s.at[1]].text, s.at[2])
  <2>0. PICK n \in 1..N : \E k \in 1..Len(logs[n].text) + 1 :
               s.at = <<n, k>> /\ (s.fam # "netstat_detail" => k <= Len(logs[n].text))
    BY DEF SamplesInv
  <2>1. PICK k \in 1..Len(logs[n].text) + 1 :
               s.at = <<n, k>> /\ (s.fam # "netstat_detail" => k <= Len(logs[n].text))
    BY <2>0
  <2>2. k <= Len(logs[n].text)
    BY <1>3, <2>1 DEF FirstRow
  <2>3. CASE n # N
    BY <1>1, <2>1, <2>3
  <2>4. CASE n = N
    <3>1. k \in 1..m /\ k \in 1..m+1
      BY <1>2, <2>1, <2>2, <2>4 DEF Text
    <3>2. Start(u, k) = Start(Text, k)
      BY <1>1, <3>1, FrameBefore
    <3>3. s.at[1] = N /\ s.at[2] = k /\ logs'[N].text = u /\ logs[N].text = Text
      BY <1>1, <2>1, <2>4 DEF Text
    <3> HIDE DEF m
    <3> QED BY <1>1, <3>1, <3>2, <3>3
  <2> QED BY <2>3, <2>4
<1>4. ASSUME NEW s \in out' \ out
      PROVE  s \in S /\ s.at[1] = N /\ s.at[2] = m + 1
  BY <1>1 DEF Emit, NewGood
<1>5. \A s \in out' \ out : FirstRow(s) =>
         /\ l.is # "hdr" /\ c.block = "cpu" /\ ~c.cpuDone /\ c'.cpuDone
  <2> SUFFICES ASSUME NEW s \in out' \ out, FirstRow(s)
               PROVE  l.is # "hdr" /\ c.block = "cpu" /\ ~c.cpuDone /\ c'.cpuDone
    OBVIOUS
  <2>1. s \in S
    BY <1>4
  <2> QED BY <2>1 DEF NewFirst
<1>6. Start(u, m+1) = Start(Text, m+1)
  <2>1. m+1 \in 1..m+1
    BY <1>2
  <2> QED BY <1>1, <2>1, FrameBefore
<1>7. ASSUME NEW s \in out' \ out, FirstRow(s), NEW x \in out, FirstRow(x), x.at[1] = N
      PROVE  Start(u, s.at[2]) # Start(u, x.at[2])
  <2>1. c.block = "cpu" /\ ~c.cpuDone /\ s.at[2] = m + 1
    BY <1>4, <1>5, <1>7
  <2>2. Start(Text, x.at[2]) # Start(Text, m + 1)
    BY <1>1, <1>7, <2>1 DEF FirstRowInv, Text
  <2>3. Start(u, x.at[2]) = Start(Text, x.at[2])
    <3>1. logs'[N].text = u /\ logs[N].text = Text
      BY <1>1 DEF Text
    <3> QED BY <1>3, <1>7, <3>1
  <2> QED BY <1>6, <2>1, <2>2, <2>3
<1>8. ASSUME NEW s \in out', NEW x \in out', FirstRow(s), FirstRow(x), s.at[1] = x.at[1],
             Start(logs'[s.at[1]].text, s.at[2]) = Start(logs'[s.at[1]].text, x.at[2])
      PROVE  s.at = x.at
  <2>1. CASE s \in out /\ x \in out
    <3>1. Start(logs[s.at[1]].text, s.at[2]) = Start(logs[s.at[1]].text, x.at[2])
      BY <1>3, <1>8, <2>1
    <3> QED BY <1>8, <2>1, <3>1 DEF FirstRowInv
  <2>2. CASE s \notin out /\ x \notin out
    BY <1>1, <1>8, <2>2 DEF Emit, NewGood
  <2>3. CASE s \notin out /\ x \in out
    <3>1. s.at[1] = N /\ logs'[N].text = u
      BY <1>1, <1>4, <1>8, <2>3
    <3> QED BY <1>7, <1>8, <2>3, <3>1
  <2>4. CASE s \in out /\ x \notin out
    <3>1. x.at[1] = N /\ logs'[N].text = u
      BY <1>1, <1>4, <1>8, <2>4
    <3> QED BY <1>7, <1>8, <2>4, <3>1
  <2> QED BY <2>1, <2>2, <2>3, <2>4
<1>9. ASSUME c'.block = "cpu", ~c'.cpuDone, NEW s \in out', FirstRow(s), s.at[1] = N
      PROVE  Start(u, s.at[2]) # Start(u, m + 2)
  <2>1. s \in out
    BY <1>5, <1>9
  <2>2. s.at[2] \in 1..m /\ Start(u, s.at[2]) = Start(Text, s.at[2])
    <3>1. logs'[N].text = u /\ logs[N].text = Text
      BY <1>1 DEF Text
    <3> HIDE DEF m
    <3> QED BY <1>3, <1>9, <2>1, <3>1
  <2>3. CASE l.is = "hdr"
    <3>1. Start(u, m+2) = m + 1
      BY <1>1, <2>3, FrameHeader
    <3> HIDE DEF m
    <3>3. Start(u, s.at[2]) # m + 1
      <4>1. Start(Text, s.at[2]) \in 0..s.at[2] - 1
        <5>1. s.at[2] \in 1..m+1
          BY <1>2, <2>2
        <5> QED BY <1>1, <5>1, FrameBefore
      <4> QED BY <1>2, <2>2, <4>1
    <3> QED BY <3>1, <3>3
  <2>4. CASE l.is # "hdr"
    <3>1. Start(u, m+2) = Start(Text, m+1)
      BY <1>1, <2>4, FrameLine
    <3>2. c.block = "cpu" /\ ~c.cpuDone
      BY <1>9, <2>4 DEF NewFirst
    <3>3. Start(Text, s.at[2]) # Start(Text, m+1)
      BY <1>1, <1>9, <2>1, <3>2 DEF FirstRowInv, Text
    <3> QED BY <2>2, <3>1, <3>3
  <2> QED BY <2>3, <2>4
<1>10. open' /\ c'.block = "cpu" /\ ~c'.cpuDone =>
          \A s \in out' : FirstRow(s) /\ s.at[1] = Len(logs') =>
             Start(logs'[Len(logs')].text, s.at[2])
                # Start(logs'[Len(logs')].text, Len(logs'[Len(logs')].text) + 1)
  <2>1. logs'[Len(logs')].text = u /\ Len(u) + 1 = m + 2 /\ Len(logs') = N
    BY <1>1, <1>2
  <2> HIDE DEF m, N
  <2> QED BY <1>9, <2>1
<1> QED BY <1>8, <1>10 DEF FirstRowInv

\* What reading a line keeps.
LEMMA ReadKeeps ==
    ASSUME CounterTypes, CollectorInv, SamplesInv, FirstRowInv, NEW l \in Line, Read(l),
           NEW S, Emit(S), NewGood(S, l), NewFirst(S, l),
           Collected(c', Append(Text, l), Len(Text) + 2), c'.plane = c.plane
    PROVE  (CounterTypes /\ CollectorInv /\ SamplesInv /\ FirstRowInv)'
BY ReadTypes, ReadCollects, ReadSamples, ReadFirst

----------------------------------------------------------------------------
(* The samples of a line.                                                  *)

\* A sample of the line behind the text t, emitted by a collector x of that text.
Emitted(s, x, path, t, n) ==
    /\ s.at[2] = n+1 /\ s.plane = PlaneOf(path) /\ Framed(x, t, n+1) /\ x.haveTs

\* Its time is that of the block, or some minutes before it.
LEMMA TimeNow ==
    ASSUME NEW u, NEW t, NEW l, NEW n, Longer(u, t, l, n), NEW s, NEW x, NEW path,
           Emitted(s, x, path, t, n)
    PROVE  /\ Start(u, n+1) = Start(t, n+1) /\ Block(u, n+1) = x.block
           /\ TimeBefore(u, n+1) = x.ts /\ x.ts \in Nat
<1>1. n \in Nat /\ t \in Seq(Line) /\ Len(t) = n
  BY LongerIs
<1>2. n+1 \in 1..n+1
  BY <1>1
<1>3. Start(u, n+1) = Start(t, n+1) /\ Block(u, n+1) = Block(t, n+1)
      /\ TimeBefore(u, n+1) = TimeBefore(t, n+1)
  BY <1>2, FrameBefore
<1>4. x.haveTs /\ x.ts \in Nat /\ x.block = Block(t, n+1) /\ (x.haveTs => x.ts = TimeBefore(t, n+1))
  BY DEF Emitted, Framed
<1> QED BY <1>3, <1>4

LEMMA DatedNow ==
    ASSUME NEW u, NEW t, NEW l, NEW n, Longer(u, t, l, n), NEW s, NEW x, NEW path,
           Emitted(s, x, path, t, n), s.ts = x.ts, s.fam # "ru",
           ~(s.fam = "cpu" /\ s.key = <<"core">>)
    PROVE  Dated(s, path, u)
<1>1. TimeBefore(u, n+1) = x.ts /\ x.ts \in Nat
  BY TimeNow
<1>2. s.at[2] = n+1 /\ s.plane = PlaneOf(path)
  BY DEF Emitted
<1>3. TimeBefore(u, s.at[2]) - s.ts \in {0} /\ TimeBefore(u, s.at[2]) >= 0
  BY <1>1, <1>2
<1> QED BY <1>2, <1>3 DEF Dated

LEMMA DatedMinutes ==
    ASSUME NEW u, NEW t, NEW l, NEW n, Longer(u, t, l, n), NEW s, NEW x, NEW path,
           Emitted(s, x, path, t, n), NEW j \in 1..Len(l.vals), s.ts = x.ts - (j - 1), s.fam = "ru"
    PROVE  Dated(s, path, u)
<1>1. TimeBefore(u, n+1) = x.ts /\ x.ts \in Nat
  BY TimeNow
<1>2. s.at[2] = n+1 /\ s.plane = PlaneOf(path) /\ u[n+1] = l
  BY LongerIs DEF Emitted
<1>3. l.vals \in Seq(Nat)
  BY LongerIs DEF Line
<1>4. TimeBefore(u, s.at[2]) - s.ts \in 0..Len(u[s.at[2]].vals) - 1 /\ TimeBefore(u, s.at[2]) >= 0
  <2>1. Len(l.vals) \in Nat /\ j - 1 \in 0..Len(l.vals) - 1
    BY <1>3
  <2>2. x.ts - (x.ts - (j - 1)) = j - 1
    BY <1>1, <2>1
  <2> QED BY <1>1, <1>2, <2>1, <2>2
<1>5. s.fam # "cpu"
  OBVIOUS
<1> QED BY <1>2, <1>4, <1>5 DEF Dated

\* The row of minutes it is in tells how long ago it was.
LEMMA DatedCores ==
    ASSUME NEW u, NEW t, NEW l, NEW n, NEW x, Below(u, t, l, n, x), x.mode = "cpu15m", Fits(x, l),
           NEW s, NEW path, Emitted(s, x, path, t, n), s.ts = x.ts - x.rowIdx,
           s.fam = "cpu", s.key = <<"core">>
    PROVE  Dated(s, path, u)
<1> DEFINE z == Section(t, n+1)
           b == Start(t, n+1)
           S == {"coreHdr"}
           h == LastText(t, z, n+1, S)
           P == InText(t, h, n+1, {"nums"})
           A == MinutesRead(t, h, n+1, Len(x.coreIDs))
           B == {j \in P : Len(u[j].vals) = Len(u[n+1].vals)}
<1>1. /\ Longer(u, t, l, n) /\ CoresRead(x, t, n+1) /\ x.rowIdx \in Nat
      /\ Len(l.vals) = 2 * Len(x.coreIDs) /\ x.coreIDs # <<>>
  BY BelowIs DEF Fits
<1>2. n \in Nat /\ u[n+1] = l /\ \A j \in 1..n : u[j] = t[j]
  BY <1>1, LongerIs
<1>3. h # 0 /\ x.rowIdx = Cardinality(A)
  BY <1>1 DEF CoresRead, InSection
<1>4. TimeBefore(u, n+1) = x.ts /\ x.ts \in Nat /\ Start(u, n+1) = b
  BY <1>1, TimeNow
<1>5. z \in 0..n /\ b \in 0..n /\ (z # 0 => z > b) /\ b \in 0..z
  <2>1. z \in 0..n /\ b \in 0..n /\ (z # 0 => z > b)
    BY <1>1, SectionIs
  <2>2. z = 0 => b = 0
    <3>1. CASE z = 0
      <4>1. x.mode = ""
        BY <3>1, BelowIs DEF Framed
      <4> QED BY <4>1
    <3> QED BY <3>1
  <2> HIDE DEF z, b
  <2> QED BY <1>2, <2>1, <2>2
<1>6. LastText(t, b, n+1, S) = h
  <2>1. b \in Nat /\ z \in Nat /\ b <= z /\ n+1 \in Nat \ {0}
    <3> HIDE DEF b, z
    <3> QED BY <1>2, <1>5
  <2> HIDE DEF b, z, S
  <2> QED BY <1>3, <2>1, LastFromLater
<1>7. LastText(u, b, n+1, S) = h
  <2>1. b \in Nat /\ n+1 \in 1..n+1
    <3> HIDE DEF b
    <3> QED BY <1>2, <1>5
  <2> HIDE DEF b, S, h
  <2> QED BY <1>1, <1>6, <2>1, SameBefore
<1>8. h \in Nat /\ P \in SUBSET (1..n)
  <2>1. z \in Nat
    <3> HIDE DEF z
    <3> QED BY <1>2, <1>5
  <2>2. h \in 0..n
    <3> HIDE DEF z, S
    <3> QED BY <1>2, <2>1, BehindIs
  <2>3. h \in Nat
    <3> HIDE DEF h
    <3> QED BY <1>2, <2>2
  <2> HIDE DEF h
  <2> QED BY <1>2, <2>3, BehindIs
<1>9. InText(u, h, n+1, {"nums"}) = P
  <2>1. n+1 \in 1..n+1
    BY <1>2
  <2> HIDE DEF h
  <2> QED BY <1>1, <1>8, <2>1, SameBefore
<1>10. B = A
  <2>1. \A j : j \in A <=> j \in P /\ Len(t[j].vals) = 2 * Len(x.coreIDs)
    BY DEF MinutesRead
  <2> HIDE DEF A, P
  <2> QED BY <1>1, <1>2, <1>8, <2>1
<1>11. TimeBefore(u, n+1) - s.ts \in {Cardinality(B)} /\ TimeBefore(u, n+1) >= 0
  <2> HIDE DEF B, A
  <2> QED BY <1>1, <1>3, <1>4, <1>10
<1>12. s.at[2] = n+1 /\ s.plane = PlaneOf(path)
  BY DEF Emitted
<1>13. B = {j \in InText(u, LastText(u, Start(u, n+1), n+1, {"coreHdr"}), n+1, {"nums"}) :
              Len(u[j].vals) = Len(u[n+1].vals)}
  <2>1. LastText(u, Start(u, n+1), n+1, {"coreHdr"}) = h
    BY <1>4, <1>7
  <2> HIDE DEF h
  <2> QED BY <1>9, <2>1 DEF B
<1> HIDE DEF B
<1> QED BY <1>11, <1>12, <1>13 DEF Dated

\* The section that a line below it is in.
LEMMA SectionNow ==
    ASSUME NEW u, NEW t, NEW l, NEW n, NEW x, Below(u, t, l, n, x)
    PROVE  /\ LastText(u, Start(u, n+1), (n+1)+1, DOMAIN SectionOf) = Section(t, n+1)
           /\ Section(t, n+1) # 0 => u[Section(t, n+1)] = t[Section(t, n+1)]
           /\ \A S : \A g \in 1..n+1 :
                 InText(u, Section(t, n+1), g, S) = InText(t, Section(t, n+1), g, S)
           /\ \A S : /\ LastText(u, Section(t, n+1), n+1, S) = InSection(t, n+1, S)
                     /\ InSection(t, n+1, S) # 0 => u[InSection(t, n+1, S)] = t[InSection(t, n+1, S)]
<1> DEFINE z == Section(t, n+1)
           D == DOMAIN SectionOf
<1>1. Longer(u, t, l, n) /\ l.is # "hdr" /\ l.is \notin D
  BY BelowIs
<1>2. n \in Nat /\ (n+1)+1 = n+2 /\ n+1 \in 1..n+1 /\ \A j \in 1..n : u[j] = t[j]
  BY <1>1, LongerIs
<1>3. Start(u, n+1) = Start(t, n+1) /\ Start(u, n+2) = Start(t, n+1) /\ Section(u, n+2) = z
  BY <1>1, <1>2, FrameBefore, FrameLine
<1>4. LastText(u, Start(u, n+1), (n+1)+1, D) = z
  <2>1. LastText(u, Start(u, n+1), (n+1)+1, D) = LastText(u, Start(u, n+2), n+2, D)
    BY <1>2, <1>3
  <2> QED BY <1>3, <2>1 DEF Section
<1>5. z \in 0..n /\ z \in Nat
  <2>1. z \in 0..n
    BY <1>1, FrameLine
  <2> HIDE DEF z
  <2> QED BY <1>2, <2>1
<1>6. \A S : \A g \in 1..n+1 : InText(u, z, g, S) = InText(t, z, g, S)
  <2> HIDE DEF z
  <2> QED BY <1>1, <1>5, SameBefore
<1>7. ASSUME NEW S
      PROVE  /\ LastText(u, z, n+1, S) = LastText(t, z, n+1, S)
             /\ LastText(t, z, n+1, S) # 0 => u[LastText(t, z, n+1, S)] = t[LastText(t, z, n+1, S)]
  <2> HIDE DEF z
  <2>1. LastText(u, z, n+1, S) = LastText(t, z, n+1, S)
    BY <1>1, <1>2, <1>5, SameBefore
  <2>2. LastText(t, z, n+1, S) \in 0..n
    BY <1>2, <1>5, BehindIs
  <2> DEFINE h == LastText(t, z, n+1, S)
  <2> HIDE DEF h
  <2>3. h \in 0..n => h = 0 \/ h \in 1..n
    BY <1>2
  <2> QED BY <1>2, <2>1, <2>2, <2>3 DEF h
<1>8. z # 0 => u[z] = t[z]
  <2> HIDE DEF z
  <2> QED BY <1>2, <1>5
<1> HIDE DEF D
<1> QED BY <1>4, <1>6, <1>7, <1>8 DEF InSection, D

\* The sections of panio and the families that come from them.
FamilyMode(f) == IF f = "cpu" THEN "cpu15m" ELSE f
Families == {"gc", "cpu", "pertask", "cache", "mempool", "softpool", "powpool", "sharedpool",
             "procus_func", "procus_group", "procusd", "ru", "si", "vmpow"}

LEMMA FamilySections ==
    /\ SectionOfFamily["gc"] = "gcSec"
    /\ SectionOfFamily["cpu"] = "cpu15mSec"
    /\ SectionOfFamily["pertask"] = "perTaskSec"
    /\ SectionOfFamily["cache"] = "cacheSec"
    /\ SectionOfFamily["mempool"] = "mempoolHdr"
    /\ SectionOfFamily["softpool"] = "softpoolHdr"
    /\ SectionOfFamily["powpool"] = "powpoolHdr"
    /\ SectionOfFamily["sharedpool"] = "sharedpoolHdr"
    /\ SectionOfFamily["procus_func"] = "procusFuncHdr"
    /\ SectionOfFamily["procus_group"] = "procusGroupHdr"
    /\ SectionOfFamily["procusd"] = "procusdHdr"
    /\ SectionOfFamily["ru"] = "ruSec"
    /\ SectionOfFamily["si"] = "siStart"
    /\ SectionOfFamily["vmpow"] = "vmpowStart"
BY DEF SectionOfFamily

LEMMA FamiliesAre ==
    ASSUME NEW z, NEW f \in Families
    PROVE  /\ SectionOfFamily[f] \in DOMAIN SectionOf
           /\ z \in DOMAIN SectionOf /\ SectionOf[z] = FamilyMode(f) => z = SectionOfFamily[f]
           /\ f = "gc" => SectionOfFamily[f] = "gcSec"
           /\ f \notin {"ifconfig", "nsstats", "appstats", "cpstats", "netstat_detail"}
           /\ FamilyMode(f) \notin {"", "gc-elapsed", "gcskip"}
<1>1. f \notin {"ifconfig", "nsstats", "appstats", "cpstats", "netstat_detail"}
  BY DEF Families
<1>2. FamilyMode(f) \notin {"", "gc-elapsed", "gcskip"}
  BY DEF Families, FamilyMode
<1>3. SectionOfFamily[f] \in DOMAIN SectionOf /\ (f = "gc" => SectionOfFamily[f] = "gcSec")
  <2>1. DOMAIN SectionOf = SectionLines
    BY SectionsAre
  <2> QED BY <2>1, FamilySections DEF Families, SectionLines
<1>4. ASSUME z \in DOMAIN SectionOf, SectionOf[z] = FamilyMode(f)
      PROVE  z = SectionOfFamily[f]
  <2>1. CASE f \in {"gc", "cpu", "pertask", "cache", "mempool", "softpool", "powpool"}
    BY <1>4, <2>1, ModesAre, FamilySections DEF FamilyMode
  <2>2. CASE f \in {"sharedpool", "procus_func", "procus_group", "procusd", "ru", "si", "vmpow"}
    BY <1>4, <2>2, ModesAre, FamilySections DEF FamilyMode
  <2> QED BY <2>1, <2>2 DEF Families
<1> QED BY <1>1, <1>2, <1>3, <1>4

LEMMA ModeSection ==
    ASSUME NEW u, NEW t, NEW l, NEW n, NEW x, Below(u, t, l, n, x),
           NEW f \in Families, x.mode = FamilyMode(f)
    PROVE  Section(t, n+1) # 0 /\ t[Section(t, n+1)].is = SectionOfFamily[f]
<1> DEFINE z == Section(t, n+1)
<1>1. Longer(u, t, l, n) /\ x.block \notin Dedicated /\ Framed(x, t, n+1)
  BY BelowIs
<1>2. IF z = 0 THEN x.mode = ""
      ELSE IF t[z].is # "gcSec" THEN x.mode = SectionOf[t[z].is]
      ELSE x.mode \in {"gc-elapsed", "gc", "gcskip"}
  BY <1>1 DEF Framed
<1>3. z # 0 => t[z].is \in DOMAIN SectionOf
  BY <1>1, SectionIs
<1> HIDE DEF z
<1>4. x.mode \notin {"", "gc-elapsed", "gcskip"}
  BY FamiliesAre
<1>5. z # 0
  BY <1>2, <1>4
<1>6. CASE t[z].is = "gcSec"
  <2>1. x.mode = "gc"
    BY <1>2, <1>4, <1>5, <1>6
  <2>2. f = "gc"
    BY <2>1 DEF FamilyMode
  <2> QED BY <1>5, <1>6, <2>2, FamiliesAre DEF z
<1>7. CASE t[z].is # "gcSec"
  <2>1. SectionOf[t[z].is] = FamilyMode(f)
    BY <1>2, <1>5, <1>7
  <2>2. t[z].is = SectionOfFamily[f]
    BY <1>3, <1>5, <2>1, FamiliesAre
  <2> QED BY <1>5, <2>2 DEF z
<1> QED BY <1>6, <1>7

\* What the text before a row says of the sample it gives.
Rooted(s, t, n, l) ==
    LET z == Section(t, n+1)
        last(S) == InSection(t, n+1, S)
    IN  /\ s.fam = "gc" =>
              \E g \in InText(t, z, n+1, {"gcElapsed"}) :
                 t[g].vals[1] >= GcMinElapsedSeconds /\ InText(t, z, g, {"gcElapsed"}) = {}
        /\ s.fam = "cpu" =>
              last({"coreHdr"}) # 0 /\ s.id \in Range(t[last({"coreHdr"})].vals)
        /\ s.fam = "pertask" =>
              last({"perTaskHdr"}) # 0 /\ s.id \in Range(t[last({"perTaskHdr"})].vals)
        /\ s.fam = "procusd" => s.key = <<t[z].name>>
        /\ s.fam = "ru" => /\ last({"ruLabel", "nums"}) \in InText(t, z, n+1, {"ruLabel"})
                           /\ last({"ruLabel"}) # 0
                           /\ s.key = <<t[last({"ruLabel"})].name>>
        /\ (s.fam = "vmpow" /\ l.is = "ioWqe") =>
              s.id = IF last({"thread"}) = 0 THEN 0 ELSE t[last({"thread"})].vals[1]

LEMMA OfSectionNow ==
    ASSUME NEW u, NEW t, NEW l, NEW n, NEW x, Below(u, t, l, n, x), NEW s, s.at[2] = n+1,
           s.fam \in Families, x.mode = FamilyMode(s.fam), Rooted(s, t, n, l)
    PROVE  OfSection(s, u)
<1> DEFINE z == Section(t, n+1)
           last(S) == InSection(t, n+1, S)
           G(v, g) == InText(v, z, g, {"gcElapsed"})
           L(v) == InText(v, z, n+1, {"ruLabel"})
           lu(S) == LastText(u, z, n+1, S)
<1>1. /\ LastText(u, Start(u, n+1), (n+1)+1, DOMAIN SectionOf) = z
      /\ z # 0 => u[z] = t[z]
      /\ \A S : \A g \in 1..n+1 : InText(u, z, g, S) = InText(t, z, g, S)
      /\ \A S : lu(S) = last(S) /\ (last(S) # 0 => u[last(S)] = t[last(S)])
  BY SectionNow
<1>2. z # 0 /\ t[z].is = SectionOfFamily[s.fam]
  BY ModeSection
<1>3. Longer(u, t, l, n)
  BY BelowIs
<1>4. n \in Nat /\ n+1 \in 1..n+1 /\ u[n+1] = l /\ \A j \in 1..n : u[j] = t[j]
  BY <1>3, LongerIs
<1>5. G(u, n+1) = G(t, n+1) /\ L(u) = L(t) /\ G(t, n+1) \in SUBSET (1..n)
      /\ \A g \in 1..n : G(u, g) = G(t, g)
  <2>1. G(u, n+1) = G(t, n+1) /\ L(u) = L(t)
    BY <1>1, <1>4
  <2>2. G(t, n+1) \in SUBSET (1..n)
    <3>1. z \in 0..n
      BY <1>3, SectionIs
    <3> HIDE DEF z
    <3>2. z \in Nat
      BY <1>4, <3>1
    <3> QED BY <1>4, <3>2, BehindIs
  <2>3. \A g \in 1..n : g \in 1..n+1
    BY <1>4
  <2> QED BY <1>1, <2>1, <2>2, <2>3
<1>6. /\ s.fam = "gc" => \E g \in G(t, n+1) : t[g].vals[1] >= GcMinElapsedSeconds /\ G(t, g) = {}
      /\ s.fam = "cpu" => last({"coreHdr"}) # 0 /\ s.id \in Range(t[last({"coreHdr"})].vals)
      /\ s.fam = "pertask" =>
            last({"perTaskHdr"}) # 0 /\ s.id \in Range(t[last({"perTaskHdr"})].vals)
      /\ s.fam = "procusd" => s.key = <<t[z].name>>
      /\ s.fam = "ru" => /\ last({"ruLabel", "nums"}) \in L(t) /\ last({"ruLabel"}) # 0
                         /\ s.key = <<t[last({"ruLabel"})].name>>
      /\ (s.fam = "vmpow" /\ l.is = "ioWqe") =>
            s.id = IF last({"thread"}) = 0 THEN 0 ELSE t[last({"thread"})].vals[1]
  BY DEF Rooted
<1>7. OfSection(s, u) <=>
         /\ z # 0 /\ u[z].is = SectionOfFamily[s.fam]
         /\ s.fam = "gc" => \E g \in G(u, n+1) : u[g].vals[1] >= GcMinElapsedSeconds /\ G(u, g) = {}
         /\ s.fam = "cpu" => lu({"coreHdr"}) # 0 /\ s.id \in Range(u[lu({"coreHdr"})].vals)
         /\ s.fam = "pertask" => lu({"perTaskHdr"}) # 0 /\ s.id \in Range(u[lu({"perTaskHdr"})].vals)
         /\ s.fam = "procusd" => s.key = <<u[z].name>>
         /\ s.fam = "ru" => /\ lu({"ruLabel", "nums"}) \in L(u) /\ lu({"ruLabel"}) # 0
                            /\ s.key = <<u[lu({"ruLabel"})].name>>
         /\ (s.fam = "vmpow" /\ u[n+1].is = "ioWqe") =>
               s.id = IF lu({"thread"}) = 0 THEN 0 ELSE u[lu({"thread"})].vals[1]
  <2>1. LastText(u, Start(u, s.at[2]), s.at[2]+1, DOMAIN SectionOf) = z
    BY <1>1
  <2> HIDE DEF z
  <2> QED BY <2>1 DEF OfSection
<1> HIDE DEF z, last, G, L, lu
<1>8. s.fam = "gc" => \E g \in G(u, n+1) : u[g].vals[1] >= GcMinElapsedSeconds /\ G(u, g) = {}
  <2> SUFFICES ASSUME s.fam = "gc"
               PROVE  \E g \in G(u, n+1) : u[g].vals[1] >= GcMinElapsedSeconds /\ G(u, g) = {}
    OBVIOUS
  <2>1. PICK g \in G(t, n+1) : t[g].vals[1] >= GcMinElapsedSeconds /\ G(t, g) = {}
    BY <1>6
  <2>2. g \in 1..n /\ u[g] = t[g] /\ G(u, g) = G(t, g) /\ g \in G(u, n+1)
    BY <1>4, <1>5
  <2> QED BY <2>1, <2>2
<1>9. s.fam = "cpu" => lu({"coreHdr"}) # 0 /\ s.id \in Range(u[lu({"coreHdr"})].vals)
  <2> DEFINE S == {"coreHdr"}
  <2> HIDE DEF S
  <2>1. lu(S) = last(S) /\ (last(S) # 0 => u[last(S)] = t[last(S)])
    BY <1>1
  <2> QED BY <1>6, <2>1 DEF S
<1>10. s.fam = "pertask" => lu({"perTaskHdr"}) # 0 /\ s.id \in Range(u[lu({"perTaskHdr"})].vals)
  <2> DEFINE S == {"perTaskHdr"}
  <2> HIDE DEF S
  <2>1. lu(S) = last(S) /\ (last(S) # 0 => u[last(S)] = t[last(S)])
    BY <1>1
  <2> QED BY <1>6, <2>1 DEF S
<1>11. s.fam = "ru" => /\ lu({"ruLabel", "nums"}) \in L(u) /\ lu({"ruLabel"}) # 0
                       /\ s.key = <<u[lu({"ruLabel"})].name>>
  <2> DEFINE S == {"ruLabel"}
             R == {"ruLabel", "nums"}
  <2> HIDE DEF S, R
  <2>1. lu(S) = last(S) /\ (last(S) # 0 => u[last(S)] = t[last(S)]) /\ lu(R) = last(R)
    BY <1>1
  <2> QED BY <1>5, <1>6, <2>1 DEF S, R
<1>12. (s.fam = "vmpow" /\ u[n+1].is = "ioWqe") =>
          s.id = IF lu({"thread"}) = 0 THEN 0 ELSE u[lu({"thread"})].vals[1]
  <2> DEFINE S == {"thread"}
  <2> HIDE DEF S
  <2>1. lu(S) = last(S) /\ (last(S) # 0 => u[last(S)] = t[last(S)])
    BY <1>1
  <2> QED BY <1>4, <1>6, <2>1 DEF S
<1>13. s.fam = "procusd" => s.key = <<u[z].name>>
  BY <1>1, <1>2, <1>6
<1>14. z # 0 /\ u[z].is = SectionOfFamily[s.fam]
  BY <1>1, <1>2
<1> QED BY <1>7, <1>8, <1>9, <1>10, <1>11, <1>12, <1>13, <1>14

LEMMA GoodPanio ==
    ASSUME NEW u, NEW t, NEW l, NEW n, NEW x, Below(u, t, l, n, x), NEW s, NEW path,
           Emitted(s, x, path, t, n), s.fam \in Families, x.mode = FamilyMode(s.fam),
           Rooted(s, t, n, l), Dated(s, path, u)
    PROVE  Good(s, path, u)
<1>1. s.at[2] = n+1
  BY DEF Emitted
<1>2. OfSection(s, u)
  BY <1>1, OfSectionNow
<1>3. s.fam \notin {"ifconfig", "nsstats", "appstats", "cpstats"}
  BY FamiliesAre
<1> QED BY <1>2, <1>3 DEF Good, OfBlock, OfObjects

LEMMA GoodReader ==
    ASSUME NEW u, NEW t, NEW l, NEW n, Longer(u, t, l, n), NEW x, x.block \in Dedicated,
           NEW s, NEW path, Emitted(s, x, path, t, n), s.ts = x.ts, s.fam # "ru",
           ~(s.fam = "cpu" /\ s.key = <<"core">>),
           s.fam = "ifconfig" => OfDirection(s, u),
           s.fam = "nsstats" => OfProtocol(s, u),
           s.fam = "appstats" => OfVsys(s, u),
           OfObjects(s, u)
    PROVE  Good(s, path, u)
<1>1. s.at[2] = n+1
  BY DEF Emitted
<1>2. Block(u, s.at[2]) \in Dedicated
  BY <1>1, TimeNow
<1>3. Dated(s, path, u)
  BY DatedNow
<1> QED BY <1>2, <1>3 DEF Good, OfBlock

\* The state at a line that is read.
LEMMA ReadNow ==
    ASSUME CounterTypes, CollectorInv, NEW l \in Line, Read(l)
    PROVE  /\ Longer(Append(Text, l), Text, l, Len(Text))
           /\ Collected(c, Text, Len(Text) + 1) /\ Framed(c, Text, Len(Text) + 1)
           /\ DOMAIN c = CollectorFields
           /\ c.plane = PlaneOf(LogPath) /\ Here = <<Len(logs), Len(Text) + 1>>
<1>1. /\ Longer(Append(Text, l), Text, l, Len(Text)) /\ open
      /\ Here = <<Len(logs), Len(Text) + 1>>
  BY ReadIs
<1>2. Collected(c, Text, Len(Text) + 1) /\ c.plane = PlaneOf(LogPath)
  BY <1>1 DEF CollectorInv, Text, LogPath
<1> QED BY <1>1, <1>2 DEF Collected, Framed

\* A sample with the time of its block.
Plain(s, fam) == s.plane = c.plane /\ s.fam = fam /\ s.ts = c.ts /\ s.at = Here

LEMMA RowIs ==
    ASSUME NEW fam, NEW key, NEW id, NEW vals, NEW cols, NEW s \in Row(fam, key, id, vals, cols)
    PROVE  Plain(s, fam) /\ s.key = <<key>> /\ s.id = id
<1>1. PICK j : s = Sample(fam, <<key>>, id, j, vals[j])
  BY DEF Row
<1> QED BY <1>1 DEF Sample, SampleAt, Plain

LEMMA SampleIs ==
    ASSUME NEW fam, NEW key, NEW id, NEW j, NEW v, NEW s, s = Sample(fam, key, id, j, v)
    PROVE  Plain(s, fam) /\ s.key = key /\ s.id = id
BY DEF Sample, SampleAt, Plain

LEMMA PlainEmitted ==
    ASSUME CounterTypes, CollectorInv, NEW l \in Line, Read(l), c.haveTs,
           NEW s, s.plane = c.plane, s.at = Here
    PROVE  Emitted(s, c, LogPath, Text, Len(Text))
<1>1. Here = <<Len(logs), Len(Text) + 1>> /\ c.plane = PlaneOf(LogPath) /\ Framed(c, Text, Len(Text) + 1)
  BY ReadNow
<1> QED BY <1>1 DEF Emitted

\* A row of a block whose samples are named after nothing but their line.
PlainFamilies ==
    {"cpu_load_avg", "cpu", "logreceiver_statistics", "memory", "memorydetail", "slabinfo",
     "total", "processes", "filesystem", "topprocess", "top"}

LEMMA GoodPlain ==
    ASSUME CounterTypes, CollectorInv, NEW l \in Line, Read(l), c.haveTs, c.block \in Dedicated,
           NEW fam \in PlainFamilies, NEW s, Plain(s, fam), fam = "cpu" => s.key # <<"core">>
    PROVE  s.at = Here /\ Good(s, LogPath, Append(Text, l))
<1>1. s.at = Here /\ s.ts = c.ts /\ s.plane = c.plane /\ s.fam = fam
  BY DEF Plain
<1>2. fam \notin {"ru", "ifconfig", "nsstats", "appstats", "cpstats"}
  BY DEF PlainFamilies
<1>3. Emitted(s, c, LogPath, Text, Len(Text))
  BY <1>1, PlainEmitted
<1>4. Longer(Append(Text, l), Text, l, Len(Text))
  BY ReadNow
<1>5. OfObjects(s, Append(Text, l))
  BY <1>1, <1>2 DEF OfObjects
<1>6. Good(s, LogPath, Append(Text, l))
  BY <1>1, <1>2, <1>3, <1>4, <1>5, GoodReader
<1> QED BY <1>1, <1>6

\* No load of a cpu block but in such a block.
Quiet(S) == \A s \in S : ~FirstRow(s)

LEMMA NotCpu ==
    ASSUME NEW s, NEW fam, Plain(s, fam), fam # "cpu"
    PROVE  ~FirstRow(s)
BY DEF Plain, FirstRow

LEMMA TableLineIs ==
    ASSUME NEW l, NEW block \in Tables, NEW s \in TableLine(block, l)
    PROVE  \E fam \in PlainFamilies : Plain(s, fam) /\ fam # "cpu"
<1>1. CASE block = "memory"
  <2>1. s \in MemoryLine(l)
    BY <1>1 DEF TableLine
  <2>2. PICK key, cols : s \in Row("memory", key, 0, l.vals, cols)
    BY <2>1 DEF MemoryLine
  <2>3. Plain(s, "memory")
    BY <2>2, RowIs
  <2> QED BY <2>3 DEF PlainFamilies
<1>2. CASE block = "memory_detail"
  <2>1. s \in MemoryDetailLine(l)
    BY <1>2 DEF TableLine
  <2>2. s \in Row("memorydetail", l.name, 0, l.vals, 1)
    BY <2>1 DEF MemoryDetailLine
  <2>3. Plain(s, "memorydetail")
    BY <2>2, RowIs
  <2> QED BY <2>3 DEF PlainFamilies
<1>3. CASE block = "slabinfo"
  <2>1. s \in SlabinfoLine(l)
    BY <1>3 DEF TableLine
  <2>2. s \in Row("slabinfo", l.name, 0, Append(l.vals, l.vals[1] * l.vals[3]), 4)
    BY <2>1 DEF SlabinfoLine
  <2>3. Plain(s, "slabinfo")
    BY <2>2, RowIs
  <2> QED BY <2>3 DEF PlainFamilies
<1>4. CASE block = "processes"
  <2>1. s \in ProcessesLine(l)
    BY <1>4 DEF TableLine
  <2>2. PICK key, id, vals, cols :
           s \in Row("total", key, id, vals, cols) \/ s \in Row("processes", key, id, vals, cols)
    BY <2>1 DEF ProcessesLine
  <2>3. Plain(s, "total") \/ Plain(s, "processes")
    BY <2>2, RowIs
  <2> QED BY <2>3 DEF PlainFamilies
<1>5. CASE block = "filesystem"
  <2>1. s \in FilesystemLine(l)
    BY <1>5 DEF TableLine
  <2>2. s \in Row("filesystem", l.name, 0, l.vals, 2)
    BY <2>1 DEF FilesystemLine
  <2>3. Plain(s, "filesystem")
    BY <2>2, RowIs
  <2> QED BY <2>3 DEF PlainFamilies
<1>6. CASE block = "top"
  <2>1. s \in TopLine(l)
    BY <1>6 DEF TableLine
  <2>2. PICK key, id, vals, cols :
           s \in Row("topprocess", key, id, vals, cols) \/ s \in Row("top", key, id, vals, cols)
    BY <2>1 DEF TopLine
  <2>3. Plain(s, "topprocess") \/ Plain(s, "top")
    BY <2>2, RowIs
  <2> QED BY <2>3 DEF PlainFamilies
<1> QED BY <1>1, <1>2, <1>3, <1>4, <1>5, <1>6 DEF Tables

----------------------------------------------------------------------------
(* The lines of the blocks with a reader of their own.                     *)

LogsInv == CounterTypes /\ CollectorInv /\ SamplesInv /\ FirstRowInv

LEMMA ReaderReads ==
    ASSUME LogsInv, NEW l \in Line, NEW block \in Dedicated, In(block, l)
    PROVE  /\ Read(l) /\ l.is # "hdr" /\ c.block = block /\ c.block \in Dedicated
           /\ Longer(Append(Text, l), Text, l, Len(Text))
           /\ Collected(c, Text, Len(Text) + 1) /\ DOMAIN c = CollectorFields
           /\ Here = <<Len(logs), Len(Text) + 1>>
<1>1. Read(l) /\ l.is # "hdr" /\ c.block = block
  BY DEF In
<1> QED BY <1>1, ReadNow DEF LogsInv

\* A reader that leaves all but its own notes alone.
LEMMA StatelessKeeps ==
    ASSUME LogsInv, NEW l \in Line, NEW block \in Stateless, In(block, l),
           Keeps(c, c'), c'.rowIdx = c.rowIdx, NEW S, Emit(S), NewGood(S, l),
           \/ block # "cpu" /\ Quiet(S)
           \/ block = "cpu" /\ (c.cpuDone => c'.cpuDone)
                /\ ((\E s \in S : FirstRow(s)) => ~c.cpuDone /\ c'.cpuDone)
    PROVE  LogsInv'
<1>0. block \in Dedicated
  BY DEF Stateless
<1>1. /\ Read(l) /\ l.is # "hdr" /\ c.block = block /\ c.block \in Dedicated
      /\ Longer(Append(Text, l), Text, l, Len(Text)) /\ Collected(c, Text, Len(Text) + 1)
  BY <1>0, ReaderReads
<1>2. Collected(c', Append(Text, l), Len(Text) + 2)
  BY <1>1, ReaderKnows
<1>3. c'.plane = c.plane /\ c'.block = c.block
  BY DEF Keeps
<1>4. NewFirst(S, l)
  BY <1>1, <1>3 DEF NewFirst, Quiet
<1> QED BY <1>1, <1>2, <1>3, <1>4, ReadKeeps DEF LogsInv

LEMMA NothingNew ==
    ASSUME NEW l
    PROVE  NewGood({}, l) /\ Quiet({})
BY DEF NewGood, Quiet

LEMMA TablesKeep ==
    ASSUME LogsInv, NEW l \in Line, TablesLine(l)
    PROVE  LogsInv'
<1>1. PICK block \in Tables : In(block, l) /\ Emit(TableLine(block, l)) /\ UNCHANGED c
  BY DEF TablesLine
<1> DEFINE S == TableLine(block, l)
<1>2. block \in Dedicated /\ block \in Stateless /\ block # "cpu"
  BY DEF Dedicated, Stateless, Tables
<1>3. Read(l) /\ c.block = block
  BY <1>1, <1>2, ReaderReads
<1> HIDE DEF S
<1>4. \A s \in S : \E fam \in PlainFamilies : Plain(s, fam) /\ fam # "cpu"
  BY TableLineIs DEF S
<1>5. NewGood(S, l)
  BY <1>2, <1>3, <1>4, GoodPlain DEF NewGood, LogsInv
<1>6. Quiet(S)
  BY <1>4, NotCpu DEF Quiet
<1>7. Keeps(c, c') /\ c'.rowIdx = c.rowIdx /\ Emit(S)
  BY <1>1 DEF Keeps, S
<1> QED BY <1>1, <1>2, <1>5, <1>6, <1>7, StatelessKeeps

LEMMA LogrcvrKeeps ==
    ASSUME LogsInv, NEW l \in Line, LogrcvrLine(l)
    PROVE  LogsInv'
<1> DEFINE block == "logrcvr_statistics"
           counts == ~c.lrDone /\ l.is = "label" /\ l.name # "traffic_logs_written"
           S == IF counts THEN Row("logreceiver_statistics", l.name, 0, l.vals, 1) ELSE {}
           done == c.lrDone \/ (counts /\ l.name = "total_mb")
<1>1. In(block, l) /\ Emit(S) /\ c' = [c EXCEPT !.lrDone = done]
  BY DEF LogrcvrLine
<1>2. block \in Dedicated /\ block \in Stateless /\ block # "cpu"
  BY DEF Dedicated, Stateless, Tables
<1>3. Read(l) /\ c.block = block /\ DOMAIN c = CollectorFields
  BY <1>1, <1>2, ReaderReads
<1>4. \A s \in S : \E fam \in PlainFamilies : Plain(s, fam) /\ fam # "cpu"
  BY RowIs DEF PlainFamilies
<1> HIDE DEF S, done, block
<1>5. NewGood(S, l)
  BY <1>2, <1>3, <1>4, GoodPlain DEF NewGood, LogsInv
<1>6. Quiet(S)
  BY <1>4, NotCpu DEF Quiet
<1>7. Keeps(c, c') /\ c'.rowIdx = c.rowIdx
  BY <1>1, <1>3, FieldNames DEF Keeps, FrameFields
<1> QED BY <1>1, <1>2, <1>5, <1>6, <1>7, StatelessKeeps

LEMMA NetstatKeeps ==
    ASSUME LogsInv, NEW l \in Line, NetstatLine(l)
    PROVE  LogsInv'
<1> DEFINE block == "netstat_detail"
           had == IF l.name \in DOMAIN c.nsAcc THEN c.nsAcc[l.name] ELSE <<0, 0>>
           sum == <<had[1] + l.vals[1], had[2] + l.vals[2]>>
           acc == [k \in DOMAIN c.nsAcc \cup {l.name} |-> IF k = l.name THEN sum ELSE c.nsAcc[k]]
<1>1. In(block, l) /\ Emit({}) /\ c' = IF l.is # "sock" THEN c ELSE [c EXCEPT !.nsAcc = acc]
  BY DEF NetstatLine
<1>2. block \in Dedicated /\ block \in Stateless /\ block # "cpu"
  BY DEF Dedicated, Stateless, Tables
<1>3. DOMAIN c = CollectorFields
  BY <1>1, <1>2, ReaderReads
<1> HIDE DEF acc, block
<1>4. Keeps(c, c') /\ c'.rowIdx = c.rowIdx
  BY <1>1, <1>3, FieldNames DEF Keeps, FrameFields
<1> QED BY <1>1, <1>2, <1>4, NothingNew, StatelessKeeps

LEMMA FabricKeeps ==
    ASSUME LogsInv, NEW l \in Line, FabricLine(l)
    PROVE  LogsInv'
<1> DEFINE block == "fabric_traffic_stats"
           v == c.fabricUnsupported \/ l.is = "text"
<1>1. In(block, l) /\ Emit({}) /\ c' = [c EXCEPT !.fabricUnsupported = v]
  BY DEF FabricLine
<1>2. block \in Dedicated /\ block \in Stateless /\ block # "cpu"
  BY DEF Dedicated, Stateless, Tables
<1>3. DOMAIN c = CollectorFields
  BY <1>1, <1>2, ReaderReads
<1> HIDE DEF v, block
<1>4. Keeps(c, c') /\ c'.rowIdx = c.rowIdx
  BY <1>1, <1>3, FieldNames DEF Keeps, FrameFields
<1> QED BY <1>1, <1>2, <1>4, NothingNew, StatelessKeeps

\* Only the first row of two numbers in a block gives the load of its cpu.
LEMMA CpuKeeps ==
    ASSUME LogsInv, NEW l \in Line, CpuBlockLine(l)
    PROVE  LogsInv'
<1> DEFINE block == "cpu"
<1>1. In(block, l)
  BY DEF CpuBlockLine
<1>2. block \in Dedicated /\ block \in Stateless
  BY DEF Dedicated, Stateless, Tables
<1>3. Read(l) /\ c.block = block /\ DOMAIN c = CollectorFields /\ c.block \in Dedicated
  BY <1>1, <1>2, ReaderReads
<1> HIDE DEF block
<1>4. CASE l.is = "loadAvg"
  <2>1. c' = [c EXCEPT !.loadAvgNext = TRUE] /\ Emit({})
    BY <1>4 DEF CpuBlockLine
  <2>2. Keeps(c, c') /\ c'.rowIdx = c.rowIdx /\ c'.cpuDone = c.cpuDone
    BY <1>3, <2>1, FieldNames DEF Keeps, FrameFields
  <2> QED BY <1>1, <1>2, <2>1, <2>2, NothingNew, StatelessKeeps DEF block
<1>5. CASE l.is # "loadAvg" /\ c.loadAvgNext
  <2> DEFINE cols == IF Len(l.vals) >= 6 THEN 6 ELSE 3
             S == IF l.is = "bare" /\ Len(l.vals) >= 3
                  THEN Row("cpu_load_avg", "", 0, l.vals, cols) ELSE {}
  <2>1. c' = [c EXCEPT !.loadAvgNext = FALSE] /\ Emit(S)
    BY <1>5 DEF CpuBlockLine
  <2> HIDE DEF cols
  <2>2. \A s \in S : Plain(s, "cpu_load_avg")
    BY RowIs
  <2> HIDE DEF S
  <2>3. Keeps(c, c') /\ c'.rowIdx = c.rowIdx /\ c'.cpuDone = c.cpuDone
    BY <1>3, <2>1, FieldNames DEF Keeps, FrameFields
  <2>4. "cpu_load_avg" \in PlainFamilies /\ "cpu_load_avg" # "cpu"
    BY DEF PlainFamilies
  <2>5. NewGood(S, l)
    BY <1>3, <2>2, <2>4, GoodPlain DEF NewGood, LogsInv
  <2>6. Quiet(S)
    BY <2>2, <2>4, NotCpu DEF Quiet
  <2> QED BY <1>1, <1>2, <2>1, <2>3, <2>5, <2>6, StatelessKeeps DEF Quiet, block
<1>6. CASE l.is # "loadAvg" /\ ~c.loadAvgNext
  <2> DEFINE first == ~c.cpuDone /\ l.is = "bare" /\ Len(l.vals) = 2
             S == IF first THEN Row("cpu", "last_3m", 0, l.vals, 2) ELSE {}
             v == c.cpuDone \/ first
  <2>1. c' = [c EXCEPT !.cpuDone = v] /\ Emit(S)
    BY <1>6 DEF CpuBlockLine
  <2>3. (c.cpuDone => v) /\ (first => ~c.cpuDone /\ v)
    OBVIOUS
  <2> HIDE DEF first
  <2>2. \A s \in S : Plain(s, "cpu") /\ s.key = <<"last_3m">> /\ first
    <3> SUFFICES ASSUME NEW s \in S
                 PROVE  Plain(s, "cpu") /\ s.key = <<"last_3m">> /\ first
      OBVIOUS
    <3>1. first /\ s \in Row("cpu", "last_3m", 0, l.vals, 2)
      OBVIOUS
    <3> QED BY <3>1, RowIs
  <2> HIDE DEF S, v
  <2>4. Keeps(c, c') /\ c'.rowIdx = c.rowIdx /\ c'.cpuDone = v
    BY <1>3, <2>1, FieldNames DEF Keeps, FrameFields
  <2>5. "cpu" \in PlainFamilies
    BY DEF PlainFamilies
  <2>6. \A s \in S : s.key # <<"core">>
    BY <2>2
  <2>7. NewGood(S, l)
    BY <1>3, <2>2, <2>5, <2>6, GoodPlain DEF NewGood, LogsInv
  <2> QED BY <1>1, <1>2, <2>1, <2>2, <2>3, <2>4, <2>7, StatelessKeeps DEF block
<1> QED BY <1>4, <1>5, <1>6

\* A sample of a block whose names are those of its reader.
LEMMA ReaderGood ==
    ASSUME LogsInv, NEW l \in Line, NEW block \in Dedicated, In(block, l), c.haveTs,
           NEW fam, fam \notin {"ru", "cpu"}, NEW s, Plain(s, fam),
           fam = "ifconfig" => OfDirection(s, Append(Text, l)),
           fam = "nsstats" => OfProtocol(s, Append(Text, l)),
           fam = "appstats" => OfVsys(s, Append(Text, l)),
           OfObjects(s, Append(Text, l))
    PROVE  s.at = Here /\ Good(s, LogPath, Append(Text, l)) /\ ~FirstRow(s)
<1>1. s.at = Here /\ s.ts = c.ts /\ s.plane = c.plane /\ s.fam = fam
  BY DEF Plain
<1>2. Read(l) /\ c.block \in Dedicated /\ Longer(Append(Text, l), Text, l, Len(Text))
  BY ReaderReads
<1>3. Emitted(s, c, LogPath, Text, Len(Text))
  BY <1>1, <1>2, PlainEmitted DEF LogsInv
<1>4. Good(s, LogPath, Append(Text, l))
  BY <1>1, <1>2, <1>3, GoodReader
<1> QED BY <1>1, <1>4 DEF FirstRow

\* The lines of a block that its reader names; before the line that is read.
LEMMA NamedBefore ==
    ASSUME LogsInv, NEW l \in Line, NEW block \in Dedicated, In(block, l), NEW S
    PROVE  /\ InBlock(Append(Text, l), Len(Text) + 1, S) = InBlock(Text, Len(Text) + 1, S)
           /\ InBlock(Text, Len(Text) + 1, S) # 0 =>
                 Append(Text, l)[InBlock(Text, Len(Text) + 1, S)] = Text[InBlock(Text, Len(Text) + 1, S)]
           /\ Append(Text, l)[Len(Text) + 1] = l
<1> DEFINE u == Append(Text, l)
           n == Len(Text)
           b == Start(Text, n+1)
<1>1. Longer(u, Text, l, n)
  BY ReaderReads
<1>2. n \in Nat /\ n+1 \in 1..n+1 /\ u[n+1] = l /\ \A j \in 1..n : u[j] = Text[j]
  BY <1>1, LongerIs
<1> HIDE DEF u, n
<1>3. Start(u, n+1) = b /\ b \in 0..(n+1)-1
  BY <1>1, <1>2, FrameBefore
<1> HIDE DEF b
<1>4. b \in Nat
  BY <1>2, <1>3
<1>5. LastText(u, b, n+1, S) = LastText(Text, b, n+1, S)
  BY <1>1, <1>2, <1>4, SameBefore
<1>6. LastText(Text, b, n+1, S) \in 0..n
  BY <1>2, <1>4, BehindIs
<1> DEFINE h == LastText(Text, b, n+1, S)
<1> HIDE DEF h
<1>7. h # 0 => h \in 1..n
  BY <1>2, <1>6 DEF h
<1>8. h # 0 => u[h] = Text[h]
  BY <1>2, <1>7
<1> QED BY <1>2, <1>3, <1>5, <1>8 DEF InBlock, h, u, n, b

\* What a reader keeps, once it knows the text and its samples are good.
LEMMA ReaderKeeps ==
    ASSUME LogsInv, NEW l \in Line, NEW block \in Dedicated, block # "cpu", In(block, l),
           Collected(c', Append(Text, l), Len(Text) + 2), Keeps(c, c'),
           NEW S, Emit(S), c.haveTs => \A s \in S : s.at = Here /\ Good(s, LogPath, Append(Text, l)),
           Quiet(S)
    PROVE  LogsInv'
<1>1. Read(l) /\ c.block = block
  BY ReaderReads
<1>2. c'.plane = c.plane /\ c'.block = c.block
  BY DEF Keeps
<1>3. NewFirst(S, l)
  BY <1>1, <1>2 DEF NewFirst, Quiet
<1>4. NewGood(S, l)
  BY DEF NewGood
<1> QED BY <1>1, <1>2, <1>3, <1>4, ReadKeeps DEF LogsInv

LEMMA IfconfigKeeps ==
    ASSUME LogsInv, NEW l \in Line, IfconfigLine(l)
    PROVE  LogsInv'
<1> DEFINE block == "ifconfig"
           u == Append(Text, l)
           e == Len(Text) + 1
           fits == (l.is = "bare" /\ c.rxtxDir # "") /\ Len(l.vals) = c.rxtxCols
           S == IF fits THEN {Sample("ifconfig", <<c.curIface, c.rxtxDir>>, 0, j, l.vals[j]) :
                                 j \in DOMAIN l.vals} ELSE {}
           R == {"rxtx", "bare", "iface"}
           F == {"iface"}
           d == InBlock(Text, e, R)
           i == InBlock(Text, e, F)
<1>1. In(block, l) /\ Emit(S) /\ AfterIfconfig(c, c', l)
  BY DEF IfconfigLine, AfterIfconfig
<1>2. block \in Dedicated /\ block # "cpu"
  BY DEF Dedicated
<1>3. /\ l.is # "hdr" /\ c.block = block /\ Longer(u, Text, l, Len(Text))
      /\ Collected(c, Text, e) /\ Here = <<Len(logs), e>>
  BY <1>1, <1>2, ReaderReads
<1>4. Collected(c', u, Len(Text) + 2) /\ Keeps(c, c')
  BY <1>1, <1>3, IfconfigKnows
<1>5. /\ c.curIface # "" => i # 0 /\ Text[i].name = c.curIface
      /\ c.rxtxDir # "" => /\ c.curIface # "" /\ d # 0 /\ Text[d].is = "rxtx"
                           /\ c.rxtxDir = Text[d].name /\ c.rxtxCols = Text[d].vals[1]
  BY <1>3 DEF Collected, InIfconfig
<1>6. /\ InBlock(u, e, R) = d /\ (d # 0 => u[d] = Text[d]) /\ u[e] = l
      /\ InBlock(u, e, F) = i /\ (i # 0 => u[i] = Text[i])
  <2> HIDE DEF R, F, block
  <2> QED BY <1>1, <1>2, NamedBefore
<1> HIDE DEF fits
<1>7. \A s \in S : Plain(s, "ifconfig") /\ s.key = <<c.curIface, c.rxtxDir>> /\ fits
  <2> TAKE s \in S
  <2>1. PICK j : s = Sample("ifconfig", <<c.curIface, c.rxtxDir>>, 0, j, l.vals[j])
    OBVIOUS
  <2>2. fits
    OBVIOUS
  <2> QED BY <2>1, <2>2, SampleIs
<1>8. \A s : OfDirection(s, u) <=>
         LET x == InBlock(u, s.at[2], R)  y == InBlock(u, s.at[2], F)
         IN  /\ x # 0 /\ u[x].is = "rxtx" /\ y # 0 /\ s.key = <<u[y].name, u[x].name>>
             /\ u[x].vals[1] = Len(u[s.at[2]].vals)
  BY DEF OfDirection
<1> HIDE DEF S, d, i, R, F, u, e, block
<1>9. \A s \in S : OfDirection(s, u)
  <2> TAKE s \in S
  <2>1. s.at[2] = e /\ fits /\ s.key = <<c.curIface, c.rxtxDir>>
    BY <1>3, <1>7 DEF Plain
  <2> QED BY <1>5, <1>6, <1>8, <2>1 DEF fits
<1>10. \A s \in S : OfObjects(s, u)
  BY <1>7 DEF OfObjects, Plain
<1>11. c.haveTs => \A s \in S : s.at = Here /\ Good(s, LogPath, Append(Text, l))
  <2> SUFFICES ASSUME c.haveTs, NEW s \in S
               PROVE  s.at = Here /\ Good(s, LogPath, Append(Text, l))
    OBVIOUS
  <2> QED BY <1>1, <1>2, <1>7, <1>9, <1>10, ReaderGood DEF u
<1>12. Quiet(S)
  BY <1>7 DEF Quiet, FirstRow, Plain
<1> QED BY <1>1, <1>2, <1>4, <1>11, <1>12, ReaderKeeps DEF u

LEMMA StatsKeep ==
    ASSUME LogsInv, NEW l \in Line, NetstatStatsLine(l)
    PROVE  LogsInv'
<1> DEFINE block == "netstat_stats"
           u == Append(Text, l)
           e == Len(Text) + 1
           has == l.is = "label" /\ c.nsSection # ""
           S == IF has THEN {Sample("nsstats", <<c.nsSection, l.name>>, 0, 1, l.vals[1])} ELSE {}
           F == {"section"}
           i == InBlock(Text, e, F)
<1>1. In(block, l) /\ Emit(S) /\ AfterStats(c, c', l)
  BY DEF NetstatStatsLine, AfterStats
<1>2. block \in Dedicated /\ block # "cpu"
  BY DEF Dedicated
<1>3. /\ l.is # "hdr" /\ c.block = block /\ Longer(u, Text, l, Len(Text))
      /\ Collected(c, Text, e) /\ Here = <<Len(logs), e>>
  BY <1>1, <1>2, ReaderReads
<1>4. Collected(c', u, Len(Text) + 2) /\ Keeps(c, c')
  BY <1>1, <1>3, StatsKnow
<1>5. c.nsSection # "" => i # 0 /\ c.nsSection = Text[i].name
  BY <1>3 DEF Collected, InStats
<1>6. InBlock(u, e, F) = i /\ (i # 0 => u[i] = Text[i])
  <2> HIDE DEF F, block
  <2> QED BY <1>1, <1>2, NamedBefore
<1> HIDE DEF has
<1>7. \A s \in S : Plain(s, "nsstats") /\ s.key[1] = c.nsSection /\ has
  <2> TAKE s \in S
  <2>1. s = Sample("nsstats", <<c.nsSection, l.name>>, 0, 1, l.vals[1]) /\ has
    OBVIOUS
  <2>2. Plain(s, "nsstats") /\ s.key = <<c.nsSection, l.name>>
    BY <2>1, SampleIs
  <2> QED BY <2>1, <2>2
<1>8. \A s : OfProtocol(s, u) <=>
         LET y == InBlock(u, s.at[2], F) IN y # 0 /\ s.key[1] = u[y].name
  BY DEF OfProtocol
<1> HIDE DEF S, i, F, u, e, block
<1>9. \A s \in S : OfProtocol(s, u)
  <2> TAKE s \in S
  <2>1. s.at[2] = e /\ has /\ s.key[1] = c.nsSection
    BY <1>3, <1>7 DEF Plain
  <2> QED BY <1>5, <1>6, <1>8, <2>1 DEF has
<1>10. \A s \in S : OfObjects(s, u)
  BY <1>7 DEF OfObjects, Plain
<1>11. c.haveTs => \A s \in S : s.at = Here /\ Good(s, LogPath, Append(Text, l))
  <2> SUFFICES ASSUME c.haveTs, NEW s \in S
               PROVE  s.at = Here /\ Good(s, LogPath, Append(Text, l))
    OBVIOUS
  <2> QED BY <1>1, <1>2, <1>7, <1>9, <1>10, ReaderGood DEF u
<1>12. Quiet(S)
  BY <1>7 DEF Quiet, FirstRow, Plain
<1> QED BY <1>1, <1>2, <1>4, <1>11, <1>12, ReaderKeeps DEF u

LEMMA AppsKeep ==
    ASSUME LogsInv, NEW l \in Line, AppStatsLine(l)
    PROVE  LogsInv'
<1> DEFINE block == "panio_infreq"
           u == Append(Text, l)
           e == Len(Text) + 1
           id == IF c.appVsys = 0 THEN 1 ELSE c.appVsys
           S == IF l.is = "appRow" /\ Len(l.vals) = 5 THEN Row("appstats", l.name, id, l.vals, 5) ELSE {}
           F == {"vsys"}
           i == InBlock(Text, e, F)
<1>1. In(block, l) /\ Emit(S) /\ AfterApps(c, c', l)
  BY DEF AppStatsLine, AfterApps
<1>2. block \in Dedicated /\ block # "cpu"
  BY DEF Dedicated
<1>3. /\ l.is # "hdr" /\ c.block = block /\ Longer(u, Text, l, Len(Text))
      /\ Collected(c, Text, e) /\ Here = <<Len(logs), e>>
  BY <1>1, <1>2, ReaderReads
<1>4. Collected(c', u, Len(Text) + 2) /\ Keeps(c, c')
  BY <1>1, <1>3, AppsKnow
<1>5. c.appVsys = IF i = 0 THEN 0 ELSE Text[i].vals[1]
  BY <1>3 DEF Collected, InApps
<1>6. InBlock(u, e, F) = i /\ (i # 0 => u[i] = Text[i])
  <2> HIDE DEF F, block
  <2> QED BY <1>1, <1>2, NamedBefore
<1>7. \A s \in S : Plain(s, "appstats") /\ s.id = id
  BY RowIs
<1>8. \A s : OfVsys(s, u) <=>
         LET y == InBlock(u, s.at[2], F)
         IN  s.id = IF y = 0 \/ u[y].vals[1] = 0 THEN 1 ELSE u[y].vals[1]
  BY DEF OfVsys
<1> HIDE DEF S, i, F, u, e, block
<1>9. \A s \in S : OfVsys(s, u)
  <2> TAKE s \in S
  <2>1. s.at[2] = e /\ s.id = id
    BY <1>3, <1>7 DEF Plain
  <2> QED BY <1>5, <1>6, <1>8, <2>1
<1>10. \A s \in S : OfObjects(s, u)
  BY <1>7 DEF OfObjects, Plain
<1>11. c.haveTs => \A s \in S : s.at = Here /\ Good(s, LogPath, Append(Text, l))
  <2> SUFFICES ASSUME c.haveTs, NEW s \in S
               PROVE  s.at = Here /\ Good(s, LogPath, Append(Text, l))
    OBVIOUS
  <2> QED BY <1>1, <1>2, <1>7, <1>9, <1>10, ReaderGood DEF u
<1>12. Quiet(S)
  BY <1>7 DEF Quiet, FirstRow, Plain
<1> QED BY <1>1, <1>2, <1>4, <1>11, <1>12, ReaderKeeps DEF u

\* "Names follow the nesting", said of the stack.
LEMMA PathNamed ==
    ASSUME NEW m \in Nat \ {0}, NEW A, NEW path \in Seq(A), Len(path) = m, NEW name \in A
    PROVE  Append(Tail(path), name) = [p \in 1..m |-> IF p = m THEN name ELSE path[p+1]]
<1>1. Tail(path) \in Seq(A) /\ Len(Tail(path)) = m - 1 /\ path # <<>>
  OBVIOUS
<1>2. \A p \in 1..m-1 : Tail(path)[p] = path[p+1]
  OBVIOUS
<1> DEFINE q == Tail(path)
<1> HIDE DEF q
<1>3. q \in Seq(A) /\ Len(q) = m - 1 /\ \A p \in 1..m-1 : q[p] = path[p+1]
  BY <1>1, <1>2 DEF q
<1>4. /\ Append(q, name) \in Seq(A) /\ Len(Append(q, name)) = m
      /\ Append(q, name)[m] = name /\ \A p \in 1..m-1 : Append(q, name)[p] = path[p+1]
  <2>1. /\ Append(q, name) \in Seq(A) /\ Len(Append(q, name)) = Len(q) + 1
        /\ Append(q, name)[Len(q) + 1] = name /\ \A p \in 1..Len(q) : Append(q, name)[p] = q[p]
    <3>1. q \in Seq(A)
      BY <1>3
    <3>2. Append(q, name) \in Seq(A) /\ Len(Append(q, name)) = Len(q) + 1
      BY <3>1
    <3>3. Append(q, name)[Len(q) + 1] = name
      BY <3>1
    <3>4. \A p \in 1..Len(q) : Append(q, name)[p] = q[p]
      BY <3>1
    <3> QED BY <3>2, <3>3, <3>4
  <2>2. Len(q) + 1 = m /\ Len(q) = m - 1
    BY <1>3
  <2> DEFINE w == Append(q, name)
  <2> HIDE DEF w
  <2>3. w \in Seq(A) /\ Len(w) = m /\ w[m] = name /\ \A p \in 1..m-1 : w[p] = q[p]
    BY <2>1, <2>2 DEF w
  <2> QED BY <1>3, <2>3 DEF w
<1> DEFINE r == Append(q, name)
<1> HIDE DEF r
<1>5. DOMAIN r = 1..m /\ r = [p \in DOMAIN r |-> r[p]]
  <2>1. r \in Seq(A) /\ Len(r) = m
    BY <1>4 DEF r
  <2> QED BY <2>1
<1>6. \A p \in 1..m : r[p] = IF p = m THEN name ELSE path[p+1]
  <2> TAKE p \in 1..m
  <2>1. p = m \/ p \in 1..m-1
    OBVIOUS
  <2>2. p \in 1..m-1 => p # m
    OBVIOUS
  <2> QED BY <1>4, <2>1, <2>2 DEF r
<1>7. r = [p \in 1..m |-> IF p = m THEN name ELSE path[p+1]]
  BY <1>5, <1>6
<1> QED BY <1>7 DEF r, q

LEMMA CpStatsKeep ==
    ASSUME LogsInv, NEW l \in Line, CpStatsLine(l)
    PROVE  LogsInv'
<1> DEFINE block == "cp_stats"
           u == Append(Text, l)
           n == Len(Text)
           has == l.is = "leaf" /\ c.cpsPath # <<>>
           key == Append(Tail(c.cpsPath), l.name)
           S == IF has THEN {Sample("cpstats", key, 0, 1, l.vals[1])} ELSE {}
           o == OpenText(Text, n+1)
           m == Cardinality(o)
           a == Ascending(o)
<1>1. In(block, l) /\ Emit(S) /\ AfterObjects(c, c', l)
  BY DEF CpStatsLine, AfterObjects
<1>2. block \in Dedicated /\ block # "cpu"
  BY DEF Dedicated
<1>3. /\ l.is # "hdr" /\ c.block = block /\ Longer(u, Text, l, n)
      /\ Collected(c, Text, n+1) /\ Here = <<Len(logs), n+1>>
  BY <1>1, <1>2, ReaderReads
<1>4. Collected(c', u, n+2) /\ Keeps(c, c')
  BY <1>1, <1>3, ObjectsKnow
<1>5. /\ c.cpsPath \in Seq(STRING) /\ Len(c.cpsPath) = m
      /\ \A p \in 1..m : c.cpsPath[p] = Text[a[p]].name
  BY <1>3 DEF Collected, InObjects
<1>6. /\ n \in Nat /\ n+1 \in 1..n+1 /\ u[n+1] = l /\ l.name \in STRING
      /\ \A j \in 1..n : u[j] = Text[j]
  BY <1>3, LongerIs DEF Line
<1>7. OpenText(u, n+1) = o
  BY <1>3, <1>6, OpenBefore
<1>8. o \in SUBSET (1..n) /\ o \in SUBSET Nat /\ IsFiniteSet(o) /\ m \in Nat
  BY <1>6, OpenBehind
<1>9. \A p \in 1..m : a[p] \in o
  BY <1>8, AscendingIs
<1> HIDE DEF has
<1>10. \A s \in S : Plain(s, "cpstats") /\ s.key = key /\ has
  <2> TAKE s \in S
  <2>1. s = Sample("cpstats", key, 0, 1, l.vals[1]) /\ has
    OBVIOUS
  <2> HIDE DEF key
  <2>2. Plain(s, "cpstats") /\ s.key = key
    BY <2>1, SampleIs
  <2> QED BY <2>1, <2>2
<1>11. \A s : s.at[2] = n+1 =>
          (OfObjects(s, u) <=>
             (s.fam = "cpstats" =>
                /\ o # {}
                /\ s.key = [p \in 1..m |-> IF p = m THEN u[n+1].name ELSE u[a[p+1]].name]))
  <2> TAKE s
  <2> SUFFICES ASSUME s.at[2] = n+1
               PROVE  OfObjects(s, u) <=>
             (s.fam = "cpstats" =>
                /\ o # {}
                /\ s.key = [p \in 1..m |-> IF p = m THEN u[n+1].name ELSE u[a[p+1]].name])
    OBVIOUS
  <2>1. OpenText(u, s.at[2]) = o
    BY <1>7
  <2> HIDE DEF o
  <2> QED BY <2>1 DEF OfObjects
<1>12. m = 0 <=> o = {}
  <2> HIDE DEF o
  <2> QED BY <1>8, FS_EmptySet
<1> HIDE DEF S, o, m, a, u, n, key, block
<1>13. \A s \in S : OfObjects(s, u)
  <2> TAKE s \in S
  <2>1. s.at[2] = n+1 /\ s.key = key /\ has
    BY <1>3, <1>10 DEF Plain
  <2>2. m \in Nat \ {0} /\ o # {}
    <3>1. c.cpsPath # <<>>
      BY <2>1 DEF has
    <3> QED BY <1>5, <1>8, <1>12, <3>1
  <2>3. key = [p \in 1..m |-> IF p = m THEN l.name ELSE c.cpsPath[p+1]]
    BY <1>5, <1>6, <2>2, PathNamed DEF key
  <2>4. \A p \in 1..m : p # m => c.cpsPath[p+1] = u[a[p+1]].name
    <3> TAKE p \in 1..m
    <3> HAVE p # m
    <3>1. p + 1 \in 1..m
      BY <2>2
    <3>2. a[p+1] \in 1..n
      BY <1>8, <1>9, <3>1
    <3> QED BY <1>5, <1>6, <3>1, <3>2
  <2>5. key = [p \in 1..m |-> IF p = m THEN u[n+1].name ELSE u[a[p+1]].name]
    BY <1>6, <2>3, <2>4
  <2> QED BY <1>11, <2>1, <2>2, <2>5
<1>14. c.haveTs => \A s \in S : s.at = Here /\ Good(s, LogPath, Append(Text, l))
  <2> SUFFICES ASSUME c.haveTs, NEW s \in S
               PROVE  s.at = Here /\ Good(s, LogPath, Append(Text, l))
    OBVIOUS
  <2> QED BY <1>1, <1>2, <1>10, <1>13, ReaderGood DEF u
<1>15. Quiet(S)
  BY <1>10 DEF Quiet, FirstRow, Plain
<1> QED BY <1>1, <1>2, <1>4, <1>14, <1>15, ReaderKeeps DEF u, n

LEMMA BlockLineKeeps ==
    ASSUME LogsInv, NEW l \in Line, BlockLine(l)
    PROVE  LogsInv'
BY TablesKeep, LogrcvrKeeps, NetstatKeeps, FabricKeeps, CpuKeeps, IfconfigKeeps, StatsKeep, AppsKeep,
   CpStatsKeep DEF BlockLine

----------------------------------------------------------------------------
(* The lines of the sections.                                              *)

LEMMA SectionReads ==
    ASSUME LogsInv, NEW l \in Line, InSections(l)
    PROVE  /\ Read(l) /\ l.is # "hdr" /\ c.block \notin Dedicated
           /\ Longer(Append(Text, l), Text, l, Len(Text))
           /\ Collected(c, Text, Len(Text) + 1) /\ Framed(c, Text, Len(Text) + 1)
           /\ DOMAIN c = CollectorFields
           /\ Here = <<Len(logs), Len(Text) + 1>>
<1>1. Read(l) /\ l.is # "hdr" /\ c.block \notin Dedicated
  BY DEF InSections
<1> QED BY <1>1, ReadNow DEF LogsInv

LEMMA ModeReads ==
    ASSUME LogsInv, NEW l \in Line, NEW mode, InMode(mode, l)
    PROVE  /\ Below(Append(Text, l), Text, l, Len(Text), c) /\ InSections(l) /\ c.mode = mode
           /\ Read(l) /\ Here = <<Len(logs), Len(Text) + 1>>
<1>1. InSections(l) /\ l.is \notin DOMAIN SectionOf /\ c.mode = mode
  BY DEF InMode
<1> QED BY <1>1, SectionReads DEF Below

\* What a line of a section keeps.
LEMMA PanioKeeps ==
    ASSUME LogsInv, NEW l \in Line, InSections(l),
           Collected(c', Append(Text, l), Len(Text) + 2), c'.plane = c.plane, c'.block = c.block,
           NEW S, Emit(S), c.haveTs => \A s \in S : s.at = Here /\ Good(s, LogPath, Append(Text, l)),
           Quiet(S)
    PROVE  LogsInv'
<1>1. Read(l) /\ c.block \notin Dedicated
  BY SectionReads
<1>2. c'.block # "cpu"
  BY <1>1 DEF Dedicated
<1>3. NewFirst(S, l)
  BY <1>2 DEF NewFirst, Quiet
<1>4. NewGood(S, l)
  BY DEF NewGood
<1> QED BY <1>1, <1>3, <1>4, ReadKeeps DEF LogsInv

\* A sample of a section with the time of its block.
LEMMA PanioGood ==
    ASSUME LogsInv, NEW l \in Line, NEW fam \in Families, fam \notin {"cpu", "ru"},
           InMode(FamilyMode(fam), l), c.haveTs, NEW s, Plain(s, fam),
           Rooted(s, Text, Len(Text), l)
    PROVE  s.at = Here /\ Good(s, LogPath, Append(Text, l)) /\ ~FirstRow(s)
<1>1. s.at = Here /\ s.ts = c.ts /\ s.plane = c.plane /\ s.fam = fam
  BY DEF Plain
<1>2. Below(Append(Text, l), Text, l, Len(Text), c) /\ c.mode = FamilyMode(fam) /\ Read(l)
  BY ModeReads
<1>3. Emitted(s, c, LogPath, Text, Len(Text))
  BY <1>1, <1>2, PlainEmitted DEF LogsInv
<1>4. Longer(Append(Text, l), Text, l, Len(Text))
  BY <1>2, BelowIs
<1>5. Dated(s, LogPath, Append(Text, l))
  BY <1>1, <1>3, <1>4, DatedNow
<1>6. Good(s, LogPath, Append(Text, l))
  BY <1>1, <1>2, <1>3, <1>5, GoodPanio
<1> QED BY <1>1, <1>6 DEF FirstRow

LEMMA SiLineIs ==
    ASSUME NEW l, NEW s \in SiLine(l)
    PROVE  Plain(s, "si")
<1>1. PICK key, cols : s \in Row("si", key, 0, l.vals, cols)
  BY DEF SiLine
<1> QED BY <1>1, RowIs

\* The first line of a section of session information counts too.
LEMMA SiStartGood ==
    ASSUME LogsInv, NEW l \in Line, InSections(l), l.is = "siStart", c.haveTs, NEW s, Plain(s, "si")
    PROVE  s.at = Here /\ Good(s, LogPath, Append(Text, l))
<1> DEFINE u == Append(Text, l)
           n == Len(Text)
           D == DOMAIN SectionOf
<1>1. s.at = Here /\ s.ts = c.ts /\ s.plane = c.plane /\ s.fam = "si"
  BY DEF Plain
<1>2. Read(l) /\ l.is # "hdr" /\ Longer(u, Text, l, n) /\ Here = <<Len(logs), n+1>>
  BY SectionReads
<1>3. Emitted(s, c, LogPath, Text, n)
  BY <1>1, <1>2, PlainEmitted DEF LogsInv
<1>4. Dated(s, LogPath, u)
  BY <1>1, <1>2, <1>3, DatedNow
<1> HIDE DEF u
<1>5. n \in Nat /\ (n+1)+1 = n+2 /\ n+1 \in 1..n+1 /\ u[n+1] = l /\ n+1 # 0
  BY <1>2, LongerIs
<1>6. l.is \in D
  BY SectionsAre DEF SectionLines
<1>7. Start(u, n+1) = Start(u, n+2) /\ Section(u, n+2) = n+1
  BY <1>2, <1>5, <1>6, FrameBefore, FrameLine
<1>8. LastText(u, Start(u, n+1), (n+1)+1, D) = n+1
  <2>1. LastText(u, Start(u, n+1), (n+1)+1, D) = LastText(u, Start(u, n+2), n+2, D)
    BY <1>5, <1>7
  <2> QED BY <1>7, <2>1 DEF Section
<1>9. SectionOfFamily[s.fam] = "siStart"
  BY <1>1, FamilySections
<1>10. OfSection(s, u)
  <2>1. LastText(u, Start(u, s.at[2]), s.at[2]+1, DOMAIN SectionOf) = n+1
    BY <1>1, <1>2, <1>8
  <2>2. s.fam \notin {"gc", "cpu", "pertask", "procusd", "ru", "vmpow"}
    BY <1>1
  <2> HIDE DEF n
  <2> QED BY <1>5, <1>9, <2>1, <2>2 DEF OfSection
<1>11. Good(s, LogPath, u)
  BY <1>1, <1>4, <1>10 DEF Good, OfBlock, OfObjects
<1> QED BY <1>1, <1>11 DEF u

LEMMA SectionLineKeeps ==
    ASSUME LogsInv, NEW l \in Line, SectionLine(l)
    PROVE  LogsInv'
<1> DEFINE S == IF l.is = "siStart" THEN SiLine(l) ELSE {}
<1>1. InSections(l) /\ l.is \in DOMAIN SectionOf /\ Emit(S)
  BY DEF SectionLine
<1>2. /\ Read(l) /\ c.block \notin Dedicated /\ Longer(Append(Text, l), Text, l, Len(Text))
      /\ Framed(c, Text, Len(Text) + 1) /\ DOMAIN c = CollectorFields
  BY <1>1, SectionReads
<1>3. \A s \in S : Plain(s, "si") /\ l.is = "siStart"
  BY SiLineIs
<1> HIDE DEF S
<1>4. Opens(c, c', l) /\ c'.plane = c.plane /\ c'.block = c.block
  <2> DEFINE z == SectionOf[l.is]
             v1 == IF l.is = "cpu15mSec" THEN <<>> ELSE c.coreIDs
             v2 == IF l.is = "cpu15mSec" THEN 0 ELSE c.rowIdx
             v3 == IF l.is = "perTaskSec" THEN <<>> ELSE c.taskCols
             v4 == IF l.is = "procusdHdr" THEN l.name ELSE c.detName
             v5 == IF l.is = "ruSec" THEN "" ELSE c.ruLabel
             v6 == IF l.is = "vmpowStart" THEN 0 ELSE c.powThread
  <2>1. c' = [c EXCEPT !.mode = z, !.coreIDs = v1, !.rowIdx = v2, !.taskCols = v3, !.detName = v4,
                       !.ruLabel = v5, !.powThread = v6]
    BY DEF SectionLine
  <2> HIDE DEF z, v1, v2, v3, v4, v5, v6
  <2>2. /\ DOMAIN c' = DOMAIN c /\ c'.ts = c.ts /\ c'.haveTs = c.haveTs /\ c'.block = c.block
        /\ c'.plane = c.plane
    BY <1>2, <2>1, FieldNames DEF FrameFields
  <2>3. c'.mode = z /\ c'.coreIDs = v1 /\ c'.rowIdx = v2 /\ c'.taskCols = v3
    BY <1>2, <2>1, FieldNames DEF FrameFields
  <2>4. c'.detName = v4 /\ c'.ruLabel = v5 /\ c'.powThread = v6
    BY <1>2, <2>1, FieldNames DEF FrameFields
  <2> QED BY <2>2, <2>3, <2>4 DEF Opens, z, v1, v2, v3, v4, v5, v6
<1>5. Collected(c', Append(Text, l), Len(Text) + 2)
  BY <1>1, <1>2, <1>4, SectionKnows
<1>6. c.haveTs => \A s \in S : s.at = Here /\ Good(s, LogPath, Append(Text, l))
  BY <1>1, <1>3, SiStartGood
<1>7. Quiet(S)
  BY <1>3, NotCpu DEF Quiet
<1> QED BY <1>1, <1>4, <1>5, <1>6, <1>7, PanioKeeps

LEMMA GcElapsedKeeps ==
    ASSUME LogsInv, NEW l \in Line, GcElapsed(l)
    PROVE  LogsInv'
<1>1. /\ InMode("gc-elapsed", l) /\ Emit({})
      /\ c' = IF l.is # "gcElapsed" THEN c
              ELSE [c EXCEPT !.mode = IF l.vals[1] >= GcMinElapsedSeconds THEN "gc" ELSE "gcskip"]
  BY DEF GcElapsed
<1>2. Below(Append(Text, l), Text, l, Len(Text), c) /\ c.mode = "gc-elapsed" /\ InSections(l)
  BY <1>1, ModeReads
<1>3. Collected(c', Append(Text, l), Len(Text) + 2) /\ Keeps(c, c')
  BY <1>1, <1>2, GcKnows
<1>4. c'.plane = c.plane /\ c'.block = c.block
  BY <1>3 DEF Keeps
<1>5. Quiet({})
  BY DEF Quiet
<1>6. c.haveTs => \A s \in {} : s.at = Here /\ Good(s, LogPath, Append(Text, l))
  OBVIOUS
<1> QED BY <1>1, <1>2, <1>3, <1>4, <1>5, <1>6, PanioKeeps

LEMMA Cpu15mKeeps ==
    ASSUME LogsInv, NEW l \in Line, Cpu15m(l)
    PROVE  LogsInv'
<1> DEFINE u == Append(Text, l)
           n == Len(Text)
           fits == Fits(c, l)
           new(j, a) == SampleAt(c.ts - c.rowIdx, "cpu", <<"core">>, c.coreIDs[j], a, l.vals[2 * j - 2 + a])
           S == IF fits THEN {new(j, a) : j \in DOMAIN c.coreIDs, a \in {1, 2}} ELSE {}
           h == InSection(Text, n+1, {"coreHdr"})
<1>1. InMode("cpu15m", l) /\ Emit(S) /\ AfterMinutes(c, c', l)
  BY DEF Cpu15m, AfterMinutes, Fits
<1>2. /\ Below(u, Text, l, n, c) /\ c.mode = "cpu15m" /\ InSections(l) /\ Read(l)
      /\ Here = <<Len(logs), n+1>>
  BY <1>1, ModeReads
<1>3. Collected(c', u, n+2) /\ Keeps(c, c')
  BY <1>1, <1>2, CoresKnow
<1>4. c'.plane = c.plane /\ c'.block = c.block
  BY <1>3 DEF Keeps
<1>5. fits => h # 0 /\ c.coreIDs = Text[h].vals
  BY <1>2, BelowIs DEF CoresRead, Fits
<1> HIDE DEF fits
<1>6. ASSUME NEW s \in S
      PROVE  /\ fits /\ s.plane = c.plane /\ s.at = Here /\ s.ts = c.ts - c.rowIdx
             /\ s.fam = "cpu" /\ s.key = <<"core">> /\ s.id \in Range(c.coreIDs)
  <2>1. fits
    OBVIOUS
  <2>2. PICK j \in DOMAIN c.coreIDs, a \in {1, 2} : s = new(j, a)
    BY <2>1
  <2> DEFINE v == l.vals[2 * j - 2 + a]
             ts == c.ts - c.rowIdx
  <2>3. s = SampleAt(ts, "cpu", <<"core">>, c.coreIDs[j], a, v)
    BY <2>2
  <2> HIDE DEF v, ts
  <2>4. /\ s.plane = c.plane /\ s.at = Here /\ s.ts = ts /\ s.fam = "cpu" /\ s.key = <<"core">>
        /\ s.id = c.coreIDs[j]
    BY <2>3 DEF SampleAt
  <2> QED BY <2>1, <2>4 DEF ts, Range
<1> HIDE DEF S, h, u, n
<1>7. ASSUME c.haveTs, NEW s \in S
      PROVE  s.at = Here /\ Good(s, LogPath, u)
  <2>1. Emitted(s, c, LogPath, Text, n)
    BY <1>2, <1>6, <1>7, PlainEmitted DEF LogsInv, n
  <2>2. Dated(s, LogPath, u)
    BY <1>2, <1>6, <2>1, DatedCores DEF fits
  <2>3. s.fam \in Families /\ c.mode = FamilyMode(s.fam)
    BY <1>2, <1>6 DEF Families, FamilyMode
  <2>4. Rooted(s, Text, n, l)
    <3>1. h # 0 /\ s.id \in Range(Text[h].vals)
      BY <1>5, <1>6
    <3> QED BY <1>6, <3>1 DEF Rooted, h
  <2>5. Good(s, LogPath, u)
    BY <1>2, <2>1, <2>2, <2>3, <2>4, GoodPanio
  <2> QED BY <1>6, <2>5
<1>8. Quiet(S)
  BY <1>6 DEF Quiet, FirstRow
<1> QED BY <1>1, <1>2, <1>3, <1>4, <1>7, <1>8, PanioKeeps DEF u, n

LEMMA PerTaskKeeps ==
    ASSUME LogsInv, NEW l \in Line, PerTask(l)
    PROVE  LogsInv'
<1> DEFINE fits == (l.is = "row" /\ c.taskCols # <<>>) /\ Len(l.vals) = Len(c.taskCols) + 1
           S == IF fits THEN {Sample("pertask", <<l.name>>, c.taskCols[j], 1, l.vals[j]) :
                                 j \in DOMAIN c.taskCols} ELSE {}
           h == InSection(Text, Len(Text) + 1, {"perTaskHdr"})
<1>1. InMode("pertask", l) /\ Emit(S) /\ AfterTasks(c, c', l)
  BY DEF PerTask, AfterTasks
<1>2. Below(Append(Text, l), Text, l, Len(Text), c) /\ c.mode = "pertask" /\ InSections(l)
  BY <1>1, ModeReads
<1>3. Collected(c', Append(Text, l), Len(Text) + 2) /\ Keeps(c, c')
  BY <1>1, <1>2, TasksKnow
<1>4. c'.plane = c.plane /\ c'.block = c.block
  BY <1>3 DEF Keeps
<1>5. fits => h # 0 /\ c.taskCols = Text[h].vals
  BY <1>2, BelowIs DEF TasksRead
<1> HIDE DEF fits
<1>6. ASSUME NEW s \in S
      PROVE  fits /\ Plain(s, "pertask") /\ s.id \in Range(c.taskCols)
  <2>1. fits
    OBVIOUS
  <2>2. PICK j \in DOMAIN c.taskCols : s = Sample("pertask", <<l.name>>, c.taskCols[j], 1, l.vals[j])
    BY <2>1
  <2>3. Plain(s, "pertask") /\ s.id = c.taskCols[j]
    BY <2>2, SampleIs
  <2> QED BY <2>1, <2>3 DEF Range
<1> HIDE DEF S, h
<1>7. "pertask" \in Families /\ FamilyMode("pertask") = "pertask"
  BY DEF Families, FamilyMode
<1>8. ASSUME NEW s \in S
      PROVE  Rooted(s, Text, Len(Text), l)
  <2>1. h # 0 /\ s.id \in Range(Text[h].vals) /\ s.fam = "pertask"
    BY <1>5, <1>6, <1>8 DEF Plain
  <2> QED BY <2>1 DEF Rooted, h
<1>9. ASSUME c.haveTs, NEW s \in S
      PROVE  s.at = Here /\ Good(s, LogPath, Append(Text, l))
  BY <1>1, <1>6, <1>7, <1>8, <1>9, PanioGood
<1>10. Quiet(S)
  BY <1>6, NotCpu DEF Quiet
<1> QED BY <1>1, <1>2, <1>3, <1>4, <1>9, <1>10, PanioKeeps

\* A row of values belongs to the label right before it and goes back a minute with each.
LEMMA RuKeeps ==
    ASSUME LogsInv, NEW l \in Line, RuLine(l)
    PROVE  LogsInv'
<1> DEFINE u == Append(Text, l)
           n == Len(Text)
           values == c.ruLabel # "" /\ l.is = "nums"
           new(j) == SampleAt(c.ts - (j - 1), "ru", <<c.ruLabel>>, 0, 1, l.vals[j])
           S == IF values THEN {new(j) : j \in DOMAIN l.vals} ELSE {}
           z == Section(Text, n+1)
           h == InSection(Text, n+1, {"ruLabel", "nums"})
           a == InSection(Text, n+1, {"ruLabel"})
           A == InText(Text, z, n+1, {"ruLabel"})
<1>1. InMode("ru", l) /\ Emit(S) /\ AfterLabel(c, c', l)
  BY DEF RuLine, AfterLabel
<1>2. /\ Below(u, Text, l, n, c) /\ c.mode = "ru" /\ InSections(l) /\ Read(l)
      /\ Here = <<Len(logs), n+1>>
  BY <1>1, ModeReads
<1>3. Collected(c', u, n+2) /\ Keeps(c, c')
  BY <1>1, <1>2, LabelKnows
<1>4. c'.plane = c.plane /\ c'.block = c.block
  BY <1>3 DEF Keeps
<1>5. values => h \in A /\ a = h /\ c.ruLabel = Text[h].name
  <2>1. LabelRead(c, Text, n+1)
    BY <1>2, BelowIs
  <2>2. c.mode = "ru" /\ c.ruLabel # "" => h \in A /\ a = h /\ c.ruLabel = Text[h].name
    BY <2>1 DEF LabelRead
  <2> HIDE DEF h, a, A
  <2> QED BY <1>2, <2>2
<1>6. Longer(u, Text, l, n)
  BY <1>2, BelowIs
<1>7. A \in SUBSET (1..n) /\ 0 \notin A
  <2>1. z \in 0..n /\ n \in Nat
    BY <1>6, SectionIs
  <2> HIDE DEF z, n
  <2>2. z \in Nat
    BY <2>1
  <2>3. A \in SUBSET (1..n)
    BY <2>1, <2>2, BehindIs
  <2> HIDE DEF A
  <2> QED BY <2>1, <2>3
<1> HIDE DEF values
<1>8. ASSUME NEW s \in S
      PROVE  /\ values /\ s.plane = c.plane /\ s.at = Here
             /\ s.fam = "ru" /\ s.key = <<c.ruLabel>>
             /\ \E j \in 1..Len(l.vals) : s.ts = c.ts - (j - 1)
  <2>1. values
    OBVIOUS
  <2>2. PICK j \in DOMAIN l.vals : s = new(j)
    BY <2>1
  <2>3. l.vals \in Seq(Nat)
    BY DEF Line
  <2>4. j \in 1..Len(l.vals)
    BY <2>3
  <2> DEFINE v == l.vals[j]
             ts == c.ts - (j - 1)
  <2>5. s = SampleAt(ts, "ru", <<c.ruLabel>>, 0, 1, v)
    BY <2>2
  <2> HIDE DEF v, ts
  <2>6. /\ s.plane = c.plane /\ s.at = Here /\ s.ts = ts /\ s.fam = "ru" /\ s.key = <<c.ruLabel>>
    BY <2>5 DEF SampleAt
  <2> QED BY <2>1, <2>4, <2>6 DEF ts
<1> HIDE DEF S, h, a, A, u, n, z
<1>9. ASSUME c.haveTs, NEW s \in S
      PROVE  s.at = Here /\ Good(s, LogPath, u)
  <2>1. Emitted(s, c, LogPath, Text, n)
    BY <1>2, <1>8, <1>9, PlainEmitted DEF LogsInv, n
  <2>2. Dated(s, LogPath, u)
    BY <1>6, <1>8, <2>1, DatedMinutes
  <2>3. s.fam \in Families /\ c.mode = FamilyMode(s.fam)
    BY <1>2, <1>8 DEF Families, FamilyMode
  <2>4. Rooted(s, Text, n, l)
    <3>1. h \in A /\ a # 0 /\ s.key = <<Text[a].name>> /\ s.fam = "ru"
      BY <1>5, <1>7, <1>8
    <3> QED BY <3>1 DEF Rooted, h, a, A, z
  <2>5. Good(s, LogPath, u)
    BY <1>2, <2>1, <2>2, <2>3, <2>4, GoodPanio
  <2> QED BY <1>8, <2>5
<1>10. Quiet(S)
  BY <1>8 DEF Quiet, FirstRow
<1> QED BY <1>1, <1>2, <1>3, <1>4, <1>9, <1>10, PanioKeeps DEF u, n

LEMMA VmpowKeeps ==
    ASSUME LogsInv, NEW l \in Line, VmpowLine(l)
    PROVE  LogsInv'
<1> DEFINE thread == IF l.is = "thread" THEN l.vals[1] ELSE c.powThread
           S == CASE l.is = "thread" /\ l.name # "" -> {Sample("vmpow", <<l.name>>, thread, 1, l.vals[2])}
                  [] l.is = "ioWqe" -> Row("vmpow", "io_wqe", thread, l.vals, 2)
                  [] l.is \in {"inflight", "usedWqe", "rcvThresh"} -> Row("vmpow", l.is, 0, l.vals, 3)
                  [] OTHER -> {}
           h == InSection(Text, Len(Text) + 1, {"thread"})
<1>1. InMode("vmpow", l) /\ Emit(S) /\ AfterThread(c, c', l)
  BY DEF VmpowLine, AfterThread
<1>2. Below(Append(Text, l), Text, l, Len(Text), c) /\ c.mode = "vmpow" /\ InSections(l)
  BY <1>1, ModeReads
<1>3. Collected(c', Append(Text, l), Len(Text) + 2) /\ Keeps(c, c')
  BY <1>1, <1>2, ThreadKnows
<1>4. c'.plane = c.plane /\ c'.block = c.block
  BY <1>3 DEF Keeps
<1>5. c.powThread = IF h = 0 THEN 0 ELSE Text[h].vals[1]
  BY <1>2, BelowIs DEF ThreadRead
<1>t. l.is # "thread" => thread = c.powThread
  OBVIOUS
<1> HIDE DEF thread
<1>6. ASSUME NEW s \in S
      PROVE  Plain(s, "vmpow") /\ (l.is = "ioWqe" => s.id = c.powThread)
  <2> DEFINE v == l.vals[2]
  <2>a. l.is = "thread" => s = Sample("vmpow", <<l.name>>, thread, 1, v)
    OBVIOUS
  <2>b. l.is = "ioWqe" => s \in Row("vmpow", "io_wqe", thread, l.vals, 2)
    OBVIOUS
  <2>c. l.is \in {"inflight", "usedWqe", "rcvThresh"} => s \in Row("vmpow", l.is, 0, l.vals, 3)
    OBVIOUS
  <2>d. l.is \in {"thread", "ioWqe", "inflight", "usedWqe", "rcvThresh"}
    OBVIOUS
  <2> HIDE DEF S, v
  <2>1. CASE l.is = "thread"
    <3>1. s = Sample("vmpow", <<l.name>>, thread, 1, v)
      BY <2>1, <2>a
    <3>2. Plain(s, "vmpow")
      BY <3>1, SampleIs
    <3> QED BY <2>1, <3>2
  <2>2. CASE l.is = "ioWqe"
    <3>1. s \in Row("vmpow", "io_wqe", thread, l.vals, 2)
      BY <2>2, <2>b
    <3>2. Plain(s, "vmpow") /\ s.id = thread
      BY <3>1, RowIs
    <3> QED BY <1>t, <2>2, <3>2
  <2>3. CASE l.is \in {"inflight", "usedWqe", "rcvThresh"}
    <3>1. s \in Row("vmpow", l.is, 0, l.vals, 3)
      BY <2>3, <2>c
    <3>2. Plain(s, "vmpow")
      BY <3>1, RowIs
    <3> QED BY <2>3, <3>2
  <2> QED BY <2>d, <2>1, <2>2, <2>3
<1> HIDE DEF S, h
<1>7. "vmpow" \in Families /\ FamilyMode("vmpow") = "vmpow"
  BY DEF Families, FamilyMode
<1>8. ASSUME NEW s \in S
      PROVE  Rooted(s, Text, Len(Text), l)
  <2>1. s.fam = "vmpow" /\ (l.is = "ioWqe" => s.id = IF h = 0 THEN 0 ELSE Text[h].vals[1])
    BY <1>5, <1>6, <1>8 DEF Plain
  <2> QED BY <2>1 DEF Rooted, h
<1>9. ASSUME c.haveTs, NEW s \in S
      PROVE  s.at = Here /\ Good(s, LogPath, Append(Text, l))
  BY <1>1, <1>6, <1>7, <1>8, <1>9, PanioGood
<1>10. Quiet(S)
  BY <1>6, NotCpu DEF Quiet
<1> QED BY <1>1, <1>2, <1>3, <1>4, <1>9, <1>10, PanioKeeps

LEMMA PoolRowIs ==
    ASSUME NEW fam, NEW l, NEW s \in PoolRow(fam, l)
    PROVE  Plain(s, fam)
<1>1. \/ s = Sample(fam, <<l.name>>, 0, 1, l.vals[1])
      \/ s = Sample(fam, <<l.name>>, 0, 2, (100 * l.vals[1]) \div l.vals[2])
  BY DEF PoolRow
<1> QED BY <1>1, SampleIs

\* The modes of the sections whose rows stand for themselves are the families of those.
RowFamilies == {"gc", "cache", "mempool", "softpool", "powpool", "sharedpool",
                "procus_func", "procus_group", "procusd", "si"}

LEMMA SectionRowIs ==
    ASSUME NEW l, NEW mode \in RowModes, NEW s \in SectionRow(mode, l)
    PROVE  /\ mode \in RowFamilies /\ Plain(s, mode)
           /\ mode = "procusd" => s.key = <<c.detName>>
<1>1. CASE mode = "gc"
  <2>1. s \in Row("gc", l.name, 0, l.vals, 1)
    BY <1>1 DEF SectionRow
  <2> QED BY <1>1, <2>1, RowIs DEF RowFamilies
<1>2. CASE mode = "cache"
  <2>1. s \in Row("cache", l.name, 0, l.vals, 5)
    BY <1>2 DEF SectionRow
  <2> QED BY <1>2, <2>1, RowIs DEF RowFamilies
<1>3. CASE mode = "mempool"
  <2>1. s \in Row("mempool", l.name, 0, l.vals, MempoolCols)
    BY <1>3 DEF SectionRow, MempoolRow
  <2> QED BY <1>3, <2>1, RowIs DEF RowFamilies
<1>4. CASE mode = "sharedpool"
  <2>1. s \in Row("sharedpool", l.name, 0, l.vals, SharedPoolCols)
    BY <1>4 DEF SectionRow, SharedpoolRow
  <2> QED BY <1>4, <2>1, RowIs DEF RowFamilies
<1>5. CASE mode = "softpool"
  <2>1. s \in PoolRow("softpool", l)
    BY <1>5 DEF SectionRow
  <2> QED BY <1>5, <2>1, PoolRowIs DEF RowFamilies
<1>6. CASE mode = "powpool"
  <2>1. s \in PoolRow("powpool", l)
    BY <1>6 DEF SectionRow
  <2> QED BY <1>6, <2>1, PoolRowIs DEF RowFamilies
<1>7. CASE mode \in {"procus_func", "procus_group"}
  <2>1. s \in Row(mode, l.name, 0, l.vals, ProcusCols)
    BY <1>7 DEF SectionRow, ProcusRow
  <2> QED BY <1>7, <2>1, RowIs DEF RowFamilies
<1>8. CASE mode = "procusd"
  <2>1. s \in Row("procusd", c.detName, l.vals[1], Tail(l.vals), ProcusdCols)
    BY <1>8 DEF SectionRow, ProcusdRow
  <2>2. Plain(s, "procusd") /\ s.key = <<c.detName>>
    BY <2>1, RowIs
  <2> QED BY <1>8, <2>2 DEF RowFamilies
<1>9. CASE mode = "si"
  <2>1. s \in SiLine(l)
    BY <1>9 DEF SectionRow
  <2> QED BY <1>9, <2>1, SiLineIs DEF RowFamilies
<1>10. CASE mode \in {"gcskip", ""}
  <2>1. s \in {}
    BY <1>10 DEF SectionRow
  <2> QED BY <2>1
<1> QED BY <1>1, <1>2, <1>3, <1>4, <1>5, <1>6, <1>7, <1>8, <1>9, <1>10 DEF RowModes

LEMMA RowLineKeeps ==
    ASSUME LogsInv, NEW l \in Line, RowLine(l)
    PROVE  LogsInv'
<1>1. PICK mode \in RowModes : InMode(mode, l) /\ Emit(SectionRow(mode, l)) /\ UNCHANGED c
  BY DEF RowLine
<1> DEFINE S == SectionRow(mode, l)
           z == Section(Text, Len(Text) + 1)
<1>2. Below(Append(Text, l), Text, l, Len(Text), c) /\ c.mode = mode /\ InSections(l)
  BY <1>1, ModeReads
<1>3. Collected(c', Append(Text, l), Len(Text) + 2)
  BY <1>1, <1>2, RowsKnow
<1>4. c'.plane = c.plane /\ c'.block = c.block
  BY <1>1
<1>5. \A s \in S : /\ mode \in RowFamilies /\ Plain(s, mode)
                   /\ mode = "procusd" => s.key = <<c.detName>>
  BY SectionRowIs
<1> HIDE DEF S
<1>6. mode \in RowFamilies => mode \in Families /\ FamilyMode(mode) = mode /\ mode \notin {"cpu", "ru"}
  BY DEF Families, FamilyMode, RowFamilies
<1>7. ASSUME NEW s \in S
      PROVE  Rooted(s, Text, Len(Text), l)
  <2>1. s.fam = mode /\ mode \in RowFamilies
    BY <1>5, <1>7 DEF Plain
  <2>2. mode \notin {"cpu", "pertask", "ru", "vmpow"}
    BY <2>1 DEF RowFamilies
  <2>3. mode = "gc" => \E g \in InText(Text, z, Len(Text) + 1, {"gcElapsed"}) :
           Text[g].vals[1] >= GcMinElapsedSeconds /\ InText(Text, z, g, {"gcElapsed"}) = {}
    BY <1>2, BelowIs DEF GaugeRead
  <2>4. mode = "procusd" => s.key = <<Text[z].name>>
    BY <1>2, <1>5, <1>7, BelowIs DEF FunctionRead
  <2> QED BY <2>1, <2>2, <2>3, <2>4 DEF Rooted
<1>8. ASSUME c.haveTs, NEW s \in S
      PROVE  s.at = Here /\ Good(s, LogPath, Append(Text, l))
  BY <1>1, <1>5, <1>6, <1>7, <1>8, PanioGood
<1>9. Quiet(S)
  BY <1>5, <1>6, NotCpu DEF Quiet
<1> QED BY <1>1, <1>2, <1>3, <1>4, <1>8, <1>9, PanioKeeps DEF S

LEMMA SectionsLineKeeps ==
    ASSUME LogsInv, NEW l \in Line, SectionsLine(l)
    PROVE  LogsInv'
BY SectionLineKeeps, GcElapsedKeeps, Cpu15mKeeps, PerTaskKeeps, RuKeeps, VmpowKeeps, RowLineKeeps
   DEF SectionsLine

----------------------------------------------------------------------------
(* The headers and the members of the archive.                             *)

LEMMA FlushedIs ==
    ASSUME NEW s \in Flushed
    PROVE  s.fam = "netstat_detail" /\ s.at = Here
<1>1. PICK k \in DOMAIN c.nsAcc, q \in {1, 2} :
         s = SampleAt(c.nsTs, "netstat_detail", <<k>>, 0, q, c.nsAcc[k][q])
  BY DEF Flushed
<1> DEFINE v == c.nsAcc[k][q]
<1>2. s = SampleAt(c.nsTs, "netstat_detail", <<k>>, 0, q, v)
  BY <1>1
<1> HIDE DEF v
<1> QED BY <1>2 DEF SampleAt

LEMMA BlockHeaderKeeps ==
    ASSUME LogsInv, NEW l \in Line, BlockHeader(l)
    PROVE  LogsInv'
<1> DEFINE u == Append(Text, l)
           n == Len(Text)
           ts == IF l.vals = <<>> THEN c.ts ELSE l.vals[1]
           has == c.haveTs \/ l.vals # <<>>
           ns == IF l.name = "netstat_detail" THEN ts ELSE c.nsTs
           x == Collector(c.plane)
<1>1. l.is = "hdr" /\ Read(l) /\ Emit(Flushed)
  BY DEF BlockHeader
<1>2. c' = [x EXCEPT !.ts = ts, !.haveTs = has, !.block = l.name, !.nsTs = ns, !.rowIdx = c.rowIdx,
                     !.taskCols = c.taskCols, !.rxtxCols = c.rxtxCols,
                     !.fabricUnsupported = c.fabricUnsupported]
  BY DEF BlockHeader
<1>3. Longer(u, Text, l, n) /\ Framed(c, Text, n+1)
  BY <1>1, ReadNow DEF LogsInv
<1>4. DOMAIN x = CollectorFields /\ Fresh(x) /\ x.plane = c.plane
  BY FieldsAre
<1> HIDE DEF x, ts, has, ns
<1>5. /\ DOMAIN c' = CollectorFields /\ c'.plane = c.plane
      /\ c'.ts = ts /\ c'.haveTs = has /\ c'.block = l.name /\ c'.rowIdx = c.rowIdx
  BY <1>2, <1>4, FieldNames DEF FrameFields
<1>6. Fresh(c')
  <2>1. /\ c'.mode = x.mode /\ c'.curIface = x.curIface /\ c'.rxtxDir = x.rxtxDir
        /\ c'.nsSection = x.nsSection /\ c'.appVsys = x.appVsys /\ c'.cpsPath = x.cpsPath
    BY <1>2, <1>4, FieldNames DEF FrameFields
  <2> QED BY <1>4, <2>1 DEF Fresh
<1>7. Collected(c', u, n+2)
  <2> HIDE DEF u, n
  <2> QED BY <1>1, <1>3, <1>5, <1>6, HeaderKnows DEF ts, has
<1>8. NewGood(Flushed, l)
  BY FlushedIs DEF NewGood, Good
<1>9. NewFirst(Flushed, l)
  BY <1>1, FlushedIs DEF NewFirst, FirstRow
<1> QED BY <1>1, <1>5, <1>7, <1>8, <1>9, ReadKeeps DEF LogsInv

LEMMA SkipMemberKeeps ==
    ASSUME LogsInv, SkipMember
    PROVE  LogsInv'
<1>1. member' = member + 1 /\ UNCHANGED <<logs, c, out, open>>
  BY DEF SkipMember, Visiting
<1>2. CounterTypes'
  BY <1>1 DEF LogsInv, CounterTypes
<1> QED BY <1>1, <1>2 DEF LogsInv, CollectorInv, SamplesInv, FirstRowInv

LEMMA OpenLogKeeps ==
    ASSUME LogsInv, OpenLog
    PROVE  LogsInv'
<1> DEFINE N == Len(logs)
           path == Archive[member + 1]
           r == [path |-> path, text |-> <<>>]
<1>1. /\ member' = member + 1 /\ ~open /\ member < Len(Archive)
      /\ logs' = Append(logs, r) /\ c' = Collector(PlaneOf(path)) /\ open' = TRUE /\ out' = out
  BY DEF OpenLog, Visiting
<1>2. logs \in Seq(Log) /\ member \in Nat /\ N \in Nat
  BY DEF LogsInv, CounterTypes
<1>3. path \in Path
  <2>1. Archive \in Seq(Path) /\ member + 1 \in 1..Len(Archive)
    BY <1>1, <1>2, CountersAssumption
  <2> QED BY <2>1, ElementOfSeq
<1>4. r \in Log /\ r.path = path /\ r.text = <<>>
  BY <1>3 DEF Log
<1> HIDE DEF r, path
<1>5. /\ logs' \in Seq(Log) /\ Len(logs') = N + 1 /\ logs'[N+1] = r
      /\ \A n \in 1..N : logs'[n] = logs[n]
  BY <1>1, <1>2, <1>4
<1> HIDE DEF N
<1>6. CounterTypes'
  <2>1. logs' # <<>>
    BY <1>2, <1>5
  <2> QED BY <1>1, <1>2, <1>5, <2>1 DEF CounterTypes
<1>7. CollectorInv'
  <2>1. logs'[Len(logs')].path = path /\ logs'[Len(logs')].text = <<>>
    BY <1>4, <1>5
  <2>2. Len(<<>>) + 1 = 1
    OBVIOUS
  <2>3. Collected(c', <<>>, 1) /\ c'.plane = PlaneOf(path)
    BY <1>1, KnowsNothingYet, FieldsAre
  <2>4. Collected(c', logs'[Len(logs')].text, Len(logs'[Len(logs')].text) + 1)
    BY <2>1, <2>2, <2>3
  <2>5. c'.plane = PlaneOf(logs'[Len(logs')].path)
    BY <2>1, <2>3
  <2> QED BY <2>4, <2>5 DEF CollectorInv
<1>8. ASSUME NEW s \in out
      PROVE  /\ \E n \in 1..N : \E k \in 1..Len(logs[n].text) + 1 :
                   Sampled(s, logs[n].text, logs[n].path, n, k)
             /\ s.at[1] \in 1..N
  <2>1. PICK n \in 1..N : \E k \in 1..Len(logs[n].text) + 1 :
               Sampled(s, logs[n].text, logs[n].path, n, k)
    BY DEF LogsInv, SamplesInv, Sampled, N
  <2> QED BY <2>1 DEF Sampled
<1>9. SamplesInv'
  <2>1. \A n \in 1..N : n \in 1..N+1
    BY <1>2
  <2>2. \A s \in out' : \E n \in 1..Len(logs') : \E k \in 1..Len(logs'[n].text) + 1 :
           Sampled(s, logs'[n].text, logs'[n].path, n, k)
    <3> SUFFICES ASSUME NEW s \in out'
                 PROVE  \E n \in 1..Len(logs') : \E k \in 1..Len(logs'[n].text) + 1 :
                           Sampled(s, logs'[n].text, logs'[n].path, n, k)
      OBVIOUS
    <3>1. PICK n \in 1..N : \E k \in 1..Len(logs[n].text) + 1 :
               Sampled(s, logs[n].text, logs[n].path, n, k)
      BY <1>1, <1>8
    <3> QED BY <1>5, <2>1, <3>1
  <2> QED BY <2>2 DEF SamplesInv, Sampled
<1>10. FirstRowInv'
  <2>1. c'.block # "cpu"
    BY <1>1, FieldsAre
  <2>2. ASSUME NEW s \in out', NEW x \in out', FirstRow(s), FirstRow(x), s.at[1] = x.at[1],
               Start(logs'[s.at[1]].text, s.at[2]) = Start(logs'[s.at[1]].text, x.at[2])
        PROVE  s.at = x.at
    <3>1. s \in out /\ x \in out /\ logs'[s.at[1]] = logs[s.at[1]]
      BY <1>1, <1>5, <1>8
    <3> QED BY <2>2, <3>1 DEF LogsInv, FirstRowInv
  <2> QED BY <2>1, <2>2 DEF FirstRowInv
<1> QED BY <1>6, <1>7, <1>9, <1>10 DEF LogsInv

LEMMA CloseLogKeeps ==
    ASSUME LogsInv, CloseLog
    PROVE  LogsInv'
<1>1. /\ open /\ open' = FALSE /\ Emit(Flushed) /\ member' = member /\ logs' = logs
  BY DEF CloseLog
<1>2. CounterTypes' /\ CollectorInv'
  BY <1>1 DEF LogsInv, CounterTypes, CollectorInv
<1>3. ASSUME NEW s \in out' \ out
      PROVE  s.fam = "netstat_detail" /\ s.at = Here
  <2>1. s \in Flushed
    BY <1>1 DEF Emit
  <2> QED BY <2>1, FlushedIs
<1>4. /\ Len(logs) \in 1..Len(logs)
      /\ Len(logs[Len(logs)].text) + 1 \in 1..Len(logs[Len(logs)].text) + 1
  <2>1. logs \in Seq(Log) /\ logs # <<>>
    BY <1>1 DEF LogsInv, CounterTypes
  <2>2. Len(logs) \in 1..Len(logs)
    BY <2>1
  <2>3. logs[Len(logs)] \in Log
    BY <2>1, <2>2, ElementOfSeq
  <2>4. logs[Len(logs)].text \in Seq(Line)
    BY <2>3 DEF Log
  <2>5. Len(logs[Len(logs)].text) \in Nat
    BY <2>4
  <2> QED BY <2>2, <2>5
<1>5. SamplesInv'
  <2> SUFFICES ASSUME NEW s \in out'
               PROVE  \E n \in 1..Len(logs) : \E k \in 1..Len(logs[n].text) + 1 :
                         Sampled(s, logs[n].text, logs[n].path, n, k)
    BY <1>1 DEF SamplesInv, Sampled
  <2>1. CASE s \in out
    BY <2>1 DEF LogsInv, SamplesInv, Sampled
  <2>2. CASE s \notin out
    <3>1. s.fam = "netstat_detail" /\ s.at = <<Len(logs), Len(logs[Len(logs)].text) + 1>>
      BY <1>3, <2>2 DEF Here
    <3>2. Sampled(s, logs[Len(logs)].text, logs[Len(logs)].path, Len(logs),
                  Len(logs[Len(logs)].text) + 1)
      BY <3>1 DEF Sampled, Good
    <3> QED BY <1>4, <3>2
  <2> QED BY <2>1, <2>2
<1>6. FirstRowInv'
  <2>1. \A s \in out' : FirstRow(s) => s \in out
    BY <1>3 DEF FirstRow
  <2> QED BY <1>1, <2>1 DEF LogsInv, FirstRowInv
<1> QED BY <1>2, <1>5, <1>6 DEF LogsInv

LEMMA LogsInvHolds == CountersSpec => []LogsInv
<1>1. CountersInit => LogsInv
  <2> SUFFICES ASSUME CountersInit
               PROVE  LogsInv
    OBVIOUS
  <2>1. member = 0 /\ logs = <<>> /\ out = {} /\ open = FALSE
    BY DEF CountersInit
  <2>2. <<>> \in Seq(Log)
    OBVIOUS
  <2>3. CounterTypes
    BY <2>1, <2>2 DEF CounterTypes
  <2> QED BY <2>1, <2>3 DEF LogsInv, CollectorInv, SamplesInv, FirstRowInv
<1>2. LogsInv /\ [CountersNext]_counterVars => LogsInv'
  <2> SUFFICES ASSUME LogsInv, [CountersNext]_counterVars
               PROVE  LogsInv'
    OBVIOUS
  <2>1. CASE SkipMember
    BY <2>1, SkipMemberKeeps
  <2>2. CASE OpenLog
    BY <2>2, OpenLogKeeps
  <2>3. CASE CloseLog
    BY <2>3, CloseLogKeeps
  <2>4. ASSUME NEW l \in Readable, BlockHeader(l) \/ BlockLine(l) \/ SectionsLine(l)
        PROVE  LogsInv'
    <3>1. l \in Line
      BY CountersAssumption DEF Readable
    <3> QED BY <2>4, <3>1, BlockHeaderKeeps, BlockLineKeeps, SectionsLineKeeps
  <2>5. CASE UNCHANGED counterVars
    BY <2>5 DEF counterVars, LogsInv, CounterTypes, CollectorInv, SamplesInv, FirstRowInv
  <2> QED BY <2>1, <2>2, <2>3, <2>4, <2>5 DEF CountersNext
<1> QED BY <1>1, <1>2, PTL DEF CountersSpec

----------------------------------------------------------------------------
(* The theorems.                                                           *)

\* A sample that is no sum is good for its own log.
LEMMA SampleGood ==
    ASSUME LogsInv, NEW s \in out, s.fam # "netstat_detail"
    PROVE  /\ s.at[1] \in 1..Len(logs) /\ s.at[2] \in 1..Len(logs[s.at[1]].text)
           /\ Good(s, logs[s.at[1]].path, logs[s.at[1]].text)
<1>1. PICK n \in 1..Len(logs) : \E k \in 1..Len(logs[n].text) + 1 :
             Sampled(s, logs[n].text, logs[n].path, n, k)
  BY DEF LogsInv, SamplesInv, Sampled
<1>2. PICK k \in 1..Len(logs[n].text) + 1 : Sampled(s, logs[n].text, logs[n].path, n, k)
  BY <1>1
<1>3. s.at = <<n, k>> /\ k <= Len(logs[n].text) /\ Good(s, logs[n].path, logs[n].text)
  BY <1>2 DEF Sampled
<1>4. s.at[1] = n /\ s.at[2] = k
  BY <1>3
<1>5. logs[n].text \in Seq(Line)
  <2>1. logs \in Seq(Log)
    BY DEF LogsInv, CounterTypes
  <2>2. logs[n] \in Log
    BY <2>1, ElementOfSeq
  <2> QED BY <2>2 DEF Log
<1>6. k \in 1..Len(logs[n].text)
  BY <1>3, <1>5
<1> QED BY <1>3, <1>4, <1>6

\* Every sample bears the plane of its own log and the time of its own block; the rows
\* of minutes go back from it, and rows before any header give none.
THEOREM SamplesAreDated == CountersSpec => []SamplesDated
<1>1. LogsInv => SamplesDated
  BY SampleGood DEF SamplesDated, Good
<1> QED BY <1>1, LogsInvHolds, PTL

\* What a sample is named after has been read in its own block and section, and one
\* row of a cpu block gives its load.
THEOREM SamplesAreInContext == CountersSpec => []SamplesInContext
<1>1. LogsInv => SamplesInContext
  <2> SUFFICES ASSUME LogsInv, NEW s \in out
               PROVE  /\ OfBlock(s, logs[s.at[1]].text)
                      /\ \A x \in out :
                            (FirstRow(s) /\ FirstRow(x) /\ x.at[1] = s.at[1]
                               /\ Start(logs[s.at[1]].text, x.at[2]) = Start(logs[s.at[1]].text, s.at[2]))
                            => x.at = s.at
    BY DEF SamplesInContext
  <2>1. CASE s.fam = "netstat_detail"
    BY <2>1 DEF OfBlock, FirstRow
  <2>2. CASE s.fam # "netstat_detail"
    <3>1. OfBlock(s, logs[s.at[1]].text)
      BY <2>2, SampleGood DEF Good
    <3> QED BY <3>1 DEF LogsInv, FirstRowInv
  <2> QED BY <2>1, <2>2
<1> QED BY <1>1, LogsInvHolds, PTL

\* A value of cp_stats is named after the objects that are open around it, from the
\* outside, but the outermost one.
THEOREM NamesAreNested == CountersSpec => []NamesFollowNesting
<1>1. LogsInv => NamesFollowNesting
  <2> SUFFICES ASSUME LogsInv, NEW s \in out
               PROVE  OfObjects(s, logs[s.at[1]].text)
    BY DEF NamesFollowNesting
  <2>1. CASE s.fam = "netstat_detail"
    BY <2>1 DEF OfObjects
  <2>2. CASE s.fam # "netstat_detail"
    BY <2>2, SampleGood DEF Good
  <2> QED BY <2>1, <2>2
<1> QED BY <1>1, LogsInvHolds, PTL

----------------------------------------------------------------------------
(* Adding up the lines of a block of netstat_detail.                       *)

\* The rows that name a program have the numbers of both queues.
Socks(t) == \A j \in 1..Len(t) : t[j].is = "sock" => Len(t[j].vals) >= 2

\* The running total of a queue over some lines.
AtLine(t, lines, q, k) == IF k \in lines THEN t[k].vals[q] ELSE 0
Totals(g, t, lines, q) ==
    /\ g \in [0..Len(t) -> Nat] /\ g[0] = 0
    /\ \A k \in 1..Len(t) : g[k] = g[k-1] + AtLine(t, lines, q, k)

\* Rows that name a program, and no others.
OfSocks(t, lines) == \A j \in 1..Len(t) : j \in lines => t[j].is = "sock"

LEMMA AtLineIs ==
    ASSUME NEW t \in Seq(Line), Socks(t), NEW lines, OfSocks(t, lines), NEW q \in {1, 2},
           NEW k \in 1..Len(t)
    PROVE  AtLine(t, lines, q, k) \in Nat
<1>1. CASE k \in lines
  <2>1. t[k] \in Line /\ Len(t[k].vals) >= 2
    BY <1>1, ElementOfSeq DEF Socks, OfSocks
  <2>2. t[k].vals \in Seq(Nat)
    BY <2>1 DEF Line
  <2> DEFINE v == t[k].vals
  <2> HIDE DEF v
  <2>3. q \in 1..Len(v)
    BY <2>1, <2>2 DEF v
  <2>4. v[q] \in Nat
    BY <2>2, <2>3, ElementOfSeq DEF v
  <2> QED BY <1>1, <2>4 DEF AtLine, v
<1>2. CASE k \notin lines
  BY <1>2 DEF AtLine
<1> QED BY <1>1, <1>2

LEMMA TotalsIs ==
    ASSUME NEW t \in Seq(Line), Socks(t), NEW lines, OfSocks(t, lines), NEW q \in {1, 2}
    PROVE  \E g : Totals(g, t, lines, q) /\ SumOver(t, lines, q) = g[Len(t)]
<1> DEFINE n == Len(t)
           add(k) == AtLine(t, lines, q, k)
           R(g) == g = [m \in 0..n |-> IF m = 0 THEN 0 ELSE g[m-1] + IF m \in lines THEN t[m].vals[q] ELSE 0]
           Q(g) == g = [m \in 0..n |-> IF m = 0 THEN 0 ELSE g[m-1] + add(m)]
           total == CHOOSE g : R(g)
           step == [k \in 1..n |-> [x \in Nat |-> x + add(k)]]
<1>1. n \in Nat /\ \A k \in 1..n : add(k) \in Nat
  BY AtLineIs
<1>2. SumOver(t, lines, q) = total[n]
  BY DEF SumOver
<1>3. \A g : R(g) <=> Q(g)
  BY DEF AtLine
<1> HIDE DEF n, add, R
<1>4. step \in [1..n -> [Nat -> Nat]] /\ \A k \in 1..n : \A x \in Nat : step[k][x] = x + add(k)
  BY <1>1
<1> HIDE DEF step
<1>5. PICK g : Iterates(Nat, 0, n, step, g)
  BY <1>1, <1>4, IterationExists
<1>6. g \in [0..n -> Nat] /\ g[0] = 0 /\ \A k \in 1..n : g[k] = step[k][g[k-1]]
  BY <1>5 DEF Iterates
<1>7. \A k \in 1..n : g[k] = g[k-1] + add(k)
  <2>1. \A k \in 1..n : g[k-1] \in Nat
    <3>1. \A k \in 1..n : k - 1 \in 0..n
      BY <1>1
    <3> QED BY <1>6, <3>1
  <2> QED BY <1>4, <1>6, <2>1
<1>8. Q(g)
  <2>1. \A k \in 0..n : g[k] = IF k = 0 THEN 0 ELSE g[k-1] + add(k)
    <3>1. \A k \in 0..n : k = 0 \/ k \in 1..n
      BY <1>1
    <3> QED BY <1>6, <1>7, <3>1
  <2>2. g = [k \in 0..n |-> g[k]]
    BY <1>6
  <2> QED BY <2>1, <2>2
<1>9. Q(total)
  <2> HIDE DEF Q
  <2>1. R(total)
    BY <1>3, <1>8
  <2> QED BY <1>3, <2>1
<1> HIDE DEF total
<1>10. \A k \in 0..n : total[k] = IF k = 0 THEN 0 ELSE total[k-1] + add(k)
  BY <1>9
<1>11. DOMAIN total = 0..n /\ total = [k \in 0..n |-> total[k]]
  BY <1>9
<1>12. total[0] = 0 /\ \A k \in 1..n : total[k] = total[k-1] + add(k)
  <2>1. \A k \in 1..n : k \in 0..n /\ k # 0
    BY <1>1
  <2> QED BY <1>1, <1>10, <2>1
<1> DEFINE S == {k \in 0..n : total[k] \in Nat}
<1>13. 0 \in S /\ \A k \in 1..n : k - 1 \in S => k \in S
  <2>1. 0 \in S
    BY <1>1, <1>12
  <2>2. ASSUME NEW k \in 1..n, k - 1 \in S
        PROVE  k \in S
    <3>1. total[k] = total[k-1] + add(k) /\ total[k-1] \in Nat /\ add(k) \in Nat
      BY <1>1, <1>12, <2>2
    <3>2. k \in 0..n
      BY <1>1
    <3> QED BY <3>1, <3>2
  <2> QED BY <2>1, <2>2
<1> HIDE DEF S
<1>14. \A k \in 0..n : k \in S
  BY <1>1, <1>13, AllUpto
<1>15. \A k \in 0..n : total[k] \in Nat
  BY <1>14 DEF S
<1>16. total \in [0..n -> Nat]
  BY <1>11, <1>15
<1> QED BY <1>2, <1>12, <1>16 DEF Totals, n, add

\* Two totals that grow by the same agree.
Adds(g, a, n) == g[0] = 0 /\ \A k \in 1..n : g[k] = g[k-1] + a[k]

LEMMA TotalsAgree ==
    ASSUME NEW n \in Nat, NEW g, NEW f, NEW a, Adds(g, a, n), Adds(f, a, n)
    PROVE  g[n] = f[n]
<1> DEFINE S == {k \in 0..n : g[k] = f[k]}
<1>1. 0 \in S
  BY DEF Adds
<1>2. \A k \in 1..n : k - 1 \in S => k \in S
  BY DEF Adds
<1> HIDE DEF S
<1>3. \A k \in 0..n : k \in S
  BY <1>1, <1>2, AllUpto
<1> QED BY <1>3 DEF S

\* One more line adds what it says, if it is one of those that count.
LEMMA SumMore ==
    ASSUME NEW u, NEW t, NEW l, NEW n, Longer(u, t, l, n), Socks(u), NEW q \in {1, 2},
           NEW lines, NEW more, OfSocks(t, lines), OfSocks(u, more),
           \A k \in 1..n : k \in more <=> k \in lines
    PROVE  /\ SumOver(t, lines, q) \in Nat
           /\ SumOver(u, more, q) = SumOver(t, lines, q) + AtLine(u, more, q, n+1)
<1>1. /\ n \in Nat /\ Len(t) = n /\ Len(u) = n+1 /\ u \in Seq(Line) /\ t \in Seq(Line)
      /\ \A j \in 1..n : u[j] = t[j]
  BY LongerIs
<1>2. Socks(t)
  <2>1. \A j \in 1..n : j \in 1..n+1
    BY <1>1
  <2> QED BY <1>1, <2>1 DEF Socks
<1>3. PICK g : Totals(g, t, lines, q) /\ SumOver(t, lines, q) = g[n]
  BY <1>1, <1>2, TotalsIs
<1>4. PICK f : Totals(f, u, more, q) /\ SumOver(u, more, q) = f[n+1]
  BY <1>1, TotalsIs
<1> DEFINE a == [k \in 1..n |-> AtLine(t, lines, q, k)]
           b == [k \in 1..n |-> AtLine(u, more, q, k)]
<1>5. \A k \in 1..n : a[k] = b[k]
  BY <1>1 DEF AtLine
<1>6. \A k \in 1..n : a[k] = AtLine(t, lines, q, k) /\ b[k] = AtLine(u, more, q, k)
  OBVIOUS
<1> HIDE DEF a, b
<1>7. /\ g[0] = 0 /\ g \in [0..n -> Nat] /\ f[0] = 0
      /\ \A k \in 1..n : g[k] = g[k-1] + a[k]
  BY <1>1, <1>3, <1>4, <1>6 DEF Totals
<1>8. \A k \in 1..n+1 : f[k] = f[k-1] + AtLine(u, more, q, k)
  BY <1>1, <1>4 DEF Totals
<1>9. \A k \in 1..n : f[k] = f[k-1] + b[k]
  <2>1. \A k \in 1..n : k \in 1..n+1
    BY <1>1
  <2> QED BY <1>6, <1>8, <2>1
<1>10. g[n] = f[n]
  <2>1. Adds(g, a, n) /\ Adds(f, a, n)
    BY <1>5, <1>7, <1>9 DEF Adds
  <2> QED BY <1>1, <2>1, TotalsAgree
<1>11. f[n+1] = f[n] + AtLine(u, more, q, n+1)
  <2>1. n+1 \in 1..n+1 /\ (n+1)-1 = n
    BY <1>1
  <2> QED BY <1>8, <2>1
<1>12. g[n] \in Nat
  BY <1>1, <1>7
<1> QED BY <1>3, <1>4, <1>10, <1>11, <1>12

\* No lines add up to nothing.
LEMMA SumNone ==
    ASSUME NEW t \in Seq(Line), Socks(t), NEW q \in {1, 2}
    PROVE  SumOver(t, {}, q) = 0
<1>1. OfSocks(t, {})
  BY DEF OfSocks
<1>2. PICK g : Totals(g, t, {}, q) /\ SumOver(t, {}, q) = g[Len(t)]
  BY <1>1, TotalsIs
<1>3. Len(t) \in Nat /\ g[0] = 0 /\ \A k \in 1..Len(t) : g[k] = g[k-1] + 0
  BY <1>2 DEF Totals, AtLine
<1> DEFINE f == [k \in 0..Len(t) |-> 0]
           a == [k \in 1..Len(t) |-> 0]
           n == Len(t)
<1>4. f[0] = 0 /\ f[n] = 0 /\ \A k \in 1..n : f[k] = f[k-1] + a[k]
  <2>1. n \in Nat /\ \A k \in 1..n : k \in 0..n /\ k-1 \in 0..n
    BY <1>3
  <2> HIDE DEF n
  <2> QED BY <2>1 DEF n
<1>5. \A k \in 1..n : g[k] = g[k-1] + a[k]
  BY <1>3
<1> HIDE DEF f, a, n
<1>6. g[n] = f[n]
  <2>1. Adds(g, a, n) /\ Adds(f, a, n) /\ n \in Nat
    BY <1>3, <1>4, <1>5 DEF Adds, n
  <2> QED BY <2>1, TotalsAgree
<1> QED BY <1>2, <1>4, <1>6 DEF n

----------------------------------------------------------------------------
(* The blocks of netstat_detail that have ended, and their sums.           *)

IsBlock(t, h, e, closed) ==
    /\ h \in 1..Len(t) /\ e \in 1..Len(t)+1 /\ t[h].name = "netstat_detail"
    /\ Ends(t, h, e, closed) /\ TimeBefore(t, e) >= 0

\* The sums of log n are those of its blocks.
Summed(S, n, t, closed) ==
    /\ \A s \in S : s.fam = "netstat_detail" /\ s.at[1] = n =>
          \E h, e : IsBlock(t, h, e, closed) /\ Given(s) \in SumsOf(t, h, e)
    /\ \A h, e : IsBlock(t, h, e, closed) => \A r \in SumsOf(t, h, e) :
          \E s \in S : s.fam = "netstat_detail" /\ s.at[1] = n /\ Given(s) = r

\* What the collector has added up before line e.
Adding(x, t, e) ==
    LET h == Start(t, e) IN
    IF x.block = "netstat_detail"
    THEN /\ x.haveTs => x.nsTs = TimeBefore(t, e)
         /\ \A k : k \in DOMAIN x.nsAcc <=> \E j \in InText(t, h, e, {"sock"}) : t[j].name = k
         /\ \A k \in DOMAIN x.nsAcc : \A q \in {1, 2} :
               x.nsAcc[k][q] = SumOver(t, Named(t, h, e, k), q)
    ELSE DOMAIN x.nsAcc = {}

LEMMA NamedIs ==
    ASSUME NEW t, NEW h \in Nat, NEW e \in Nat \ {0}, NEW k
    PROVE  /\ Named(t, h, e, k) \in SUBSET (1..e-1) /\ OfSocks(t, Named(t, h, e, k))
           /\ \A j : j \in Named(t, h, e, k) <=> j \in InText(t, h, e, {"sock"}) /\ t[j].name = k
<1>1. InText(t, h, e, {"sock"}) \in SUBSET (1..e-1)
  BY InTextIs
<1>2. \A j \in InText(t, h, e, {"sock"}) : t[j].is = "sock"
  BY DEF InText
<1> QED BY <1>1, <1>2 DEF Named, OfSocks

\* A line leaves the sums above it alone.
LEMMA SumBefore ==
    ASSUME NEW u, NEW t, NEW l, NEW n, Longer(u, t, l, n), Socks(u), NEW h \in Nat,
           NEW e \in 1..n+1, NEW k, NEW q \in {1, 2}
    PROVE  SumOver(u, Named(u, h, e, k), q) = SumOver(t, Named(t, h, e, k), q)
<1>1. n \in Nat /\ e \in Nat \ {0} /\ \A j \in 1..n : u[j] = t[j]
  BY LongerIs
<1>2. InText(u, h, e, {"sock"}) = InText(t, h, e, {"sock"})
  BY OneMoreBefore
<1> DEFINE A == Named(t, h, e, k)
           B == Named(u, h, e, k)
<1>3. A \in SUBSET (1..e-1) /\ B \in SUBSET (1..e-1) /\ OfSocks(t, A) /\ OfSocks(u, B)
  BY <1>1, NamedIs
<1>4. \A j : /\ j \in A <=> j \in InText(t, h, e, {"sock"}) /\ t[j].name = k
             /\ j \in B <=> j \in InText(u, h, e, {"sock"}) /\ u[j].name = k
  BY <1>1, NamedIs
<1> HIDE DEF A, B
<1>5. \A j \in 1..n : j \in B <=> j \in A
  BY <1>1, <1>2, <1>4
<1>6. n+1 \notin B
  BY <1>1, <1>3
<1>7. /\ SumOver(t, A, q) \in Nat
      /\ SumOver(u, B, q) = SumOver(t, A, q) + AtLine(u, B, q, n+1)
  BY <1>3, <1>5, SumMore
<1>8. AtLine(u, B, q, n+1) = 0
  BY <1>6 DEF AtLine
<1> QED BY <1>7, <1>8 DEF A, B

LEMMA SumsBefore ==
    ASSUME NEW u, NEW t, NEW l, NEW n, Longer(u, t, l, n), Socks(u), NEW h \in Nat,
           NEW e \in 1..n+1
    PROVE  SumsOf(u, h, e) = SumsOf(t, h, e)
<1>1. n \in Nat /\ e \in Nat \ {0} /\ \A j \in 1..n : u[j] = t[j]
  BY LongerIs
<1>2. InText(u, h, e, {"sock"}) = InText(t, h, e, {"sock"})
  BY OneMoreBefore
<1>3. \A j \in InText(t, h, e, {"sock"}) : u[j] = t[j]
  <2>1. InText(t, h, e, {"sock"}) \in SUBSET (1..e-1)
    BY <1>1, InTextIs
  <2> QED BY <1>1, <2>1
<1>4. TimeBefore(u, e) = TimeBefore(t, e)
  BY FrameBefore
<1>5. \A k : \A q \in {1, 2} : SumOf(u, h, e, k, q) = SumOf(t, h, e, k, q)
  <2> SUFFICES ASSUME NEW k, NEW q \in {1, 2}
               PROVE  SumOf(u, h, e, k, q) = SumOf(t, h, e, k, q)
    OBVIOUS
  <2>1. SumOver(u, Named(u, h, e, k), q) = SumOver(t, Named(t, h, e, k), q)
    BY SumBefore
  <2> QED BY <1>4, <2>1 DEF SumOf
<1> QED BY <1>2, <1>3, <1>5 DEF SumsOf

LEMMA EndsBefore ==
    ASSUME NEW u, NEW t, NEW l, NEW n, Longer(u, t, l, n), NEW h, NEW e
    PROVE  IsBlock(u, h, e, FALSE) <=> IsBlock(t, h, e, l.is = "hdr")
<1>1. /\ n \in Nat /\ Len(t) = n /\ Len(u) = n+1 /\ u[n+1] = l
      /\ \A j \in 1..n : u[j] = t[j]
  BY LongerIs
<1>2. ASSUME e \in 1..n+1
      PROVE  /\ Start(u, e) = Start(t, e) /\ Start(t, e) \in 0..e-1
             /\ TimeBefore(u, e) = TimeBefore(t, e)
  BY <1>2, FrameBefore
<1>3. ASSUME IsBlock(u, h, e, FALSE)
      PROVE  IsBlock(t, h, e, l.is = "hdr")
  <2>1. /\ h \in 1..n+1 /\ e \in 1..n+2 /\ u[h].name = "netstat_detail" /\ u[h].is = "hdr"
        /\ Start(u, e) = h /\ e <= n+1 /\ u[e].is = "hdr" /\ TimeBefore(u, e) >= 0
    BY <1>1, <1>3 DEF IsBlock, Ends
  <2>2. e \in 1..n+1
    BY <1>1, <2>1
  <2>3. h \in 0..e-1 /\ h \in 1..n
    BY <1>1, <1>2, <2>1, <2>2
  <2>4. e <= n => u[e] = t[e]
    BY <1>1, <2>2
  <2>5. ~(e <= n) => e = n+1
    BY <1>1, <2>2
  <2> QED BY <1>1, <1>2, <2>1, <2>2, <2>3, <2>4, <2>5 DEF IsBlock, Ends
<1>4. ASSUME IsBlock(t, h, e, l.is = "hdr")
      PROVE  IsBlock(u, h, e, FALSE)
  <2>1. /\ h \in 1..n /\ e \in 1..n+1 /\ t[h].name = "netstat_detail" /\ t[h].is = "hdr"
        /\ Start(t, e) = h /\ (e <= n => t[e].is = "hdr") /\ (~(e <= n) => l.is = "hdr")
        /\ TimeBefore(t, e) >= 0
    BY <1>1, <1>4 DEF IsBlock, Ends
  <2>2. e <= n => u[e] = t[e]
    BY <1>1, <2>1
  <2>3. ~(e <= n) => e = n+1
    BY <1>1, <2>1
  <2>4. e <= n+1 /\ h \in 1..n+1 /\ e \in 1..n+2 /\ u[h] = t[h]
    BY <1>1, <2>1
  <2> QED BY <1>1, <1>2, <2>1, <2>2, <2>3, <2>4 DEF IsBlock, Ends
<1> QED BY <1>3, <1>4

\* A line that is read ends a block if it is a header.
LEMMA SummedLonger ==
    ASSUME NEW u, NEW t, NEW l, NEW n, Longer(u, t, l, n), Socks(u), NEW S, NEW i,
           Summed(S, i, t, l.is = "hdr")
    PROVE  Summed(S, i, u, FALSE)
<1>1. \A h, e : IsBlock(u, h, e, FALSE) <=> IsBlock(t, h, e, l.is = "hdr")
  BY EndsBefore
<1>2. \A h, e : IsBlock(t, h, e, l.is = "hdr") => SumsOf(u, h, e) = SumsOf(t, h, e)
  <2> SUFFICES ASSUME NEW h, NEW e, IsBlock(t, h, e, l.is = "hdr")
               PROVE  SumsOf(u, h, e) = SumsOf(t, h, e)
    OBVIOUS
  <2>1. Len(t) = n /\ n \in Nat
    BY LongerIs
  <2>2. h \in Nat /\ e \in 1..n+1
    BY <2>1 DEF IsBlock
  <2> QED BY <2>2, SumsBefore
<1>3. ASSUME NEW s \in S, s.fam = "netstat_detail", s.at[1] = i
      PROVE  \E h, e : IsBlock(u, h, e, FALSE) /\ Given(s) \in SumsOf(u, h, e)
  <2>1. PICK h, e : IsBlock(t, h, e, l.is = "hdr") /\ Given(s) \in SumsOf(t, h, e)
    BY <1>3 DEF Summed
  <2>2. IsBlock(u, h, e, FALSE) /\ SumsOf(u, h, e) = SumsOf(t, h, e)
    BY <1>1, <1>2, <2>1
  <2> QED BY <2>1, <2>2
<1>4. ASSUME NEW h, NEW e, IsBlock(u, h, e, FALSE), NEW r \in SumsOf(u, h, e)
      PROVE  \E s \in S : s.fam = "netstat_detail" /\ s.at[1] = i /\ Given(s) = r
  <2>1. IsBlock(t, h, e, l.is = "hdr") /\ r \in SumsOf(t, h, e)
    BY <1>1, <1>2, <1>4
  <2> QED BY <2>1 DEF Summed
<1> QED BY <1>3, <1>4 DEF Summed

\* Samples that are no sums, or of another log, change nothing.
LEMMA SummedMore ==
    ASSUME NEW S, NEW R, NEW i, NEW t, NEW closed, Summed(S, i, t, closed), S \subseteq R,
           \A s \in R : s \in S \/ s.fam # "netstat_detail" \/ s.at[1] # i
    PROVE  Summed(R, i, t, closed)
BY DEF Summed

\* Flushing ends the block that is being read, and no other.
LEMMA Flushes ==
    ASSUME NEW t \in Seq(Line), NEW N, Here = <<N, Len(t) + 1>>, Framed(c, t, Len(t) + 1),
           Adding(c, t, Len(t) + 1), Emit(Flushed), Summed(out, N, t, FALSE)
    PROVE  Summed(out', N, t, TRUE)
<1> DEFINE e == Len(t) + 1
           b == Start(t, e)
           F == IF c.haveTs THEN Flushed ELSE {}
<1>1. e \in Nat \ {0} /\ e \in 1..Len(t)+1 /\ ~(e <= Len(t)) /\ Len(t) \in Nat
  OBVIOUS
<1>2. out' = out \cup F /\ \A s : s \in F <=> c.haveTs /\ s \in Flushed
  BY DEF Emit
<1> HIDE DEF F
<1>3. /\ c.block = Block(t, e) /\ c.haveTs \in BOOLEAN
      /\ c.haveTs <=> TimeBefore(t, e) # -1
  BY DEF Framed
<1>4. b \in 0..e-1 /\ (b # 0 => t[b].is = "hdr") /\ b \in Nat
  <2>1. b \in 0..e-1 /\ b \in Nat
    BY <1>1, StartIs
  <2>2. b # 0 => t[b].is \in {"hdr"}
    BY <1>1, InTextIs DEF Start
  <2> QED BY <2>1, <2>2
<1>5. TimeBefore(t, e) = -1 \/ TimeBefore(t, e) \in Nat
  BY <1>1, TimeIs
<1>6. \A h, x : IsBlock(t, h, x, TRUE) <=>
         \/ IsBlock(t, h, x, FALSE)
         \/ x = e /\ h = b /\ b # 0 /\ t[b].name = "netstat_detail" /\ c.haveTs
  <2> SUFFICES ASSUME NEW h, NEW x
               PROVE  IsBlock(t, h, x, TRUE) <=>
                         \/ IsBlock(t, h, x, FALSE)
                         \/ x = e /\ h = b /\ b # 0 /\ t[b].name = "netstat_detail" /\ c.haveTs
    OBVIOUS
  <2>1. x \in 1..Len(t)+1 => x <= Len(t) \/ x = e
    BY <1>1
  <2>2. IsBlock(t, h, x, FALSE) => IsBlock(t, h, x, TRUE)
    BY DEF IsBlock, Ends
  <2>3. CASE x <= Len(t)
    <3>1. x # e
      BY <1>1, <2>3
    <3> QED BY <2>3, <3>1 DEF IsBlock, Ends
  <2>4. CASE x = e
    <3>1. ~IsBlock(t, h, x, FALSE)
      BY <1>1, <2>4 DEF IsBlock, Ends
    <3>2. IsBlock(t, h, x, TRUE) <=> /\ h \in 1..Len(t) /\ t[h].name = "netstat_detail"
                                    /\ t[h].is = "hdr" /\ b = h /\ TimeBefore(t, e) >= 0
      <4> HIDE DEF e
      <4>1. e \in 1..Len(t)+1 /\ ~(e <= Len(t))
        BY <1>1
      <4> QED BY <2>4, <4>1 DEF IsBlock, Ends
    <3>3. TimeBefore(t, e) >= 0 <=> c.haveTs
      BY <1>3, <1>5
    <3>4. b \in 1..Len(t) <=> b # 0
      BY <1>1, <1>4
    <3> HIDE DEF e, b
    <3> QED BY <1>4, <2>4, <3>1, <3>2, <3>3, <3>4
  <2>5. CASE x \notin 1..Len(t)+1
    <3>1. x # e
      BY <1>1, <2>5
    <3> QED BY <2>5, <3>1 DEF IsBlock
  <2> QED BY <2>1, <2>3, <2>4, <2>5
<1>7. c.block = "netstat_detail" <=> b # 0 /\ t[b].name = "netstat_detail"
  BY <1>3 DEF Block
<1> HIDE DEF e, b
<1>8. ASSUME NEW s \in F
      PROVE  /\ s.fam = "netstat_detail" /\ s.at[1] = N
             /\ IsBlock(t, b, e, TRUE) /\ Given(s) \in SumsOf(t, b, e)
  <2>1. c.haveTs /\ s \in Flushed
    BY <1>2, <1>8
  <2>2. PICK k \in DOMAIN c.nsAcc, q \in {1, 2} :
           s = SampleAt(c.nsTs, "netstat_detail", <<k>>, 0, q, c.nsAcc[k][q])
    BY <2>1 DEF Flushed
  <2>3. c.block = "netstat_detail"
    BY <2>2 DEF Adding
  <2>4. /\ c.nsTs = TimeBefore(t, e) /\ c.nsAcc[k][q] = SumOver(t, Named(t, b, e, k), q)
        /\ \E j \in InText(t, b, e, {"sock"}) : t[j].name = k
    BY <2>1, <2>2, <2>3 DEF Adding, b, e
  <2> DEFINE v == c.nsAcc[k][q]
  <2>5. s = SampleAt(c.nsTs, "netstat_detail", <<k>>, 0, q, v)
    BY <2>2
  <2>6. v = SumOver(t, Named(t, b, e, k), q)
    BY <2>4
  <2> HIDE DEF v
  <2>7. /\ s.fam = "netstat_detail" /\ s.at = <<N, e>> /\ s.key = <<k>> /\ s.col = q
        /\ s.ts = c.nsTs /\ s.v = v
    BY <2>5 DEF SampleAt, e
  <2>8. Given(s) = SumOf(t, b, e, k, q)
    BY <2>4, <2>6, <2>7 DEF Given, SumOf
  <2>9. Given(s) \in SumsOf(t, b, e)
    BY <2>4, <2>8 DEF SumsOf
  <2>10. IsBlock(t, b, e, TRUE)
    BY <1>6, <1>7, <2>1, <2>3
  <2>11. s.at[1] = N
    BY <2>7
  <2> QED BY <2>7, <2>9, <2>10, <2>11
<1>9. ASSUME IsBlock(t, b, e, TRUE), ~IsBlock(t, b, e, FALSE), NEW r \in SumsOf(t, b, e)
      PROVE  \E s \in F : s.fam = "netstat_detail" /\ s.at[1] = N /\ Given(s) = r
  <2>1. c.block = "netstat_detail" /\ c.haveTs
    BY <1>6, <1>7, <1>9
  <2>2. PICK j \in InText(t, b, e, {"sock"}), q \in {1, 2} : r = SumOf(t, b, e, t[j].name, q)
    BY <1>9 DEF SumsOf
  <2> DEFINE k == t[j].name
             v == c.nsAcc[k][q]
             s == SampleAt(c.nsTs, "netstat_detail", <<k>>, 0, q, v)
  <2>3. k \in DOMAIN c.nsAcc
    BY <2>1, <2>2 DEF Adding, b, e
  <2>4. v = SumOver(t, Named(t, b, e, k), q) /\ c.nsTs = TimeBefore(t, e)
    BY <2>1, <2>3 DEF Adding, b, e
  <2>5. s \in Flushed
    BY <2>3 DEF Flushed
  <2>6. r = SumOf(t, b, e, k, q)
    BY <2>2
  <2> HIDE DEF v, k
  <2>7. /\ s.fam = "netstat_detail" /\ s.at = <<N, e>> /\ s.key = <<k>> /\ s.col = q
        /\ s.ts = c.nsTs /\ s.v = v
    BY DEF SampleAt, e
  <2> HIDE DEF s
  <2>8. Given(s) = r
    BY <2>4, <2>6, <2>7 DEF Given, SumOf
  <2> QED BY <1>2, <2>1, <2>5, <2>7, <2>8
<1>10. ASSUME NEW s \in out', s.fam = "netstat_detail", s.at[1] = N
       PROVE  \E h, x : IsBlock(t, h, x, TRUE) /\ Given(s) \in SumsOf(t, h, x)
  <2>1. CASE s \in out
    <3>1. PICK h, x : IsBlock(t, h, x, FALSE) /\ Given(s) \in SumsOf(t, h, x)
      BY <1>10, <2>1 DEF Summed
    <3> QED BY <1>6, <3>1
  <2>2. CASE s \in F
    BY <1>8, <2>2
  <2> QED BY <1>2, <2>1, <2>2
<1>11. ASSUME NEW h, NEW x, IsBlock(t, h, x, TRUE), NEW r \in SumsOf(t, h, x)
       PROVE  \E s \in out' : s.fam = "netstat_detail" /\ s.at[1] = N /\ Given(s) = r
  <2>1. CASE IsBlock(t, h, x, FALSE)
    <3>1. \E s \in out : s.fam = "netstat_detail" /\ s.at[1] = N /\ Given(s) = r
      BY <1>11, <2>1 DEF Summed
    <3> QED BY <1>2, <3>1
  <2>2. CASE ~IsBlock(t, h, x, FALSE)
    <3>1. x = e /\ h = b
      BY <1>6, <1>11, <2>2
    <3>2. \E s \in F : s.fam = "netstat_detail" /\ s.at[1] = N /\ Given(s) = r
      BY <1>9, <1>11, <2>2, <3>1
    <3> QED BY <1>2, <3>2
  <2> QED BY <2>1, <2>2
<1> QED BY <1>10, <1>11 DEF Summed

\* A line of another block, or one without a program, adds nothing.
LEMMA AddingSame ==
    ASSUME NEW u, NEW t, NEW l, NEW n, Longer(u, t, l, n), Socks(u), l.is # "hdr", NEW x, NEW y,
           y.block = x.block, y.nsAcc = x.nsAcc, y.nsTs = x.nsTs, y.haveTs = x.haveTs,
           x.block = "netstat_detail" => l.is # "sock", Adding(x, t, n+1)
    PROVE  Adding(y, u, n+2)
<1>1. CASE x.block # "netstat_detail"
  BY <1>1 DEF Adding
<1>2. CASE x.block = "netstat_detail"
  <2> DEFINE h == Start(t, n+1)
  <2>1. Start(u, n+2) = h /\ h \in 0..n /\ TimeBefore(u, n+2) = TimeBefore(t, n+1)
    BY FrameLine
  <2>2. n \in Nat /\ n+1 \in Nat \ {0} /\ n+2 \in Nat \ {0} /\ \A j \in 1..n : u[j] = t[j]
    BY LongerIs
  <2> HIDE DEF h
  <2>3. InText(u, h, n+2, {"sock"}) = InText(t, h, n+1, {"sock"})
    <3>1. InText(u, h, n+2, {"sock"})
             = InText(t, h, n+1, {"sock"}) \cup (IF l.is \in {"sock"} THEN {n+1} ELSE {})
      BY <2>1, OneMore
    <3> QED BY <1>2, <3>1
  <2>4. h \in Nat /\ InText(t, h, n+1, {"sock"}) \in SUBSET (1..n)
    <3>1. h \in Nat
      BY <2>1, <2>2
    <3> QED BY <2>2, <3>1, BehindIs
  <2>5. \A k : \A q \in {1, 2} :
           SumOver(u, Named(u, h, n+2, k), q) = SumOver(t, Named(t, h, n+1, k), q)
    <3> SUFFICES ASSUME NEW k, NEW q \in {1, 2}
                 PROVE  SumOver(u, Named(u, h, n+2, k), q) = SumOver(t, Named(t, h, n+1, k), q)
      OBVIOUS
    <3>1. Named(u, h, n+2, k) = Named(u, h, n+1, k)
      <4>1. n+1 \in 1..n+1
        BY <2>2
      <4>2. InText(u, h, n+1, {"sock"}) = InText(t, h, n+1, {"sock"})
        BY <2>4, <4>1, OneMoreBefore
      <4> QED BY <2>3, <4>2 DEF Named
    <3>2. SumOver(u, Named(u, h, n+1, k), q) = SumOver(t, Named(t, h, n+1, k), q)
      <4>1. n+1 \in 1..n+1
        BY <2>2
      <4> QED BY <2>4, <4>1, SumBefore
    <3> QED BY <3>1, <3>2
  <2>6. \A j \in InText(t, h, n+1, {"sock"}) : u[j].name = t[j].name
    BY <2>2, <2>4
  <2>7. /\ x.haveTs => x.nsTs = TimeBefore(t, n+1)
        /\ \A k : k \in DOMAIN x.nsAcc <=> \E j \in InText(t, h, n+1, {"sock"}) : t[j].name = k
        /\ \A k \in DOMAIN x.nsAcc : \A q \in {1, 2} :
              x.nsAcc[k][q] = SumOver(t, Named(t, h, n+1, k), q)
    BY <1>2 DEF Adding, h
  <2>8. \A k : k \in DOMAIN y.nsAcc <=> \E j \in InText(u, h, n+2, {"sock"}) : u[j].name = k
    BY <2>3, <2>6, <2>7
  <2>9. \A k \in DOMAIN y.nsAcc : \A q \in {1, 2} :
           y.nsAcc[k][q] = SumOver(u, Named(u, h, n+2, k), q)
    BY <2>5, <2>7
  <2> QED BY <1>2, <2>1, <2>7, <2>8, <2>9 DEF Adding
<1> QED BY <1>1, <1>2

\* The queues of one more socket.
Added(acc, l) ==
    LET had == IF l.name \in DOMAIN acc THEN acc[l.name] ELSE <<0, 0>>
        sum == <<had[1] + l.vals[1], had[2] + l.vals[2]>>
    IN  [k \in DOMAIN acc \cup {l.name} |-> IF k = l.name THEN sum ELSE acc[k]]

LEMMA AddedIs ==
    ASSUME NEW acc, NEW l
    PROVE  /\ \A k : k \in DOMAIN Added(acc, l) <=> k \in DOMAIN acc \/ k = l.name
           /\ \A k \in DOMAIN acc : k # l.name => Added(acc, l)[k] = acc[k]
           /\ \A q \in {1, 2} :
                 Added(acc, l)[l.name][q] =
                    (IF l.name \in DOMAIN acc THEN acc[l.name][q] ELSE 0) + l.vals[q]
<1> DEFINE had == IF l.name \in DOMAIN acc THEN acc[l.name] ELSE <<0, 0>>
           sum == <<had[1] + l.vals[1], had[2] + l.vals[2]>>
<1>1. Added(acc, l) = [k \in DOMAIN acc \cup {l.name} |-> IF k = l.name THEN sum ELSE acc[k]]
  BY DEF Added
<1>2. \A q \in {1, 2} : sum[q] = had[q] + l.vals[q]
  <2> HIDE DEF had
  <2> QED OBVIOUS
<1>3. \A q \in {1, 2} : had[q] = IF l.name \in DOMAIN acc THEN acc[l.name][q] ELSE 0
  OBVIOUS
<1> HIDE DEF had, sum
<1>4. /\ DOMAIN Added(acc, l) = DOMAIN acc \cup {l.name} /\ Added(acc, l)[l.name] = sum
      /\ \A k \in DOMAIN acc : k # l.name => Added(acc, l)[k] = acc[k]
  BY <1>1
<1> QED BY <1>2, <1>3, <1>4

LEMMA AddingSock ==
    ASSUME NEW u, NEW t, NEW l, NEW n, Longer(u, t, l, n), Socks(u), l.is = "sock", NEW x, NEW y,
           x.block = "netstat_detail", y.block = x.block, y.nsTs = x.nsTs, y.haveTs = x.haveTs,
           y.nsAcc = Added(x.nsAcc, l), Adding(x, t, n+1)
    PROVE  Adding(y, u, n+2)
<1> DEFINE h == Start(t, n+1)
           A(k) == Named(t, h, n+1, k)
           B(k) == Named(u, h, n+2, k)
<1>1. Start(u, n+2) = h /\ h \in 0..n /\ TimeBefore(u, n+2) = TimeBefore(t, n+1)
  BY FrameLine
<1>2. /\ n \in Nat /\ n+1 \in Nat \ {0} /\ n+2 \in Nat \ {0} /\ Len(t) = n /\ t \in Seq(Line)
      /\ u[n+1] = l /\ \A j \in 1..n : u[j] = t[j]
  BY LongerIs
<1> HIDE DEF h
<1>3. h \in Nat /\ InText(t, h, n+1, {"sock"}) \in SUBSET (1..n)
  BY <1>1, <1>2, BehindIs
<1>4. \A j : j \in InText(u, h, n+2, {"sock"}) <=> j \in InText(t, h, n+1, {"sock"}) \/ j = n+1
  <2>1. InText(u, h, n+2, {"sock"})
           = InText(t, h, n+1, {"sock"}) \cup (IF l.is \in {"sock"} THEN {n+1} ELSE {})
    BY <1>1, OneMore
  <2> QED BY <2>1
<1>5. ASSUME NEW k
      PROVE  /\ OfSocks(t, A(k)) /\ OfSocks(u, B(k)) /\ A(k) \in SUBSET (1..n)
             /\ \A j \in 1..n : j \in B(k) <=> j \in A(k)
             /\ n+1 \in B(k) <=> k = l.name
  <2>1. /\ OfSocks(t, A(k)) /\ OfSocks(u, B(k))
        /\ \A j : j \in A(k) <=> j \in InText(t, h, n+1, {"sock"}) /\ t[j].name = k
        /\ \A j : j \in B(k) <=> j \in InText(u, h, n+2, {"sock"}) /\ u[j].name = k
    BY <1>2, <1>3, NamedIs
  <2> HIDE DEF A, B
  <2>2. \A j \in 1..n : j # n+1 /\ u[j] = t[j]
    BY <1>2
  <2> QED BY <1>2, <1>3, <1>4, <2>1, <2>2
<1> HIDE DEF A, B
<1>6. ASSUME NEW k, NEW q \in {1, 2}
      PROVE  SumOver(u, B(k), q) = SumOver(t, A(k), q) + (IF k = l.name THEN l.vals[q] ELSE 0)
             /\ SumOver(t, A(k), q) \in Nat
  <2>1. /\ SumOver(t, A(k), q) \in Nat
        /\ SumOver(u, B(k), q) = SumOver(t, A(k), q) + AtLine(u, B(k), q, n+1)
    BY <1>5, SumMore
  <2>2. AtLine(u, B(k), q, n+1) = IF k = l.name THEN l.vals[q] ELSE 0
    BY <1>2, <1>5 DEF AtLine
  <2> QED BY <2>1, <2>2
<1>7. /\ x.haveTs => x.nsTs = TimeBefore(t, n+1)
      /\ \A k : k \in DOMAIN x.nsAcc <=> \E j \in InText(t, h, n+1, {"sock"}) : t[j].name = k
      /\ \A k \in DOMAIN x.nsAcc : \A q \in {1, 2} : x.nsAcc[k][q] = SumOver(t, A(k), q)
  BY DEF Adding, h, A
<1>8. ASSUME l.name \notin DOMAIN x.nsAcc, NEW q \in {1, 2}
      PROVE  SumOver(t, A(l.name), q) = 0
  <2>1. A(l.name) = {}
    <3>1. \A j : j \in A(l.name) <=> j \in InText(t, h, n+1, {"sock"}) /\ t[j].name = l.name
      BY <1>2, <1>3, NamedIs DEF A
    <3> QED BY <1>7, <1>8, <3>1
  <2>2. Socks(t)
    <3>1. Len(u) = n+1 /\ \A j \in 1..n : j \in 1..n+1
      BY <1>2, LongerIs
    <3> QED BY <1>2, <3>1 DEF Socks
  <2> QED BY <1>2, <2>1, <2>2, SumNone
<1>9. \A k : k \in DOMAIN y.nsAcc <=> \E j \in InText(u, h, n+2, {"sock"}) : u[j].name = k
  <2>1. \A j \in InText(t, h, n+1, {"sock"}) : u[j].name = t[j].name
    BY <1>2, <1>3
  <2>2. \A k : k \in DOMAIN y.nsAcc <=> k \in DOMAIN x.nsAcc \/ k = l.name
    BY AddedIs
  <2> QED BY <1>2, <1>4, <1>7, <2>1, <2>2
<1>10. ASSUME NEW k \in DOMAIN y.nsAcc, NEW q \in {1, 2}
       PROVE  y.nsAcc[k][q] = SumOver(u, B(k), q)
  <2>1. CASE k # l.name
    <3>1. k \in DOMAIN x.nsAcc
      BY <2>1, AddedIs
    <3>2. y.nsAcc[k] = x.nsAcc[k]
      BY <2>1, <3>1, AddedIs
    <3>3. x.nsAcc[k][q] = SumOver(t, A(k), q)
      BY <1>7, <3>1
    <3>4. SumOver(u, B(k), q) = SumOver(t, A(k), q)
      BY <1>6, <2>1
    <3> QED BY <3>2, <3>3, <3>4
  <2>2. CASE k = l.name
    <3>1. y.nsAcc[k][q] = (IF k \in DOMAIN x.nsAcc THEN x.nsAcc[k][q] ELSE 0) + l.vals[q]
      BY <2>2, AddedIs
    <3>2. (IF k \in DOMAIN x.nsAcc THEN x.nsAcc[k][q] ELSE 0) = SumOver(t, A(k), q)
      BY <1>7, <1>8, <2>2
    <3>3. SumOver(u, B(k), q) = SumOver(t, A(k), q) + l.vals[q]
      BY <1>6, <2>2
    <3> QED BY <3>1, <3>2, <3>3
  <2> QED BY <2>1, <2>2
<1>11. \A k \in DOMAIN y.nsAcc : \A q \in {1, 2} :
          y.nsAcc[k][q] = SumOver(u, Named(u, h, n+2, k), q)
  BY <1>10 DEF B
<1> QED BY <1>1, <1>7, <1>9, <1>11 DEF Adding

\* A header starts with no sums, and with its own time.
LEMMA AddingHeader ==
    ASSUME NEW u, NEW t, NEW l, NEW n, Longer(u, t, l, n), l.is = "hdr", NEW x, NEW y, NEW ts,
           Framed(x, t, n+1), ts = (IF l.vals = <<>> THEN x.ts ELSE l.vals[1]),
           y.haveTs = (x.haveTs \/ l.vals # <<>>), y.block = l.name, DOMAIN y.nsAcc = {},
           l.name = "netstat_detail" => y.nsTs = ts
    PROVE  Adding(y, u, n+2)
<1>1. /\ Start(u, n+2) = n+1
      /\ TimeBefore(u, n+2) = IF l.vals = <<>> THEN TimeBefore(t, n+1) ELSE l.vals[1]
  BY FrameHeader
<1>2. n \in Nat
  BY LongerIs
<1>3. InText(u, n+1, n+2, {"sock"}) = {}
  BY <1>2, NothingRead
<1>4. y.haveTs => ts = TimeBefore(u, n+2)
  BY <1>1 DEF Framed
<1>5. CASE l.name # "netstat_detail"
  BY <1>5 DEF Adding
<1>6. CASE l.name = "netstat_detail"
  <2>1. /\ y.haveTs => y.nsTs = TimeBefore(u, n+2)
        /\ \A k : k \in DOMAIN y.nsAcc <=> \E j \in InText(u, n+1, n+2, {"sock"}) : u[j].name = k
        /\ \A k \in DOMAIN y.nsAcc : \A q \in {1, 2} :
              y.nsAcc[k][q] = SumOver(u, Named(u, n+1, n+2, k), q)
    BY <1>3, <1>4, <1>6
  <2> QED BY <1>1, <1>6, <2>1 DEF Adding
<1> QED BY <1>5, <1>6

----------------------------------------------------------------------------
(* The sums of every log.                                                  *)

SocksInv == \A n \in 1..Len(logs) : Socks(logs[n].text)

AddingInv == open => Adding(c, logs[Len(logs)].text, Len(logs[Len(logs)].text) + 1)

SummedInv == \A n \in 1..Len(logs) : Summed(out, n, logs[n].text, n < Len(logs) \/ ~open)

NetstatInv == SocksInv /\ AddingInv /\ SummedInv

\* No sample of a line is a sum.
NoSums == out \subseteq out' /\ \A s \in out' : s \in out \/ s.fam # "netstat_detail"

LEMMA EmitsNoSums ==
    ASSUME NEW S, Emit(S), \A s \in S : s.fam # "netstat_detail"
    PROVE  NoSums
BY DEF Emit, NoSums

\* What reading a line keeps of the sums.
LEMMA ReadSums ==
    ASSUME LogsInv, NetstatInv, NEW l \in Line, l.is = "sock" => Len(l.vals) >= 2, Read(l),
           Socks(Append(Text, l)) => Adding(c', Append(Text, l), Len(Text) + 2),
           IF l.is = "hdr" THEN Emit(Flushed) ELSE NoSums
    PROVE  NetstatInv'
<1> DEFINE N == Len(logs)
           u == Append(Text, l)
           n == Len(Text)
<1>1. /\ N \in Nat \ {0} /\ Len(logs') = N
      /\ logs'[N].text = u
      /\ \A i \in 1..N : i # N => logs'[i] = logs[i]
      /\ Longer(u, Text, l, n) /\ Here = <<N, n + 1>> /\ open /\ open'
  <2>1. CounterTypes
    BY DEF LogsInv
  <2> QED BY <2>1, ReadIs
<1>2. /\ n \in Nat /\ Len(u) = n+1 /\ u[n+1] = l /\ \A j \in 1..n : u[j] = Text[j]
      /\ Text \in Seq(Line) /\ N \in 1..N /\ logs[N].text = Text
  BY <1>1, LongerIs DEF Text
<1>3. Framed(c, Text, n+1)
  BY <1>1 DEF LogsInv, CollectorInv, Collected, Text
<1> HIDE DEF u, n, N
<1>4. Socks(u)
  <2>1. Socks(Text) /\ Len(Text) = n
    BY <1>2 DEF NetstatInv, SocksInv, N, n
  <2>2. \A j \in 1..n+1 : j = n+1 \/ j \in 1..n
    BY <1>2
  <2> QED BY <1>2, <2>1, <2>2 DEF Socks
<1>5. SocksInv'
  BY <1>1, <1>4 DEF NetstatInv, SocksInv, N
<1>6. AddingInv'
  <2>1. Len(logs'[Len(logs')].text) + 1 = n + 2 /\ logs'[Len(logs')].text = u
    BY <1>1, <1>2
  <2> QED BY <1>4, <2>1 DEF AddingInv, u, n
<1>7. Summed(out, N, Text, FALSE)
  <2>1. Summed(out, N, logs[N].text, N < N \/ ~open)
    BY <1>2 DEF NetstatInv, SummedInv, N
  <2>2. (N < N \/ ~open) = FALSE
    BY <1>1
  <2> QED BY <1>2, <2>1, <2>2
<1>8. Summed(out', N, u, FALSE)
  <2>1. CASE l.is = "hdr"
    <3>1. Adding(c, Text, n+1)
      BY <1>1, <1>2 DEF NetstatInv, AddingInv, N, n
    <3>2. Summed(out', N, Text, TRUE)
      BY <1>1, <1>2, <1>3, <1>7, <2>1, <3>1, Flushes DEF n
    <3>3. (l.is = "hdr") = TRUE
      BY <2>1
    <3>4. Summed(out', N, Text, l.is = "hdr")
      BY <3>2, <3>3
    <3> QED BY <1>1, <1>4, <3>4, SummedLonger
  <2>2. CASE l.is # "hdr"
    <3>1. (l.is = "hdr") = FALSE
      BY <2>2
    <3>2. Summed(out, N, Text, l.is = "hdr")
      BY <1>7, <3>1
    <3>3. Summed(out, N, u, FALSE)
      BY <1>1, <1>4, <3>2, SummedLonger
    <3> QED BY <2>2, <3>3, SummedMore DEF NoSums
  <2> QED BY <2>1, <2>2
<1>9. out \subseteq out' /\ \A s \in out' : s \in out \/ s.fam # "netstat_detail" \/ s.at[1] = N
  <2>1. CASE l.is = "hdr"
    <3>1. out \subseteq out' /\ \A s \in out' : s \in out \/ s \in Flushed
      BY <2>1 DEF Emit
    <3>2. \A s \in Flushed : s.at[1] = N
      BY <1>1, FlushedIs
    <3> QED BY <3>1, <3>2
  <2>2. CASE l.is # "hdr"
    BY <2>2 DEF NoSums
  <2> QED BY <2>1, <2>2
<1>10. ASSUME NEW i \in 1..N
       PROVE  Summed(out', i, logs'[i].text, i < N \/ ~open')
  <2>1. CASE i = N
    <3>1. (i < N \/ ~open') = FALSE
      BY <1>1, <2>1
    <3> QED BY <1>1, <1>8, <2>1, <3>1
  <2>2. CASE i # N
    <3>1. Summed(out, i, logs[i].text, i < N \/ ~open)
      BY DEF NetstatInv, SummedInv, N
    <3>2. (i < N \/ ~open) = (i < N \/ ~open')
      BY <1>1
    <3>3. \A s \in out' : s \in out \/ s.fam # "netstat_detail" \/ s.at[1] # i
      BY <1>9, <2>2
    <3>4. Summed(out', i, logs[i].text, i < N \/ ~open)
      BY <1>9, <3>1, <3>3, SummedMore
    <3> QED BY <1>1, <2>2, <3>2, <3>4
  <2> QED BY <2>1, <2>2
<1>11. SummedInv'
  BY <1>1, <1>10 DEF SummedInv
<1> QED BY <1>5, <1>6, <1>11 DEF NetstatInv

\* A line that is neither a header nor one of netstat_detail.
Elsewhere(l) ==
    /\ l.is # "hdr" /\ Read(l) /\ NoSums
    /\ c.block # "netstat_detail" /\ c'.block = c.block /\ c'.nsAcc = c.nsAcc

LEMMA ElsewhereKeeps ==
    ASSUME LogsInv, NetstatInv, NEW l \in Line, l.is = "sock" => Len(l.vals) >= 2, Elsewhere(l)
    PROVE  NetstatInv'
<1>1. Adding(c, Text, Len(Text) + 1)
  BY DEF Elsewhere, NetstatInv, AddingInv, Read, Text
<1>2. Adding(c', Append(Text, l), Len(Text) + 2)
  BY <1>1 DEF Elsewhere, Adding
<1> QED BY <1>2, ReadSums DEF Elsewhere

LEMMA NetstatLineSums ==
    ASSUME LogsInv, NetstatInv, NEW l \in Line, l.is = "sock" => Len(l.vals) >= 2, NetstatLine(l)
    PROVE  NetstatInv'
<1>1. /\ In("netstat_detail", l) /\ Emit({})
      /\ c' = IF l.is # "sock" THEN c ELSE [c EXCEPT !.nsAcc = Added(c.nsAcc, l)]
  BY DEF NetstatLine, Added
<1>2. "netstat_detail" \in Dedicated
  BY DEF Dedicated
<1>3. /\ Read(l) /\ l.is # "hdr" /\ c.block = "netstat_detail" /\ DOMAIN c = CollectorFields
      /\ Longer(Append(Text, l), Text, l, Len(Text)) /\ open
  BY <1>1, <1>2, ReaderReads DEF Read
<1>4. Adding(c, Text, Len(Text) + 1)
  BY <1>3 DEF NetstatInv, AddingInv, Text
<1>5. NoSums
  BY <1>1, EmitsNoSums
<1> DEFINE u == Append(Text, l)
           n == Len(Text)
<1> HIDE DEF u, n
<1>6. ASSUME Socks(u)
      PROVE  Adding(c', u, n + 2)
  <2>1. CASE l.is # "sock"
    <3>1. c' = c
      BY <1>1, <2>1
    <3> QED BY <1>3, <1>4, <1>6, <2>1, <3>1, AddingSame DEF u, n
  <2>2. CASE l.is = "sock"
    <3> DEFINE acc == Added(c.nsAcc, l)
    <3>1. c' = [c EXCEPT !.nsAcc = acc]
      BY <1>1, <2>2
    <3> HIDE DEF acc
    <3>2. {"nsAcc", "nsTs", "haveTs", "block"} \subseteq CollectorFields
      BY DEF CollectorFields, Collector
    <3>3. c'.block = c.block /\ c'.nsTs = c.nsTs /\ c'.haveTs = c.haveTs /\ c'.nsAcc = acc
      BY <1>3, <3>1, <3>2
    <3> QED BY <1>3, <1>4, <1>6, <2>2, <3>3, AddingSock DEF u, n, acc
  <2> QED BY <2>1, <2>2
<1> QED BY <1>3, <1>5, <1>6, ReadSums DEF u, n

LEMMA BlockHeaderSums ==
    ASSUME LogsInv, NetstatInv, NEW l \in Line, l.is = "sock" => Len(l.vals) >= 2, BlockHeader(l)
    PROVE  NetstatInv'
<1> DEFINE u == Append(Text, l)
           n == Len(Text)
           ts == IF l.vals = <<>> THEN c.ts ELSE l.vals[1]
           has == c.haveTs \/ l.vals # <<>>
           ns == IF l.name = "netstat_detail" THEN ts ELSE c.nsTs
           x == Collector(c.plane)
<1>1. l.is = "hdr" /\ Read(l) /\ Emit(Flushed)
  BY DEF BlockHeader
<1>2. c' = [x EXCEPT !.ts = ts, !.haveTs = has, !.block = l.name, !.nsTs = ns, !.rowIdx = c.rowIdx,
                     !.taskCols = c.taskCols, !.rxtxCols = c.rxtxCols,
                     !.fabricUnsupported = c.fabricUnsupported]
  BY DEF BlockHeader
<1>3. Longer(u, Text, l, n) /\ Framed(c, Text, n+1)
  BY <1>1, ReadNow DEF LogsInv
<1>4. DOMAIN x = CollectorFields /\ x.nsAcc = <<>>
  BY FieldsAre DEF Collector
<1> HIDE DEF x, has, ns
<1>5. {"nsAcc", "nsTs", "haveTs", "block"} \subseteq CollectorFields
  BY DEF CollectorFields, Collector
<1>6. /\ c'.haveTs = has /\ c'.block = l.name /\ c'.nsAcc = <<>> /\ c'.nsTs = ns
  <2> HIDE DEF ts
  <2> QED BY <1>2, <1>4, <1>5
<1>7. DOMAIN c'.nsAcc = {}
  BY <1>6
<1>8. l.name = "netstat_detail" => ns = ts
  BY DEF ns
<1>9. ts = (IF l.vals = <<>> THEN c.ts ELSE l.vals[1])
  OBVIOUS
<1> HIDE DEF u, n, ts
<1>10. Adding(c', u, n+2)
  BY <1>1, <1>3, <1>6, <1>7, <1>8, <1>9, AddingHeader DEF has
<1> QED BY <1>1, <1>10, ReadSums DEF u, n

LEMMA SampleFamily ==
    ASSUME NEW ts, NEW fam, NEW key, NEW id, NEW col, NEW v
    PROVE  SampleAt(ts, fam, key, id, col, v).fam = fam
BY DEF SampleAt

LEMMA RowFamily ==
    ASSUME NEW fam, fam # "netstat_detail", NEW key, NEW id, NEW vals, NEW cols
    PROVE  \A s \in Row(fam, key, id, vals, cols) : s.fam # "netstat_detail"
BY RowIs DEF Plain

\* The fields that a reader of another block leaves alone.
Spares(x, y) == y.block = x.block /\ y.nsAcc = x.nsAcc

LEMMA ReaderElsewhere ==
    ASSUME LogsInv, NEW l \in Line, NEW block \in Dedicated, block # "netstat_detail", In(block, l),
           Spares(c, c'), NEW S, Emit(S), \A s \in S : s.fam # "netstat_detail"
    PROVE  Elsewhere(l)
<1>1. Read(l) /\ l.is # "hdr" /\ c.block = block
  BY ReaderReads
<1> QED BY <1>1, EmitsNoSums DEF Elsewhere, Spares

LEMMA SectionsElsewhere ==
    ASSUME LogsInv, NEW l \in Line, InSections(l),
           Spares(c, c'), NEW S, Emit(S), \A s \in S : s.fam # "netstat_detail"
    PROVE  Elsewhere(l)
<1>1. Read(l) /\ l.is # "hdr" /\ c.block # "netstat_detail"
  BY DEF InSections, Dedicated
<1> QED BY <1>1, EmitsNoSums DEF Elsewhere, Spares

LEMMA KnownFields ==
    ASSUME LogsInv, open
    PROVE  DOMAIN c = CollectorFields /\ "block" \in CollectorFields /\ "nsAcc" \in CollectorFields
BY DEF LogsInv, CollectorInv, Collected, Framed, CollectorFields, Collector

LEMMA CpuElsewhere ==
    ASSUME LogsInv, NEW l \in Line, CpuBlockLine(l)
    PROVE  Elsewhere(l)
<1>1. In("cpu", l) /\ open
  BY DEF CpuBlockLine, In, Read
<1>2. "cpu" \in Dedicated
  BY DEF Dedicated
<1>3. /\ DOMAIN c = CollectorFields /\ "block" \in CollectorFields /\ "nsAcc" \in CollectorFields
  BY <1>1, KnownFields
<1>4. CASE l.is = "loadAvg"
  <2>1. c' = [c EXCEPT !.loadAvgNext = TRUE] /\ Emit({})
    BY <1>4 DEF CpuBlockLine
  <2>2. Spares(c, c')
    BY <1>3, <2>1 DEF Spares
  <2> QED BY <1>1, <1>2, <2>1, <2>2, ReaderElsewhere
<1>5. CASE l.is # "loadAvg" /\ c.loadAvgNext
  <2> DEFINE cols == IF Len(l.vals) >= 6 THEN 6 ELSE 3
             S == IF l.is = "bare" /\ Len(l.vals) >= 3
                  THEN Row("cpu_load_avg", "", 0, l.vals, cols) ELSE {}
  <2>1. c' = [c EXCEPT !.loadAvgNext = FALSE] /\ Emit(S)
    BY <1>5 DEF CpuBlockLine
  <2> HIDE DEF cols
  <2>2. \A s \in S : s.fam # "netstat_detail"
    BY RowFamily
  <2> HIDE DEF S
  <2>3. Spares(c, c')
    BY <1>3, <2>1 DEF Spares
  <2> QED BY <1>1, <1>2, <2>1, <2>2, <2>3, ReaderElsewhere
<1>6. CASE l.is # "loadAvg" /\ ~c.loadAvgNext
  <2> DEFINE first == ~c.cpuDone /\ l.is = "bare" /\ Len(l.vals) = 2
             S == IF first THEN Row("cpu", "last_3m", 0, l.vals, 2) ELSE {}
             v == c.cpuDone \/ first
  <2>1. c' = [c EXCEPT !.cpuDone = v] /\ Emit(S)
    BY <1>6 DEF CpuBlockLine
  <2> HIDE DEF first
  <2>2. \A s \in S : s.fam # "netstat_detail"
    BY RowFamily
  <2> HIDE DEF S, v
  <2>3. Spares(c, c')
    BY <1>3, <2>1 DEF Spares
  <2> QED BY <1>1, <1>2, <2>1, <2>2, <2>3, ReaderElsewhere
<1> QED BY <1>4, <1>5, <1>6

LEMMA IfconfigElsewhere ==
    ASSUME LogsInv, NEW l \in Line, IfconfigLine(l)
    PROVE  Elsewhere(l)
<1> DEFINE values == l.is = "bare" /\ c.rxtxDir # ""
           S == IF values /\ Len(l.vals) = c.rxtxCols
                THEN {Sample("ifconfig", <<c.curIface, c.rxtxDir>>, 0, j, l.vals[j]) : j \in DOMAIN l.vals}
                ELSE {}
<1>1. In("ifconfig", l) /\ open /\ Emit(S)
  BY DEF IfconfigLine, In, Read
<1>2. "ifconfig" \in Dedicated
  BY DEF Dedicated
<1>3. /\ DOMAIN c = CollectorFields /\ "block" \in CollectorFields /\ "nsAcc" \in CollectorFields
  BY <1>1, KnownFields
<1>4. \/ c' = [c EXCEPT !.curIface = l.name, !.rxtxDir = ""]
      \/ c' = [c EXCEPT !.rxtxDir = l.name, !.rxtxCols = l.vals[1]]
      \/ c' = [c EXCEPT !.rxtxDir = ""]
      \/ c' = c
  BY DEF IfconfigLine
<1>5. Spares(c, c')
  BY <1>3, <1>4 DEF Spares
<1>6. \A s \in S : s.fam # "netstat_detail"
  <2>1. \A s \in S : \E j, v : s = Sample("ifconfig", <<c.curIface, c.rxtxDir>>, 0, j, v)
    OBVIOUS
  <2> HIDE DEF S
  <2> QED BY <2>1 DEF Sample, SampleAt
<1> HIDE DEF S
<1> QED BY <1>1, <1>2, <1>5, <1>6, ReaderElsewhere

LEMMA LogrcvrElsewhere ==
    ASSUME LogsInv, NEW l \in Line, LogrcvrLine(l)
    PROVE  Elsewhere(l)
<1> DEFINE counts == ~c.lrDone /\ l.is = "label" /\ l.name # "traffic_logs_written"
           S == IF counts THEN Row("logreceiver_statistics", l.name, 0, l.vals, 1) ELSE {}
           done == c.lrDone \/ (counts /\ l.name = "total_mb")
<1>1. In("logrcvr_statistics", l) /\ open /\ Emit(S) /\ c' = [c EXCEPT !.lrDone = done]
  BY DEF LogrcvrLine, In, Read
<1>2. "logrcvr_statistics" \in Dedicated
  BY DEF Dedicated
<1>3. \A s \in S : s.fam # "netstat_detail"
  BY RowFamily
<1> HIDE DEF S, done
<1>4. Spares(c, c')
  BY <1>1, KnownFields DEF Spares
<1> QED BY <1>1, <1>2, <1>3, <1>4, ReaderElsewhere

LEMMA StatsElsewhere ==
    ASSUME LogsInv, NEW l \in Line, NetstatStatsLine(l)
    PROVE  Elsewhere(l)
<1> DEFINE S == IF l.is = "label" /\ c.nsSection # ""
                THEN {Sample("nsstats", <<c.nsSection, l.name>>, 0, 1, l.vals[1])} ELSE {}
<1>1. In("netstat_stats", l) /\ open /\ Emit(S)
  BY DEF NetstatStatsLine, In, Read
<1>2. c' = c \/ c' = [c EXCEPT !.nsSection = l.name]
  BY DEF NetstatStatsLine
<1>3. "netstat_stats" \in Dedicated
  BY DEF Dedicated
<1>4. \A s \in S : s.fam # "netstat_detail"
  <2> DEFINE v == l.vals[1]
  <2>1. \A s \in S : s = Sample("nsstats", <<c.nsSection, l.name>>, 0, 1, v)
    OBVIOUS
  <2> HIDE DEF S, v
  <2> QED BY <2>1 DEF Sample, SampleAt
<1> HIDE DEF S
<1>5. Spares(c, c')
  BY <1>1, <1>2, KnownFields DEF Spares
<1> QED BY <1>1, <1>3, <1>4, <1>5, ReaderElsewhere

LEMMA AppsElsewhere ==
    ASSUME LogsInv, NEW l \in Line, AppStatsLine(l)
    PROVE  Elsewhere(l)
<1> DEFINE vsys == IF c.appVsys = 0 THEN 1 ELSE c.appVsys
           S == IF l.is = "appRow" /\ Len(l.vals) = 5
                THEN Row("appstats", l.name, vsys, l.vals, 5) ELSE {}
<1>1. In("panio_infreq", l) /\ open /\ Emit(S)
  BY DEF AppStatsLine, In, Read
<1>2. c' = c \/ c' = [c EXCEPT !.appVsys = l.vals[1]]
  BY DEF AppStatsLine
<1>3. "panio_infreq" \in Dedicated
  BY DEF Dedicated
<1> HIDE DEF vsys
<1>4. \A s \in S : s.fam # "netstat_detail"
  BY RowFamily
<1> HIDE DEF S
<1>5. Spares(c, c')
  BY <1>1, <1>2, KnownFields DEF Spares
<1> QED BY <1>1, <1>3, <1>4, <1>5, ReaderElsewhere

LEMMA ObjectsElsewhere ==
    ASSUME LogsInv, NEW l \in Line, CpStatsLine(l)
    PROVE  Elsewhere(l)
<1> DEFINE key == Append(Tail(c.cpsPath), l.name)
           S == IF l.is = "leaf" /\ c.cpsPath # <<>>
                THEN {Sample("cpstats", key, 0, 1, l.vals[1])} ELSE {}
<1>1. In("cp_stats", l) /\ open /\ Emit(S)
  BY DEF CpStatsLine, In, Read
<1>2. \/ c' = c
      \/ c' = [c EXCEPT !.cpsPath = Append(@, l.name)]
      \/ c' = [c EXCEPT !.cpsPath = SubSeq(@, 1, Len(@) - 1)]
  BY DEF CpStatsLine
<1>3. "cp_stats" \in Dedicated
  BY DEF Dedicated
<1> HIDE DEF key
<1>4. \A s \in S : s.fam # "netstat_detail"
  BY SampleFamily DEF Sample
<1> HIDE DEF S
<1>5. Spares(c, c')
  BY <1>1, <1>2, KnownFields DEF Spares
<1> QED BY <1>1, <1>3, <1>4, <1>5, ReaderElsewhere

LEMMA FabricElsewhere ==
    ASSUME LogsInv, NEW l \in Line, FabricLine(l)
    PROVE  Elsewhere(l)
<1> DEFINE v == c.fabricUnsupported \/ l.is = "text"
<1>1. In("fabric_traffic_stats", l) /\ open /\ Emit({}) /\ c' = [c EXCEPT !.fabricUnsupported = v]
  BY DEF FabricLine, In, Read
<1>2. "fabric_traffic_stats" \in Dedicated
  BY DEF Dedicated
<1> HIDE DEF v
<1>3. Spares(c, c')
  BY <1>1, KnownFields DEF Spares
<1> QED BY <1>1, <1>2, <1>3, ReaderElsewhere

LEMMA TablesElsewhere ==
    ASSUME LogsInv, NEW l \in Line, TablesLine(l)
    PROVE  Elsewhere(l)
<1>1. PICK block \in Tables : In(block, l) /\ Emit(TableLine(block, l)) /\ UNCHANGED c
  BY DEF TablesLine
<1>2. block \in Dedicated /\ block # "netstat_detail"
  BY DEF Dedicated, Tables
<1>3. \A s \in TableLine(block, l) : s.fam # "netstat_detail"
  BY TableLineIs DEF Plain, PlainFamilies
<1>4. Spares(c, c')
  BY <1>1 DEF Spares
<1> QED BY <1>1, <1>2, <1>3, <1>4, ReaderElsewhere

LEMMA SectionElsewhere ==
    ASSUME LogsInv, NEW l \in Line, SectionLine(l)
    PROVE  Elsewhere(l)
<1> DEFINE S == IF l.is = "siStart" THEN SiLine(l) ELSE {}
<1>1. InSections(l) /\ open /\ Emit(S)
  BY DEF SectionLine, InSections, Read
<1> DEFINE a == SectionOf[l.is]
           b == IF l.is = "cpu15mSec" THEN <<>> ELSE c.coreIDs
           d == IF l.is = "cpu15mSec" THEN 0 ELSE c.rowIdx
           e == IF l.is = "perTaskSec" THEN <<>> ELSE c.taskCols
           f == IF l.is = "procusdHdr" THEN l.name ELSE c.detName
           g == IF l.is = "ruSec" THEN "" ELSE c.ruLabel
           h == IF l.is = "vmpowStart" THEN 0 ELSE c.powThread
<1>2. c' = [c EXCEPT !.mode = a, !.coreIDs = b, !.rowIdx = d, !.taskCols = e, !.detName = f,
                     !.ruLabel = g, !.powThread = h]
  BY DEF SectionLine
<1> HIDE DEF a, b, d, e, f, g, h
<1>3. Spares(c, c')
  BY <1>1, <1>2, KnownFields DEF Spares
<1>4. \A s \in S : s.fam # "netstat_detail"
  BY SiLineIs DEF Plain
<1> HIDE DEF S
<1> QED BY <1>1, <1>3, <1>4, SectionsElsewhere

LEMMA GaugeElsewhere ==
    ASSUME LogsInv, NEW l \in Line, GcElapsed(l)
    PROVE  Elsewhere(l)
<1>1. InSections(l) /\ open /\ Emit({})
  BY DEF GcElapsed, InMode, InSections, Read
<1>2. c' = c \/ \E v : c' = [c EXCEPT !.mode = v]
  BY DEF GcElapsed
<1>3. Spares(c, c')
  BY <1>1, <1>2, KnownFields DEF Spares
<1> QED BY <1>1, <1>3, SectionsElsewhere

LEMMA CoresElsewhere ==
    ASSUME LogsInv, NEW l \in Line, Cpu15m(l)
    PROVE  Elsewhere(l)
<1> DEFINE fits == l.is = "nums" /\ c.coreIDs # <<>> /\ Len(l.vals) = 2 * Len(c.coreIDs)
           back == c.ts - c.rowIdx
           v(j, a) == l.vals[2 * j - 2 + a]
           S == IF fits
                THEN {SampleAt(back, "cpu", <<"core">>, c.coreIDs[j], a, v(j, a)) :
                         j \in DOMAIN c.coreIDs, a \in {1, 2}}
                ELSE {}
<1>1. InSections(l) /\ open /\ Emit(S)
  BY DEF Cpu15m, InMode, InSections, Read
<1>2. \/ c' = c
      \/ c' = [c EXCEPT !.coreIDs = l.vals, !.rowIdx = 0]
      \/ \E x : c' = [c EXCEPT !.rowIdx = x]
  BY DEF Cpu15m
<1>3. Spares(c, c')
  <2>1. /\ DOMAIN c = CollectorFields /\ "block" \in CollectorFields /\ "nsAcc" \in CollectorFields
    BY <1>1, KnownFields
  <2>2. ASSUME NEW x, c' = [c EXCEPT !.rowIdx = x]
        PROVE  Spares(c, c')
    BY <2>1, <2>2 DEF Spares
  <2>3. c' = [c EXCEPT !.coreIDs = l.vals, !.rowIdx = 0] => Spares(c, c')
    BY <2>1 DEF Spares
  <2>4. c' = c => Spares(c, c')
    BY DEF Spares
  <2> QED BY <1>2, <2>2, <2>3, <2>4
<1> HIDE DEF back, v
<1>4. \A s \in S : s.fam # "netstat_detail"
  BY SampleFamily
<1> HIDE DEF S
<1> QED BY <1>1, <1>3, <1>4, SectionsElsewhere

LEMMA TasksElsewhere ==
    ASSUME LogsInv, NEW l \in Line, PerTask(l)
    PROVE  Elsewhere(l)
<1> DEFINE fits == l.is = "row" /\ c.taskCols # <<>> /\ Len(l.vals) = Len(c.taskCols) + 1
           S == IF fits
                THEN {Sample("pertask", <<l.name>>, c.taskCols[j], 1, l.vals[j]) : j \in DOMAIN c.taskCols}
                ELSE {}
<1>1. InSections(l) /\ open /\ Emit(S)
  BY DEF PerTask, InMode, InSections, Read
<1>2. c' = c \/ c' = [c EXCEPT !.taskCols = l.vals]
  BY DEF PerTask
<1>3. Spares(c, c')
  BY <1>1, <1>2, KnownFields DEF Spares
<1>4. \A s \in S : s.fam # "netstat_detail"
  BY SampleFamily DEF Sample
<1> HIDE DEF S
<1> QED BY <1>1, <1>3, <1>4, SectionsElsewhere

LEMMA UsageElsewhere ==
    ASSUME LogsInv, NEW l \in Line, RuLine(l)
    PROVE  Elsewhere(l)
<1> DEFINE values == c.ruLabel # "" /\ l.is = "nums"
           back(j) == c.ts - (j - 1)
           S == IF values
                THEN {SampleAt(back(j), "ru", <<c.ruLabel>>, 0, 1, l.vals[j]) : j \in DOMAIN l.vals}
                ELSE {}
<1>1. InSections(l) /\ open /\ Emit(S)
  BY DEF RuLine, InMode, InSections, Read
<1>2. c' = c \/ c' = [c EXCEPT !.ruLabel = l.name] \/ c' = [c EXCEPT !.ruLabel = ""]
  BY DEF RuLine
<1>3. Spares(c, c')
  BY <1>1, <1>2, KnownFields DEF Spares
<1>4. \A s \in S : s.fam # "netstat_detail"
  <2>1. \A s \in S : \E ts, v : s = SampleAt(ts, "ru", <<c.ruLabel>>, 0, 1, v)
    OBVIOUS
  <2> HIDE DEF S
  <2> QED BY <2>1 DEF SampleAt
<1> HIDE DEF S
<1> QED BY <1>1, <1>3, <1>4, SectionsElsewhere

LEMMA ThreadElsewhere ==
    ASSUME LogsInv, NEW l \in Line, VmpowLine(l)
    PROVE  Elsewhere(l)
<1> DEFINE thread == IF l.is = "thread" THEN l.vals[1] ELSE c.powThread
           S == CASE l.is = "thread" /\ l.name # "" -> {Sample("vmpow", <<l.name>>, thread, 1, l.vals[2])}
                  [] l.is = "ioWqe" -> Row("vmpow", "io_wqe", thread, l.vals, 2)
                  [] l.is \in {"inflight", "usedWqe", "rcvThresh"} -> Row("vmpow", l.is, 0, l.vals, 3)
                  [] OTHER -> {}
<1>1. InSections(l) /\ open /\ Emit(S) /\ c' = [c EXCEPT !.powThread = thread]
  BY DEF VmpowLine, InMode, InSections, Read
<1> HIDE DEF thread
<1>2. Spares(c, c')
  BY <1>1, KnownFields DEF Spares
<1>3. \A s \in S : s.fam # "netstat_detail"
  <2> DEFINE v == l.vals[2]
  <2>1. ASSUME NEW s \in S
        PROVE  \/ s = Sample("vmpow", <<l.name>>, thread, 1, v)
               \/ s \in Row("vmpow", "io_wqe", thread, l.vals, 2)
               \/ s \in Row("vmpow", l.is, 0, l.vals, 3)
    BY <2>1
  <2> HIDE DEF S, v
  <2>2. Sample("vmpow", <<l.name>>, thread, 1, v).fam # "netstat_detail"
    BY DEF Sample, SampleAt
  <2>3. "vmpow" # "netstat_detail"
    OBVIOUS
  <2>4. /\ \A s \in Row("vmpow", "io_wqe", thread, l.vals, 2) : s.fam # "netstat_detail"
        /\ \A s \in Row("vmpow", l.is, 0, l.vals, 3) : s.fam # "netstat_detail"
    BY <2>3, RowFamily
  <2> QED BY <2>1, <2>2, <2>4
<1> HIDE DEF S
<1> QED BY <1>1, <1>2, <1>3, SectionsElsewhere

LEMMA RowElsewhere ==
    ASSUME LogsInv, NEW l \in Line, RowLine(l)
    PROVE  Elsewhere(l)
<1>1. PICK mode \in RowModes : InMode(mode, l) /\ Emit(SectionRow(mode, l)) /\ UNCHANGED c
  BY DEF RowLine
<1>2. InSections(l)
  BY <1>1 DEF InMode
<1>3. Spares(c, c')
  BY <1>1 DEF Spares
<1>4. \A s \in SectionRow(mode, l) : s.fam # "netstat_detail"
  BY SectionRowIs DEF Plain, RowFamilies
<1> QED BY <1>1, <1>2, <1>3, <1>4, SectionsElsewhere

LEMMA LineSums ==
    ASSUME LogsInv, NetstatInv, NEW l \in Line, l.is = "sock" => Len(l.vals) >= 2,
           BlockHeader(l) \/ BlockLine(l) \/ SectionsLine(l)
    PROVE  NetstatInv'
<1>1. CASE BlockHeader(l)
  BY <1>1, BlockHeaderSums
<1>2. CASE NetstatLine(l)
  BY <1>2, NetstatLineSums
<1>3. CASE BlockLine(l) /\ ~NetstatLine(l)
  <2>1. Elsewhere(l)
    BY <1>3, CpuElsewhere, IfconfigElsewhere, LogrcvrElsewhere, StatsElsewhere, AppsElsewhere,
       ObjectsElsewhere, FabricElsewhere, TablesElsewhere DEF BlockLine
  <2> QED BY <2>1, ElsewhereKeeps
<1>4. CASE SectionsLine(l)
  <2>1. Elsewhere(l)
    BY <1>4, SectionElsewhere, GaugeElsewhere, CoresElsewhere, TasksElsewhere, UsageElsewhere,
       ThreadElsewhere, RowElsewhere DEF SectionsLine
  <2> QED BY <2>1, ElsewhereKeeps
<1> QED BY <1>1, <1>2, <1>3, <1>4

----------------------------------------------------------------------------
(* The members of the archive.                                             *)

\* A log that is opened has no text and no sums yet.
LEMMA NoBlocksYet ==
    ASSUME NEW S, NEW i, \A s \in S : s.at[1] # i, NEW closed
    PROVE  Summed(S, i, <<>>, closed)
<1>1. \A h, e : ~IsBlock(<<>>, h, e, closed)
  BY DEF IsBlock
<1> QED BY <1>1 DEF Summed

LEMMA OpenLogSums ==
    ASSUME LogsInv, NetstatInv, OpenLog
    PROVE  NetstatInv'
<1> DEFINE N == Len(logs)
           path == Archive[member + 1]
           r == [path |-> path, text |-> <<>>]
<1>1. ~open /\ logs' = Append(logs, r) /\ c' = Collector(PlaneOf(path)) /\ open' = TRUE /\ out' = out
  BY DEF OpenLog, Visiting
<1>2. logs \in Seq(Log) /\ N \in Nat
  BY DEF LogsInv, CounterTypes
<1>3. r.text = <<>>
  OBVIOUS
<1> HIDE DEF r, path
<1>4. Len(logs') = N + 1 /\ logs'[N+1] = r /\ \A n \in 1..N : logs'[n] = logs[n]
  BY <1>1, <1>2
<1>5. \A s \in out : s.at[1] \in 1..N
  <2> SUFFICES ASSUME NEW s \in out
               PROVE  s.at[1] \in 1..N
    OBVIOUS
  <2>1. PICK n \in 1..N : \E k \in 1..Len(logs[n].text) + 1 : s.at = <<n, k>>
    BY DEF LogsInv, SamplesInv
  <2> QED BY <2>1
<1> HIDE DEF N
<1>6. \A n \in 1..N+1 : n \in 1..N \/ n = N+1
  BY <1>2
<1>7. SocksInv'
  <2>1. Socks(<<>>)
    BY DEF Socks
  <2> QED BY <1>3, <1>4, <1>6, <2>1 DEF NetstatInv, SocksInv, N
<1>8. AddingInv'
  <2>1. c'.block = "" /\ c'.nsAcc = <<>>
    BY <1>1, FieldsAre DEF Collector
  <2>2. DOMAIN c'.nsAcc = {}
    <3>1. DOMAIN <<>> = {}
      OBVIOUS
    <3> QED BY <2>1, <3>1
  <2>3. Adding(c', <<>>, 1)
    BY <2>1, <2>2 DEF Adding
  <2>4. logs'[Len(logs')].text = <<>> /\ Len(<<>>) + 1 = 1
    BY <1>3, <1>4
  <2> QED BY <2>3, <2>4 DEF AddingInv
<1>9. ASSUME NEW n \in 1..N+1
      PROVE  Summed(out', n, logs'[n].text, n < N+1 \/ ~open')
  <2>1. CASE n \in 1..N
    <3>1. Summed(out, n, logs[n].text, n < N \/ ~open)
      BY <2>1 DEF NetstatInv, SummedInv, N
    <3>2. (n < N \/ ~open) = TRUE /\ (n < N+1 \/ ~open') = TRUE
      BY <1>1, <1>2, <2>1
    <3> QED BY <1>1, <1>4, <2>1, <3>1, <3>2
  <2>2. CASE n = N+1
    <3>1. \A s \in out' : s.at[1] # n
      BY <1>1, <1>2, <1>5, <2>2
    <3>2. logs'[n].text = <<>>
      BY <1>3, <1>4, <2>2
    <3> QED BY <3>1, <3>2, NoBlocksYet
  <2> QED BY <1>6, <2>1, <2>2
<1>10. SummedInv'
  BY <1>4, <1>9 DEF SummedInv
<1> QED BY <1>7, <1>8, <1>10 DEF NetstatInv

LEMMA CloseLogSums ==
    ASSUME LogsInv, NetstatInv, CloseLog
    PROVE  NetstatInv'
<1> DEFINE N == Len(logs)
<1>1. open /\ open' = FALSE /\ Emit(Flushed) /\ logs' = logs
  BY DEF CloseLog
<1>2. /\ N \in Nat \ {0} /\ N \in 1..N /\ logs[N].text = Text /\ Text \in Seq(Line)
      /\ Here = <<N, Len(Text) + 1>>
  <2>1. logs \in Seq(Log) /\ logs # <<>>
    BY <1>1 DEF LogsInv, CounterTypes
  <2>2. N \in Nat \ {0} /\ N \in 1..N
    BY <2>1
  <2>3. logs[N] \in Log
    BY <2>1, <2>2, ElementOfSeq
  <2> QED BY <2>2, <2>3 DEF Log, Text, Here
<1>3. Framed(c, Text, Len(Text) + 1) /\ Adding(c, Text, Len(Text) + 1)
  BY <1>1 DEF LogsInv, CollectorInv, Collected, NetstatInv, AddingInv, Text
<1> HIDE DEF N
<1>4. Summed(out, N, Text, FALSE)
  <2>1. Summed(out, N, logs[N].text, N < N \/ ~open)
    BY <1>2 DEF NetstatInv, SummedInv, N
  <2>2. (N < N \/ ~open) = FALSE
    BY <1>1, <1>2
  <2> QED BY <1>2, <2>1, <2>2
<1>5. Summed(out', N, Text, TRUE)
  BY <1>1, <1>2, <1>3, <1>4, Flushes
<1>6. out \subseteq out' /\ \A s \in out' : s \in out \/ s.at[1] = N
  <2>1. out \subseteq out' /\ \A s \in out' : s \in out \/ s \in Flushed
    BY <1>1 DEF Emit
  <2>2. \A s \in Flushed : s.at[1] = N
    BY <1>2, FlushedIs
  <2> QED BY <2>1, <2>2
<1>7. ASSUME NEW i \in 1..N
      PROVE  Summed(out', i, logs[i].text, i < N \/ ~open')
  <2>1. (i < N \/ ~open') = TRUE
    BY <1>1
  <2>2. CASE i = N
    BY <1>2, <1>5, <2>1, <2>2
  <2>3. CASE i # N
    <3>1. Summed(out, i, logs[i].text, i < N \/ ~open)
      BY DEF NetstatInv, SummedInv, N
    <3>2. (i < N \/ ~open) = TRUE
      BY <1>2, <2>3
    <3>3. \A s \in out' : s \in out \/ s.fam # "netstat_detail" \/ s.at[1] # i
      BY <1>6, <2>3
    <3> QED BY <1>6, <2>1, <3>1, <3>2, <3>3, SummedMore
  <2> QED BY <2>2, <2>3
<1>8. SummedInv'
  BY <1>1, <1>7 DEF SummedInv, N
<1> QED BY <1>1, <1>8 DEF NetstatInv, SocksInv, AddingInv

LEMMA NetstatInvHolds == CountersSpec => []NetstatInv
<1>1. CountersInit => NetstatInv
  <2> SUFFICES ASSUME CountersInit
               PROVE  NetstatInv
    OBVIOUS
  <2>1. logs = <<>> /\ open = FALSE
    BY DEF CountersInit
  <2> QED BY <2>1 DEF NetstatInv, SocksInv, AddingInv, SummedInv
<1>2. LogsInv /\ NetstatInv /\ [CountersNext]_counterVars => NetstatInv'
  <2> SUFFICES ASSUME LogsInv, NetstatInv, [CountersNext]_counterVars
               PROVE  NetstatInv'
    OBVIOUS
  <2>1. CASE SkipMember
    BY <2>1 DEF SkipMember, NetstatInv, SocksInv, AddingInv, SummedInv
  <2>2. CASE OpenLog
    BY <2>2, OpenLogSums
  <2>3. CASE CloseLog
    BY <2>3, CloseLogSums
  <2>4. ASSUME NEW l \in Readable, BlockHeader(l) \/ BlockLine(l) \/ SectionsLine(l)
        PROVE  NetstatInv'
    <3>1. l \in Line /\ (l.is = "sock" => Len(l.vals) >= 2)
      BY CountersAssumption DEF Readable
    <3> QED BY <2>4, <3>1, LineSums
  <2>5. CASE UNCHANGED counterVars
    BY <2>5 DEF counterVars, NetstatInv, SocksInv, AddingInv, SummedInv
  <2> QED BY <2>1, <2>2, <2>3, <2>4, <2>5 DEF CountersNext
<1> QED BY <1>1, <1>2, LogsInvHolds, PTL DEF CountersSpec

\* The queues of the sockets of one protocol and program are added up and come out
\* exactly once, at the end of their block and with its time, whether a header or
\* the end of the log ends it.
THEOREM SumsAreFlushedOnce == CountersSpec => []NetstatFlushed
<1>1. LogsInv /\ NetstatInv => NetstatFlushed
  <2> SUFFICES ASSUME LogsInv, NetstatInv, NEW n \in DOMAIN logs
               PROVE  {Given(s) : s \in {x \in out : x.fam = "netstat_detail" /\ x.at[1] = n}}
                         = UNION {SumsOf(logs[n].text, b[1], b[2]) :
                                     b \in NetstatBlocks(logs[n].text, n < Len(logs) \/ ~open)}
    BY DEF NetstatFlushed
  <2> DEFINE t == logs[n].text
             closed == n < Len(logs) \/ ~open
             L == {Given(s) : s \in {x \in out : x.fam = "netstat_detail" /\ x.at[1] = n}}
             B == NetstatBlocks(t, closed)
             R == UNION {SumsOf(t, b[1], b[2]) : b \in B}
  <2>1. Summed(out, n, t, closed)
    <3>1. n \in 1..Len(logs)
      BY DEF LogsInv, CounterTypes
    <3> QED BY <3>1 DEF NetstatInv, SummedInv
  <2>2. \A h, e : IsBlock(t, h, e, closed) <=> <<h, e>> \in B
    BY DEF IsBlock, NetstatBlocks
  <2>3. \A b \in B : b = <<b[1], b[2]>>
    BY DEF NetstatBlocks
  <2> HIDE DEF closed, t, B
  <2>4. ASSUME NEW r \in L
        PROVE  r \in R
    <3>1. PICK s \in out : s.fam = "netstat_detail" /\ s.at[1] = n /\ r = Given(s)
      OBVIOUS
    <3>2. PICK h, e : IsBlock(t, h, e, closed) /\ r \in SumsOf(t, h, e)
      BY <2>1, <3>1 DEF Summed
    <3> DEFINE b == <<h, e>>
    <3>3. b \in B /\ b[1] = h /\ b[2] = e
      BY <2>2, <3>2
    <3> HIDE DEF b
    <3> QED BY <3>2, <3>3
  <2>5. ASSUME NEW r \in R
        PROVE  r \in L
    <3>1. PICK b \in B : r \in SumsOf(t, b[1], b[2])
      OBVIOUS
    <3>2. IsBlock(t, b[1], b[2], closed)
      BY <2>2, <2>3
    <3>3. PICK s \in out : s.fam = "netstat_detail" /\ s.at[1] = n /\ Given(s) = r
      BY <2>1, <3>1, <3>2 DEF Summed
    <3> QED BY <3>3
  <2> HIDE DEF L, R
  <2>6. L = R
    BY <2>4, <2>5
  <2> QED BY <2>6 DEF L, R, B, t, closed
<1> QED BY <1>1, LogsInvHolds, NetstatInvHolds, PTL

----------------------------------------------------------------------------
(* The logs, and the incidents in them.                                    *)

\* The lines of the killer, and those of each kind.
KillerLines == OOMLines({"invoked", "killed"})
Invocations == OOMLines({"invoked"})
Kills == OOMLines({"killed"})

\* The files, and the lines of each.
LEMMA FilesAre ==
    ASSUME system \in Systems
    PROVE  /\ system.files \in Seq([scanned : BOOLEAN, lines : Seq(OOMLine)])
           /\ \A f \in DOMAIN system.files :
                 /\ system.files[f] \in [scanned : BOOLEAN, lines : Seq(OOMLine)]
                 /\ system.files[f].lines \in Seq(OOMLine)
                 /\ \A k \in DOMAIN system.files[f].lines : system.files[f].lines[k] \in OOMLine
<1>1. system.files \in Seq([scanned : BOOLEAN, lines : Seq(OOMLine)])
  BY SystemsAssumption
<1> DEFINE File == [scanned : BOOLEAN, lines : Seq(OOMLine)]
<1>a. system.files \in Seq(File)
  BY <1>1
<1> HIDE DEF File
<1>b. \A f \in DOMAIN system.files : system.files[f] \in File
  BY <1>a, ElementOfSeq
<1>2. \A f \in DOMAIN system.files : system.files[f] \in [scanned : BOOLEAN, lines : Seq(OOMLine)]
  BY <1>b DEF File
<1>3. \A f \in DOMAIN system.files : system.files[f].lines \in Seq(OOMLine)
  BY <1>2
<1>4. \A f \in DOMAIN system.files :
         \A k \in DOMAIN system.files[f].lines : system.files[f].lines[k] \in OOMLine
  BY <1>3, ElementOfSeq
<1> QED
  BY <1>1, <1>2, <1>3, <1>4

\* A line of some kind is a place in a file that is scanned.
LEMMA OOMLinesAre ==
    ASSUME system \in Systems, NEW says
    PROVE  /\ \A x \in OOMLines(says) :
                 /\ x = <<x[1], x[2]>> /\ x # <<>>
                 /\ x[1] \in 1..Len(system.files) /\ x[2] \in 1..Len(system.files[x[1]].lines)
                 /\ system.files[x[1]].scanned
                 /\ system.files[x[1]].lines[x[2]].says \in says
           /\ \A f \in 1..Len(system.files) : \A k \in 1..Len(system.files[f].lines) :
                 system.files[f].scanned /\ system.files[f].lines[k].says \in says
                     => <<f, k>> \in OOMLines(says)
<1>1. system.files \in Seq([scanned : BOOLEAN, lines : Seq(OOMLine)])
  BY FilesAre
<1>2. \A f \in DOMAIN system.files : system.files[f].lines \in Seq(OOMLine)
  BY FilesAre
<1>3. DOMAIN system.files = 1..Len(system.files)
  BY <1>1
<1>4. \A f \in DOMAIN system.files : DOMAIN system.files[f].lines = 1..Len(system.files[f].lines)
  BY <1>2
<1>5. ASSUME NEW x \in OOMLines(says)
      PROVE  /\ x = <<x[1], x[2]>> /\ x # <<>>
             /\ x[1] \in 1..Len(system.files) /\ x[2] \in 1..Len(system.files[x[1]].lines)
             /\ system.files[x[1]].scanned
             /\ system.files[x[1]].lines[x[2]].says \in says
  <2>1. PICK f \in DOMAIN system.files : x \in {f} \X DOMAIN system.files[f].lines
    BY <1>5 DEF OOMLines
  <2>2. x = <<x[1], x[2]>> /\ x[1] = f /\ x[2] \in DOMAIN system.files[f].lines
    BY <2>1
  <2>3. x # <<>>
    BY <2>2
  <2>4. system.files[x[1]].scanned /\ system.files[x[1]].lines[x[2]].says \in says
    BY <1>5 DEF OOMLines
  <2> QED
    BY <2>1, <2>2, <2>3, <2>4, <1>3, <1>4
<1>6. ASSUME NEW f \in 1..Len(system.files), NEW k \in 1..Len(system.files[f].lines),
             system.files[f].scanned, system.files[f].lines[k].says \in says
      PROVE  <<f, k>> \in OOMLines(says)
  <2>1. f \in DOMAIN system.files /\ <<f, k>> \in {f} \X DOMAIN system.files[f].lines
    BY <1>3, <1>4
  <2>2. <<f, k>> \in UNION {{g} \X DOMAIN system.files[g].lines : g \in DOMAIN system.files}
    BY <2>1
  <2> QED
    BY <2>2, <1>6 DEF OOMLines
<1> QED
  BY <1>5, <1>6

\* A kill answers one invocation, and an invocation has one answer.
LEMMA AnswersAreOne ==
    ASSUME system \in Systems
    PROVE  /\ \A x, y \in Invocations : \A k \in Kills : Answers(x, k) /\ Answers(y, k) => x = y
           /\ \A x \in Invocations : \A k, l \in Kills : Answers(x, k) /\ Answers(x, l) => k = l
<1>1. Invocations \subseteq KillerLines /\ Kills \subseteq KillerLines
  BY DEF Invocations, Kills, KillerLines, OOMLines
<1>2. \A x \in KillerLines : x = <<x[1], x[2]>> /\ x[2] \in Nat
  BY OOMLinesAre, FilesAre DEF KillerLines
<1>3. \A x, y \in KillerLines : x[1] = y[1] /\ x[2] = y[2] => x = y
  BY <1>2
<1> QED
  BY <1>1, <1>2, <1>3 DEF Answers, KillerLines

\* A kill that answers nothing, and an invocation without an answer.
Lone(k) == \A y \in Invocations : ~Answers(y, k)
Unanswered(y) == \A k \in Kills : ~Answers(y, k)

\* The incidents, each known by the line that opens it.
LEMMA IncidentsAre ==
    ASSUME system \in Systems
    PROVE  /\ \A y \in Invocations : Unanswered(y) => EventOf(y, <<>>) \in Incidents
           /\ \A y \in Invocations : \A k \in Kills :
                 Answers(y, k) => EventOf(y, k) \in Incidents
           /\ \A k \in Kills : Lone(k) => EventOf(<<>>, k) \in Incidents
           /\ \A e \in Incidents :
                 \/ \E y \in Invocations : e = EventOf(y, <<>>) /\ Unanswered(y)
                 \/ \E y \in Invocations : \E k \in Kills : e = EventOf(y, k) /\ Answers(y, k)
                 \/ \E k \in Kills : e = EventOf(<<>>, k) /\ Lone(k)
<1> DEFINE answered == {x \in Invocations \X Kills : Answers(x[1], x[2])}
<1>1. \A y \in Invocations : \A k \in Kills : <<y, k>> \in answered <=> Answers(y, k)
  OBVIOUS
<1>2. Incidents = {EventOf(x[1], x[2]) : x \in answered}
                   \cup {EventOf(x, <<>>) : x \in {y \in Invocations : \A k \in Kills : <<y, k>> \notin answered}}
                   \cup {EventOf(<<>>, k) : k \in {l \in Kills : \A y \in Invocations : <<y, l>> \notin answered}}
  BY DEF Incidents, Invocations, Kills
<1>3. \A x \in answered : x[1] \in Invocations /\ x[2] \in Kills /\ Answers(x[1], x[2])
  OBVIOUS
<1>4. \A y \in Invocations : (\A k \in Kills : <<y, k>> \notin answered) <=> Unanswered(y)
  BY <1>1 DEF Unanswered
<1>5. \A k \in Kills : (\A y \in Invocations : <<y, k>> \notin answered) <=> Lone(k)
  BY <1>1 DEF Lone
<1>a. \A y \in Invocations : \A k \in Kills : <<y, k>>[1] = y /\ <<y, k>>[2] = k
  OBVIOUS
<1> HIDE DEF answered
<1>6. \A y \in Invocations : Unanswered(y) => EventOf(y, <<>>) \in Incidents
  BY <1>2, <1>4
<1>7. ASSUME NEW y \in Invocations, NEW k \in Kills, Answers(y, k)
      PROVE  EventOf(y, k) \in Incidents
  <2>1. <<y, k>> \in answered
    BY <1>1, <1>7
  <2>2. EventOf(<<y, k>>[1], <<y, k>>[2]) \in {EventOf(x[1], x[2]) : x \in answered}
    BY <2>1
  <2> QED
    BY <2>2, <1>2
<1>8. \A k \in Kills : Lone(k) => EventOf(<<>>, k) \in Incidents
  BY <1>2, <1>5
<1>9. ASSUME NEW e \in Incidents
      PROVE  \/ \E y \in Invocations : e = EventOf(y, <<>>) /\ Unanswered(y)
             \/ \E y \in Invocations : \E k \in Kills : e = EventOf(y, k) /\ Answers(y, k)
             \/ \E k \in Kills : e = EventOf(<<>>, k) /\ Lone(k)
  BY <1>2, <1>3, <1>4, <1>5
<1> QED
  BY <1>6, <1>7, <1>8, <1>9

\* An incident is known by the line that opens it.
LEMMA IncidentsByRaw ==
    ASSUME system \in Systems
    PROVE  /\ \A e \in Incidents :
                 \/ e.raw \in Invocations
                 \/ e.raw \in Kills /\ Lone(e.raw)
           /\ \A e, d \in Incidents : e.raw = d.raw => e = d
<1>1. \A x \in Invocations : x # <<>>
  BY OOMLinesAre DEF Invocations
<1>2. \A y \in Invocations : \A k : EventOf(y, k).raw = y
  BY <1>1 DEF EventOf
<1>3. \A k \in Kills : EventOf(<<>>, k).raw = k
  BY DEF EventOf
<1>4. \A y \in Invocations : y \notin Kills
  <2>1. \A y \in Invocations : system.files[y[1]].lines[y[2]].says \in {"invoked"}
    BY OOMLinesAre DEF Invocations
  <2>2. \A y \in Kills : system.files[y[1]].lines[y[2]].says \in {"killed"}
    BY OOMLinesAre DEF Kills
  <2> QED
    BY <2>1, <2>2
<1>5. \A e \in Incidents :
         \/ \E y \in Invocations : e = EventOf(y, <<>>) /\ Unanswered(y)
         \/ \E y \in Invocations : \E k \in Kills : e = EventOf(y, k) /\ Answers(y, k)
         \/ \E k \in Kills : e = EventOf(<<>>, k) /\ Lone(k)
  BY IncidentsAre
<1>6. \A e \in Incidents : e.raw \in Invocations \/ (e.raw \in Kills /\ Lone(e.raw))
  BY <1>2, <1>3, <1>5
<1>7. \A e \in Incidents :
         e.raw \in Invocations =>
             \/ e = EventOf(e.raw, <<>>) /\ Unanswered(e.raw)
             \/ \E k \in Kills : e = EventOf(e.raw, k) /\ Answers(e.raw, k)
  BY <1>2, <1>3, <1>4, <1>5
<1>8. \A e \in Incidents : e.raw \in Kills => e = EventOf(<<>>, e.raw)
  BY <1>2, <1>3, <1>4, <1>5
<1>9. ASSUME NEW e \in Incidents, NEW d \in Incidents, e.raw = d.raw
      PROVE  e = d
  <2>1. CASE e.raw \in Kills
    BY <2>1, <1>8, <1>9
  <2>2. CASE e.raw \in Invocations
    BY <2>2, <1>7, <1>9, AnswersAreOne DEF Unanswered
  <2> QED
    BY <2>1, <2>2, <1>6
<1> QED
  BY <1>6, <1>9

----------------------------------------------------------------------------
(* The walk over the log files.                                            *)

\* The lines of a file before the k-th of file f are read.
Passed(f, l, x) == x[1] < f \/ (x[1] = f /\ x[2] <= l)

\* The invocation that awaits its kill: nothing was read of the killer since.
Awaits(f, l, w) ==
    IF w = <<>>
    THEN \A y \in Invocations :
            y[1] = f /\ y[2] <= l => \E z \in KillerLines : z[1] = f /\ y[2] < z[2] /\ z[2] <= l
    ELSE \E y \in Invocations :
            /\ w = <<EventOf(y, <<>>)>> /\ y[1] = f /\ y[2] <= l
            /\ \A z \in KillerLines : ~(z[1] = f /\ y[2] < z[2] /\ z[2] <= l)

\* Nothing of the killer follows in the file.
AllRead(f, l) == \A z \in KillerLines : z[1] = f => z[2] <= l

\* The invocation that awaits its kill, by its place.
AwaitedBy(w) == IF w = <<>> THEN {} ELSE {w[1].raw}

\* What was found: incidents, each once, and all whose lines were read but the one
\* that awaits its kill.
Found(f, l, w, evs) ==
    /\ evs \in Seq(Incidents)
    /\ \A k \in DOMAIN evs : Passed(f, l, evs[k].raw) /\ evs[k].raw \notin AwaitedBy(w)
    /\ \A j, k \in DOMAIN evs : evs[j].raw = evs[k].raw => j = k
    /\ \A e \in Incidents :
          Passed(f, l, e.raw) => e.raw \in AwaitedBy(w) \/ \E k \in DOMAIN evs : evs[k].raw = e.raw

\* One more incident.
LEMMA FoundAppend ==
    ASSUME NEW S, NEW evs \in Seq(S), NEW e \in S, \A k \in DOMAIN evs : evs[k].raw # e.raw,
           \A j, k \in DOMAIN evs : evs[j].raw = evs[k].raw => j = k
    PROVE  /\ Append(evs, e) \in Seq(S) /\ DOMAIN Append(evs, e) = DOMAIN evs \cup {Len(evs) + 1}
           /\ Append(evs, e)[Len(evs) + 1] = e
           /\ \A k \in DOMAIN evs : Append(evs, e)[k] = evs[k]
           /\ \A j, k \in DOMAIN Append(evs, e) : Append(evs, e)[j].raw = Append(evs, e)[k].raw => j = k
<1>1. /\ Append(evs, e) \in Seq(S) /\ DOMAIN Append(evs, e) = DOMAIN evs \cup {Len(evs) + 1}
      /\ Append(evs, e)[Len(evs) + 1] = e
      /\ \A k \in DOMAIN evs : Append(evs, e)[k] = evs[k]
  OBVIOUS
<1> DEFINE t == Append(evs, e)
<1> HIDE DEF t
<1>2. \A j, k \in DOMAIN t : t[j].raw = t[k].raw => j = k
  BY <1>1 DEF t
<1> QED
  BY <1>1, <1>2 DEF t

\* The line that is read next, among those of a kind.
LEMMA OOMLineAt ==
    ASSUME system \in Systems, NEW f \in 1..Len(system.files), system.files[f].scanned,
           NEW l \in Nat, l < Len(system.files[f].lines), NEW says,
           system.files[f].lines[l + 1].says \in says
    PROVE  <<f, l + 1>> \in OOMLines(says)
<1>1. f \in DOMAIN system.files
  BY FilesAre
<1>2. Len(system.files[f].lines) \in Nat
  BY <1>1, FilesAre
<1>3. l + 1 \in 1..Len(system.files[f].lines)
  BY <1>2
<1> QED
  BY <1>3, OOMLinesAre

\* A line is known by its place, and every incident by one.
LEMMA KillerLinesAre ==
    ASSUME system \in Systems
    PROVE  /\ \A x \in KillerLines : x = <<x[1], x[2]>> /\ x # <<>> /\ x[1] \in Nat /\ x[2] \in Nat
           /\ \A x, y \in KillerLines : x[1] = y[1] /\ x[2] = y[2] => x = y
           /\ Invocations \subseteq KillerLines /\ Kills \subseteq KillerLines
           /\ \A e \in Incidents : e.raw \in KillerLines
<1>1. \A x \in KillerLines : x = <<x[1], x[2]>> /\ x # <<>> /\ x[1] \in Nat /\ x[2] \in Nat
  BY OOMLinesAre, FilesAre DEF KillerLines
<1>2. Invocations \subseteq KillerLines /\ Kills \subseteq KillerLines
  BY DEF Kills, Invocations, KillerLines, OOMLines
<1> QED
  BY <1>1, <1>2, IncidentsByRaw

\* A line more.
LEMMA PassedNext ==
    ASSUME system \in Systems, NEW f \in Nat, NEW l \in Nat
    PROVE  /\ \A x \in KillerLines : Passed(f, l + 1, x) <=> Passed(f, l, x) \/ x = <<f, l + 1>>
           /\ ~Passed(f, l, <<f, l + 1>>)
  BY KillerLinesAre DEF Passed

\* Nothing more is found, or one incident.
LEMMA FoundSame ==
    ASSUME NEW f, NEW l, NEW w, NEW evs, Found(f, l, w, evs), NEW g, NEW m, NEW v,
           \A d \in Incidents :
               /\ Passed(f, l, d.raw) => Passed(g, m, d.raw)
               /\ Passed(g, m, d.raw) => Passed(f, l, d.raw) \/ d.raw \in AwaitedBy(v)
               /\ Passed(f, l, d.raw) /\ d.raw \in AwaitedBy(v) => d.raw \in AwaitedBy(w)
               /\ d.raw \in AwaitedBy(w) => d.raw \in AwaitedBy(v)
    PROVE  Found(g, m, v, evs)
<1>1. evs \in Seq(Incidents) /\ \A k \in DOMAIN evs : evs[k] \in Incidents
  BY ElementOfSeq DEF Found
<1> QED
  BY <1>1 DEF Found

\* One incident more is found, the one that was awaited or is new.
LEMMA FoundMore ==
    ASSUME NEW f, NEW l, NEW w, NEW evs, Found(f, l, w, evs), NEW g, NEW m, NEW v,
           NEW e \in Incidents, e.raw \in AwaitedBy(w) \/ ~Passed(f, l, e.raw),
           AwaitedBy(w) \subseteq {e.raw}, e.raw \notin AwaitedBy(v), Passed(g, m, e.raw),
           \A d \in Incidents :
               /\ Passed(f, l, d.raw) => Passed(g, m, d.raw) /\ d.raw \notin AwaitedBy(v)
               /\ Passed(g, m, d.raw) =>
                     Passed(f, l, d.raw) \/ d.raw = e.raw \/ d.raw \in AwaitedBy(v)
    PROVE  Found(g, m, v, Append(evs, e))
<1>1. evs \in Seq(Incidents) /\ \A k \in DOMAIN evs : evs[k] \in Incidents
  BY ElementOfSeq DEF Found
<1>2. \A k \in DOMAIN evs : evs[k].raw # e.raw /\ Passed(f, l, evs[k].raw)
  BY DEF Found
<1>3. \A j, k \in DOMAIN evs : evs[j].raw = evs[k].raw => j = k
  BY DEF Found
<1> DEFINE t == Append(evs, e)
<1>4. /\ t \in Seq(Incidents) /\ DOMAIN t = DOMAIN evs \cup {Len(evs) + 1}
      /\ t[Len(evs) + 1] = e
      /\ \A k \in DOMAIN evs : t[k] = evs[k]
      /\ \A j, k \in DOMAIN t : t[j].raw = t[k].raw => j = k
  BY <1>1, <1>2, <1>3, FoundAppend
<1> HIDE DEF t
<1>5. \A k \in DOMAIN t : Passed(g, m, t[k].raw) /\ t[k].raw \notin AwaitedBy(v)
  BY <1>1, <1>2, <1>4
<1>6. \A d \in Incidents : Passed(f, l, d.raw) => \E k \in DOMAIN t : t[k].raw = d.raw
  BY <1>4 DEF Found
<1>7. \A d \in Incidents : Passed(g, m, d.raw) =>
         d.raw \in AwaitedBy(v) \/ \E k \in DOMAIN t : t[k].raw = d.raw
  BY <1>4, <1>6
<1>8. Found(g, m, v, t)
  BY <1>4, <1>5, <1>7 DEF Found
<1> QED
  BY <1>8 DEF t

\* What awaits its kill is an incident of its own if no kill is next.
Awaited(f, l, w, y) ==
    /\ w = <<EventOf(y, <<>>)>> /\ y[1] = f /\ y[2] <= l
    /\ \A z \in KillerLines : ~(z[1] = f /\ y[2] < z[2] /\ z[2] <= l)
    /\ EventOf(y, <<>>).raw = y /\ AwaitedBy(w) = {y} /\ Passed(f, l, y)
    /\ <<f, l + 1>> \in Invocations \/ AllRead(f, l) => EventOf(y, <<>>) \in Incidents

\* What awaits its kill is such an invocation.
LEMMA AwaitedIs ==
    ASSUME system \in Systems, NEW f \in Nat, NEW l \in Nat, NEW w, Awaits(f, l, w), w # <<>>
    PROVE  \E y \in Invocations : Awaited(f, l, w, y)
<1>1. PICK y \in Invocations :
          /\ w = <<EventOf(y, <<>>)>> /\ y[1] = f /\ y[2] <= l
          /\ \A z \in KillerLines : ~(z[1] = f /\ y[2] < z[2] /\ z[2] <= l)
  BY DEF Awaits
<1>2. y # <<>> /\ y \in KillerLines
  BY KillerLinesAre
<1>3. EventOf(y, <<>>).raw = y
  BY <1>2 DEF EventOf
<1>4. AwaitedBy(w) = {y} /\ Passed(f, l, y)
  BY <1>1, <1>3 DEF AwaitedBy, Passed
<1>5. \A z \in Invocations : z \notin Kills
  <2>1. \A z \in Invocations : system.files[z[1]].lines[z[2]].says \in {"invoked"}
    BY OOMLinesAre DEF Invocations
  <2>2. \A z \in Kills : system.files[z[1]].lines[z[2]].says \in {"killed"}
    BY OOMLinesAre DEF Kills
  <2> QED
    BY <2>1, <2>2
<1>6. ASSUME <<f, l + 1>> \in Invocations \/ AllRead(f, l)
      PROVE  EventOf(y, <<>>) \in Incidents
  <2>1. SUFFICES ASSUME NEW k \in Kills, Answers(y, k) PROVE FALSE
    BY IncidentsAre DEF Unanswered
  <2>2. k \in KillerLines /\ y[1] = k[1] /\ y[2] < k[2]
        /\ \A z \in KillerLines : ~(z[1] = y[1] /\ y[2] < z[2] /\ z[2] < k[2])
    BY <2>1, KillerLinesAre DEF Answers, KillerLines
  <2>3. k[2] > l /\ k[1] = f /\ k[2] \in Nat
    BY <1>1, <1>2, <2>2, KillerLinesAre
  <2>4. <<f, l + 1>> \in Invocations
    BY <1>6, <2>2, <2>3 DEF AllRead
  <2> DEFINE n == <<f, l + 1>>
  <2>5. n \in KillerLines /\ n \in Invocations /\ n[1] = f /\ n[2] = l + 1
    BY <2>4, KillerLinesAre
  <2> HIDE DEF n
  <2>6. ~(n[2] < k[2]) /\ y[2] \in Nat
    BY <1>1, <1>2, <2>2, <2>5, KillerLinesAre
  <2>7. k[2] = n[2]
    BY <2>3, <2>5, <2>6
  <2>8. k = n
    BY <2>2, <2>3, <2>5, <2>7, KillerLinesAre
  <2> QED
    BY <1>5, <2>5, <2>8
<1> QED
  BY <1>1, <1>3, <1>4, <1>6 DEF Awaited

\* A new invocation.
LEMMA InvokeStep ==
    ASSUME system \in Systems, NEW f \in 1..Len(system.files), system.files[f].scanned,
           NEW l \in Nat, l < Len(system.files[f].lines), NEW w, NEW evs,
           Awaits(f, l, w), Found(f, l, w, evs),
           system.files[f].lines[l + 1].says = "invoked"
    PROVE  /\ Awaits(f, l + 1, <<EventOf(<<f, l + 1>>, <<>>)>>)
           /\ Found(f, l + 1, <<EventOf(<<f, l + 1>>, <<>>)>>, evs \o w)
<1> DEFINE n == <<f, l + 1>>
           new == <<EventOf(n, <<>>)>>
<1>1. n \in Invocations
  BY OOMLineAt DEF Invocations
<1>2. n = <<f, l + 1>> /\ n[1] = f /\ n[2] = l + 1 /\ n # <<>>
  OBVIOUS
<1>3. new # <<>> /\ AwaitedBy(new) = {n}
  BY <1>2 DEF EventOf, AwaitedBy
<1> HIDE DEF n, new
<1>4. Awaits(f, l + 1, new)
  BY <1>1, <1>2, <1>3, KillerLinesAre DEF Awaits, new
<1>f. f \in Nat
  BY FilesAre
<1>5. \A d \in Incidents : Passed(f, l + 1, d.raw) <=> Passed(f, l, d.raw) \/ d.raw = n
  BY <1>f, <1>2, PassedNext, KillerLinesAre
<1>6. ~Passed(f, l, n)
  BY <1>2, PassedNext
<1>7. evs \in Seq(Incidents)
  BY DEF Found
<1>8. CASE w = <<>>
  <2>1. evs \o w = evs /\ AwaitedBy(w) = {}
    BY <1>7, <1>8 DEF AwaitedBy
  <2>2. Found(f, l + 1, new, evs)
    BY <1>3, <1>5, <1>6, <2>1, FoundSame
  <2> QED
    BY <1>4, <2>1, <2>2 DEF new, n
<1>9. CASE w # <<>>
  <2>1. PICK y \in Invocations :
            /\ w = <<EventOf(y, <<>>)>> /\ EventOf(y, <<>>) \in Incidents
            /\ EventOf(y, <<>>).raw = y /\ AwaitedBy(w) = {y} /\ Passed(f, l, y)
    <3>1. PICK y \in Invocations : Awaited(f, l, w, y)
      BY <1>f, <1>9, AwaitedIs
    <3> QED
      BY <1>1, <1>2, <3>1 DEF Awaited
  <2> DEFINE e == EventOf(y, <<>>)
  <2>2. e \in Incidents /\ e.raw = y
    BY <2>1
  <2>3. evs \o w = Append(evs, e)
    BY <1>7, <2>1
  <2> HIDE DEF e
  <2>4. Found(f, l + 1, new, Append(evs, e))
    BY <1>3, <1>5, <1>6, <2>1, <2>2, FoundMore
  <2> QED
    BY <1>4, <2>3, <2>4 DEF new, n
<1> QED
  BY <1>8, <1>9

\* A kill, of the invocation that awaits it or alone.
LEMMA KillStep ==
    ASSUME system \in Systems, NEW f \in 1..Len(system.files), system.files[f].scanned,
           NEW l \in Nat, l < Len(system.files[f].lines), NEW w, NEW evs,
           Awaits(f, l, w), Found(f, l, w, evs),
           system.files[f].lines[l + 1].says = "killed", NEW e,
           w = <<>> => e = EventOf(<<>>, <<f, l + 1>>),
           \A y \in Invocations : w = <<EventOf(y, <<>>)>> => e = EventOf(y, <<f, l + 1>>)
    PROVE  /\ Awaits(f, l + 1, <<>>)
           /\ Found(f, l + 1, <<>>, Append(evs, e))
<1> DEFINE n == <<f, l + 1>>
<1>1. n \in Kills /\ n \in KillerLines
  BY OOMLineAt DEF Kills, KillerLines
<1>2. n = <<f, l + 1>> /\ n[1] = f /\ n[2] = l + 1 /\ n # <<>>
  OBVIOUS
<1> HIDE DEF n
<1>3. n \notin Invocations
  <2>1. system.files[n[1]].lines[n[2]].says \notin {"invoked"}
    BY <1>2
  <2> QED
    BY <2>1, OOMLinesAre DEF Invocations
<1>4. Awaits(f, l + 1, <<>>)
  <2>1. ASSUME NEW y \in Invocations, y[1] = f, y[2] <= l + 1
        PROVE  y[2] < n[2]
    BY <1>1, <1>2, <1>3, <2>1, KillerLinesAre
  <2> QED
    BY <1>1, <1>2, <2>1 DEF Awaits
<1>f. f \in Nat
  BY FilesAre
<1>5. \A d \in Incidents : Passed(f, l + 1, d.raw) <=> Passed(f, l, d.raw) \/ d.raw = n
  BY <1>f, <1>2, PassedNext, KillerLinesAre
<1>6. ~Passed(f, l, n)
  BY <1>2, PassedNext
<1>7. Passed(f, l + 1, n) /\ AwaitedBy(<<>>) = {}
  BY <1>2 DEF Passed, AwaitedBy
<1>8. CASE w = <<>>
  <2>1. Lone(n)
    <3> SUFFICES ASSUME NEW y \in Invocations, Answers(y, n) PROVE FALSE
      BY DEF Lone
    <3>1. y \in KillerLines /\ y[1] = f /\ y[2] <= l
      BY <1>2, KillerLinesAre DEF Answers
    <3>2. PICK z \in KillerLines : z[1] = f /\ y[2] < z[2] /\ z[2] <= l
      BY <1>8, <3>1 DEF Awaits
    <3>3. z[2] < n[2]
      BY <1>2, <3>2, KillerLinesAre
    <3> QED
      BY <3>1, <3>2, <3>3 DEF Answers, KillerLines
  <2>2. e = EventOf(<<>>, n)
    BY <1>2, <1>8
  <2>3. e \in Incidents
    BY <1>1, <2>1, <2>2, IncidentsAre
  <2>4. e.raw = n
    BY <2>2 DEF EventOf
  <2>5. AwaitedBy(w) = {}
    BY <1>8 DEF AwaitedBy
  <2>6. Found(f, l + 1, <<>>, Append(evs, e))
    BY <1>5, <1>6, <1>7, <2>3, <2>4, <2>5, FoundMore
  <2> QED
    BY <1>4, <2>6
<1>9. CASE w # <<>>
  <2>1. PICK y \in Invocations :
            /\ w = <<EventOf(y, <<>>)>> /\ y[1] = f /\ y[2] <= l
            /\ \A z \in KillerLines : ~(z[1] = f /\ y[2] < z[2] /\ z[2] <= l)
            /\ AwaitedBy(w) = {y} /\ Passed(f, l, y)
    <3>1. PICK y \in Invocations : Awaited(f, l, w, y)
      BY <1>f, <1>9, AwaitedIs
    <3> QED
      BY <3>1 DEF Awaited
  <2>2. Answers(y, n)
    <3>1. ASSUME NEW z \in KillerLines, z[1] = y[1], y[2] < z[2], z[2] < n[2]
          PROVE  FALSE
      BY <1>2, <2>1, <3>1, KillerLinesAre
    <3> QED
      BY <1>2, <2>1, <3>1, KillerLinesAre DEF Answers, KillerLines
  <2>3. e = EventOf(y, n) /\ y # <<>>
    BY <1>2, <2>1, KillerLinesAre
  <2>4. e \in Incidents
    BY <1>1, <2>2, <2>3, IncidentsAre
  <2>5. e.raw = y
    BY <2>3 DEF EventOf
  <2>6. Passed(f, l + 1, y)
    BY <1>5, <2>1, <2>4, <2>5
  <2>7. \A d \in Incidents : d.raw # n
    <3> SUFFICES ASSUME NEW d \in Incidents, d.raw = n PROVE FALSE
      OBVIOUS
    <3>1. Lone(n)
      BY <1>3, IncidentsByRaw
    <3> QED
      BY <2>2, <3>1 DEF Lone
  <2>8. Found(f, l + 1, <<>>, Append(evs, e))
    BY <1>5, <1>6, <1>7, <2>1, <2>4, <2>5, <2>6, <2>7, FoundMore
  <2> QED
    BY <1>4, <2>8
<1> QED
  BY <1>8, <1>9

\* A line of nothing.
LEMMA OtherStep ==
    ASSUME system \in Systems, NEW f \in 1..Len(system.files), system.files[f].scanned,
           NEW l \in Nat, l < Len(system.files[f].lines), NEW w, NEW evs,
           Awaits(f, l, w), Found(f, l, w, evs),
           system.files[f].lines[l + 1].says = "other"
    PROVE  Awaits(f, l + 1, w) /\ Found(f, l + 1, w, evs)
<1> DEFINE n == <<f, l + 1>>
<1>1. n \notin KillerLines
  <2>1. n[1] = f /\ n[2] = l + 1
    OBVIOUS
  <2>2. system.files[n[1]].lines[n[2]].says \notin {"invoked", "killed"}
    BY <2>1
  <2> QED
    BY <2>2, OOMLinesAre DEF KillerLines
<1> HIDE DEF n
<1>2. \A z \in KillerLines : z[1] = f => (z[2] <= l + 1 <=> z[2] <= l)
  BY <1>1, KillerLinesAre DEF n
<1>3. \A z \in KillerLines : Passed(f, l + 1, z) <=> Passed(f, l, z)
  BY <1>2 DEF Passed
<1>4. Awaits(f, l + 1, w)
  BY <1>2, KillerLinesAre DEF Awaits
<1>5. Found(f, l + 1, w, evs)
  BY <1>3, KillerLinesAre, FoundSame
<1> QED
  BY <1>4, <1>5

\* The end of a file.
LEMMA EndStep ==
    ASSUME system \in Systems, NEW f \in 1..Len(system.files), NEW l \in Nat,
           AllRead(f, l), NEW w, NEW evs, Awaits(f, l, w), Found(f, l, w, evs)
    PROVE  Awaits(f + 1, 0, <<>>) /\ Found(f + 1, 0, <<>>, evs \o w)
<1>1. f \in Nat
  BY FilesAre
<1>2. \A z \in KillerLines : z[2] \in Nat \ {0}
  BY OOMLinesAre, KillerLinesAre DEF KillerLines
<1>3. \A z \in KillerLines : Passed(f + 1, 0, z) <=> Passed(f, l, z)
  BY <1>1, <1>2, KillerLinesAre DEF Passed, AllRead
<1>4. Awaits(f + 1, 0, <<>>)
  BY <1>2, KillerLinesAre DEF Awaits
<1>5. AwaitedBy(<<>>) = {}
  BY DEF AwaitedBy
<1>6. evs \in Seq(Incidents)
  BY DEF Found
<1>7. CASE w = <<>>
  <2>1. evs \o w = evs
    BY <1>6, <1>7
  <2>2. Found(f + 1, 0, <<>>, evs)
    BY <1>3, <1>7, KillerLinesAre, FoundSame
  <2> QED
    BY <1>4, <2>1, <2>2
<1>8. CASE w # <<>>
  <2>0. PICK y \in Invocations : Awaited(f, l, w, y)
    BY <1>1, <1>8, AwaitedIs
  <2>1. /\ w = <<EventOf(y, <<>>)>> /\ EventOf(y, <<>>) \in Incidents
        /\ EventOf(y, <<>>).raw = y /\ AwaitedBy(w) = {y} /\ Passed(f, l, y)
    BY <2>0 DEF Awaited
  <2> DEFINE e == EventOf(y, <<>>)
  <2>2. e \in Incidents /\ e.raw = y
    BY <2>1
  <2>3. evs \o w = Append(evs, e)
    BY <1>6, <2>1
  <2> HIDE DEF e
  <2>4. \A d \in Incidents : Passed(f + 1, 0, d.raw) <=> Passed(f, l, d.raw)
    BY <1>3, KillerLinesAre
  <2>5. Found(f + 1, 0, <<>>, Append(evs, e))
    BY <1>5, <2>1, <2>2, <2>4, FoundMore
  <2> QED
    BY <1>4, <2>3, <2>5
<1> QED
  BY <1>7, <1>8

\* When all is read, the incidents are found, in whatever order they are put.
LEMMA SortedIncidents ==
    ASSUME system \in Systems, NEW evs, Found(Len(system.files) + 1, 0, <<>>, evs),
           NEW p \in [DOMAIN evs -> DOMAIN evs], IsInjective(p)
    PROVE  LET s == [k \in DOMAIN p |-> evs[p[k]]]
           IN  Range(s) = Incidents /\ Len(s) = Cardinality(Incidents)
<1> DEFINE D == DOMAIN evs
           s == [k \in DOMAIN p |-> evs[p[k]]]
<1>1. evs \in Seq(Incidents) /\ D = 1..Len(evs) /\ Len(evs) \in Nat
  BY DEF Found
<1>2. \A k \in D : evs[k] \in Incidents
  BY <1>1, ElementOfSeq
<1>3. \A e \in Incidents : Passed(Len(system.files) + 1, 0, e.raw)
  <2>1. \A e \in Incidents : e.raw \in KillerLines
    BY KillerLinesAre
  <2>2. \A x \in KillerLines : x[1] \in 1..Len(system.files)
    BY OOMLinesAre DEF KillerLines
  <2>3. Len(system.files) \in Nat
    BY FilesAre
  <2> QED
    BY <2>1, <2>2, <2>3 DEF Passed
<1>4. \A e \in Incidents : \E k \in D : evs[k] = e
  <2>1. \A e \in Incidents : \E k \in D : evs[k].raw = e.raw
    BY <1>3 DEF Found, AwaitedBy
  <2> QED
    BY <1>2, <2>1, IncidentsByRaw
<1>5. \A j, k \in D : evs[j] = evs[k] => j = k
  BY DEF Found
<1>6. IsFiniteSet(D)
  BY <1>1, FS_Interval
<1>7. \A k \in D : \E j \in D : p[j] = k
  <2>1. \A a, b \in D : p[a] = p[b] => a = b
    BY DEF IsInjective
  <2>2. p \in Injection(D, D)
    BY <2>1, Fun_IsInj
  <2>3. p \in Surjection(D, D)
    BY <1>6, <2>2, FS_Injection
  <2> QED
    BY <2>3, Fun_SurjectionProperties
<1>8. DOMAIN s = D /\ \A k \in D : s[k] = evs[p[k]] /\ p[k] \in D
  OBVIOUS
<1>9. \A a, b \in D : p[a] = p[b] => a = b
  BY DEF IsInjective
<1> HIDE DEF s
<1>10. s \in [D -> Incidents]
  <2>1. s = [k \in D |-> s[k]]
    BY <1>8 DEF s
  <2> QED
    BY <1>2, <1>8, <2>1
<1>11. \A e \in Incidents : \E k \in D : s[k] = e
  BY <1>4, <1>7, <1>8
<1>12. \A a, b \in D : s[a] = s[b] => a = b
  BY <1>5, <1>8, <1>9
<1>13. s \in Bijection(D, Incidents)
  BY <1>10, <1>11, <1>12, Fun_IsBij
<1>14. ExistsBijection(D, Incidents)
  BY <1>13 DEF ExistsBijection
<1>15. Cardinality(Incidents) = Cardinality(D)
  BY <1>6, <1>14, FS_Bijection
<1>16. Cardinality(D) = Len(evs)
  BY <1>1, AscendingAll
<1>17. Len(s) = Len(evs)
  BY <1>1, <1>8
<1>18. Range(s) = Incidents
  BY <1>8, <1>2, <1>11 DEF Range
<1> QED
  BY <1>15, <1>16, <1>17, <1>18 DEF s

----------------------------------------------------------------------------
(* The readings of a process.                                              *)

\* The points of a series.
PtsOf(s) == system.procs[s].pts

\* The series are typed, sorted by time and known by process and PID.
LEMMA SeriesAre ==
    ASSUME system \in Systems
    PROVE  /\ DOMAIN system.procs = 1..Len(system.procs) /\ Len(system.procs) \in Nat
           /\ \A s \in DOMAIN system.procs :
                 /\ system.procs[s].proc \in Nat /\ system.procs[s].pid \in Nat
                 /\ Len(PtsOf(s)) \in Nat \ {0} /\ DOMAIN PtsOf(s) = 1..Len(PtsOf(s))
                 /\ \A k \in 1..Len(PtsOf(s)) : PtsOf(s)[k].at \in Nat /\ PtsOf(s)[k].kb \in Nat
                 /\ \A j, k \in 1..Len(PtsOf(s)) : j < k => PtsOf(s)[j].at <= PtsOf(s)[k].at
           /\ \A s, t \in DOMAIN system.procs :
                 system.procs[s].proc = system.procs[t].proc
                 /\ system.procs[s].pid = system.procs[t].pid => s = t
<1> DEFINE Ser == [proc : Nat, pid : Nat, pts : Seq(Point) \ {<<>>}]
<1>1. system.procs \in Seq(Ser)
  BY SystemsAssumption
<1>2. \A s \in DOMAIN system.procs : InOrder(system.procs[s].pts)
  BY SystemsAssumption
<1>3. \A s, t \in DOMAIN system.procs :
         system.procs[s].proc = system.procs[t].proc
         /\ system.procs[s].pid = system.procs[t].pid => s = t
  BY SystemsAssumption
<1> HIDE DEF Ser
<1>4. DOMAIN system.procs = 1..Len(system.procs) /\ Len(system.procs) \in Nat
  BY <1>1
<1>5. \A s \in DOMAIN system.procs : system.procs[s] \in Ser
  BY <1>1, ElementOfSeq
<1>6. ASSUME NEW s \in DOMAIN system.procs
      PROVE  /\ system.procs[s].proc \in Nat /\ system.procs[s].pid \in Nat
             /\ Len(PtsOf(s)) \in Nat \ {0} /\ DOMAIN PtsOf(s) = 1..Len(PtsOf(s))
             /\ \A k \in 1..Len(PtsOf(s)) : PtsOf(s)[k].at \in Nat /\ PtsOf(s)[k].kb \in Nat
             /\ \A j, k \in 1..Len(PtsOf(s)) : j < k => PtsOf(s)[j].at <= PtsOf(s)[k].at
  <2>1. /\ system.procs[s].proc \in Nat /\ system.procs[s].pid \in Nat
        /\ PtsOf(s) \in Seq(Point) /\ PtsOf(s) # <<>>
    BY <1>5 DEF Ser, PtsOf
  <2>2. Len(PtsOf(s)) \in Nat \ {0} /\ DOMAIN PtsOf(s) = 1..Len(PtsOf(s))
    BY <2>1
  <2>3. \A k \in 1..Len(PtsOf(s)) : PtsOf(s)[k] \in Point
    BY <2>1, ElementOfSeq
  <2>4. \A j, k \in DOMAIN PtsOf(s) : j < k => PtsOf(s)[j].at <= PtsOf(s)[k].at
    BY <1>2 DEF InOrder, PtsOf
  <2> QED
    BY <2>1, <2>2, <2>3, <2>4 DEF Point
<1> QED
  BY <1>3, <1>4, <1>6

\* A process has finitely many series, none of them empty.
LEMMA SeriesOfAre ==
    ASSUME system \in Systems, NEW p
    PROVE  /\ SeriesOf(p) \subseteq DOMAIN system.procs
           /\ IsFiniteSet(SeriesOf(p)) /\ Cardinality(SeriesOf(p)) \in Nat
           /\ IsFiniteSet(DOMAIN system.procs)
           /\ \A s \in SeriesOf(p) : s \in Nat /\ Len(PtsOf(s)) \in Nat \ {0}
           /\ p \in Procs => SeriesOf(p) # {}
<1>1. SeriesOf(p) \subseteq DOMAIN system.procs
  BY DEF SeriesOf
<1>2. IsFiniteSet(DOMAIN system.procs)
  BY SeriesAre, FS_Interval
<1>3. IsFiniteSet(SeriesOf(p)) /\ Cardinality(SeriesOf(p)) \in Nat
  BY <1>1, <1>2, FS_Subset, FS_CardinalityType
<1> QED
  BY <1>1, <1>2, <1>3, SeriesAre DEF SeriesOf, Procs

\* The range of a function on a finite set is finite.
LEMMA FiniteImage ==
    ASSUME NEW S, IsFiniteSet(S), NEW f, f = [x \in S |-> f[x]]
    PROVE  IsFiniteSet(Range(f))
<1>1. DOMAIN f = S
  OBVIOUS
<1>2. f \in [S -> Range(f)]
  BY <1>1 DEF Range
<1>3. f \in Surjection(S, Range(f))
  BY <1>1, <1>2, Fun_IsSurj DEF Range
<1> QED
  BY <1>3, FS_Surjection

\* A reading is a place in a series of its process.
LEMMA ReadingsAre ==
    ASSUME system \in Systems, NEW p
    PROVE  /\ \A r \in ReadingsOf(p) :
                 /\ r = <<r[1], r[2]>> /\ r[1] \in SeriesOf(p) /\ r[1] \in DOMAIN system.procs
                 /\ r[1] \in Nat /\ r[2] \in 1..Len(PtsOf(r[1]))
                 /\ At(r) \in Nat /\ Kb(r) \in Nat /\ Pid(r) \in Nat
           /\ \A r, x \in ReadingsOf(p) : r[1] = x[1] /\ r[2] = x[2] => r = x
           /\ \A s \in SeriesOf(p) : \A k \in 1..Len(PtsOf(s)) : <<s, k>> \in ReadingsOf(p)
           /\ IsFiniteSet(ReadingsOf(p))
<1> DEFINE f == [s \in SeriesOf(p) |-> {s} \X DOMAIN system.procs[s].pts]
<1>1. ReadingsOf(p) = UNION Range(f)
  BY DEF ReadingsOf, Range
<1>2. \A s \in SeriesOf(p) : f[s] = {s} \X (1..Len(PtsOf(s)))
  BY SeriesOfAre, SeriesAre DEF PtsOf
<1>3. \A s \in SeriesOf(p) : IsFiniteSet(f[s])
  <2>1. ASSUME NEW s \in SeriesOf(p) PROVE IsFiniteSet({s} \X (1..Len(PtsOf(s))))
    <3>1. IsFiniteSet({s})
      BY FS_Singleton
    <3>2. Len(PtsOf(s)) \in Int
      BY SeriesOfAre
    <3>3. IsFiniteSet(1..Len(PtsOf(s)))
      BY <3>2, FS_Interval
    <3> QED
      BY <3>1, <3>3, FS_Product
  <2> QED
    BY <1>2, <2>1
<1>4. DOMAIN f = SeriesOf(p) /\ f = [s \in SeriesOf(p) |-> f[s]]
  OBVIOUS
<1> HIDE DEF f
<1>5. IsFiniteSet(Range(f))
  BY <1>4, SeriesOfAre, FiniteImage
<1>6. \A F \in Range(f) : IsFiniteSet(F)
  BY <1>3, <1>4 DEF Range
<1>7. IsFiniteSet(ReadingsOf(p))
  BY <1>1, <1>5, <1>6, FS_UNION
<1>8. ASSUME NEW r \in ReadingsOf(p)
      PROVE  r = <<r[1], r[2]>> /\ r[1] \in SeriesOf(p) /\ r[2] \in 1..Len(PtsOf(r[1]))
  <2>1. PICK s \in SeriesOf(p) : r \in f[s]
    BY <1>1, <1>4 DEF Range
  <2>2. r \in {s} \X (1..Len(PtsOf(s)))
    BY <1>2, <2>1
  <2> QED
    BY <2>2
<1>9. \A r \in ReadingsOf(p) : r[1] \in DOMAIN system.procs /\ r[1] \in Nat
  BY <1>8, SeriesOfAre
<1>10. \A r \in ReadingsOf(p) : At(r) \in Nat /\ Kb(r) \in Nat /\ Pid(r) \in Nat
  BY <1>8, <1>9, SeriesAre DEF At, Kb, Pid, PtsOf
<1>11. \A r, x \in ReadingsOf(p) : r[1] = x[1] /\ r[2] = x[2] => r = x
  BY <1>8
<1>12. ASSUME NEW s \in SeriesOf(p), NEW k \in 1..Len(PtsOf(s))
       PROVE  <<s, k>> \in ReadingsOf(p)
  <2>1. <<s, k>> \in f[s]
    BY <1>2
  <2> QED
    BY <1>1, <1>4, <2>1 DEF Range
<1> QED
  BY <1>7, <1>8, <1>9, <1>10, <1>11, <1>12

\* An order in which the map may give the series.
IsOrder(order) == order \in [DOMAIN system.procs -> DOMAIN system.procs] /\ IsInjective(order)

\* Whatever the order of the series, readings are ordered strictly and in full.
LEMMA BeforeIs ==
    ASSUME system \in Systems, NEW p, NEW order, IsOrder(order)
    PROVE  /\ \A r \in ReadingsOf(p) : ~Before(order, r, r)
           /\ \A r, x, y \in ReadingsOf(p) :
                 Before(order, r, x) /\ Before(order, x, y) => Before(order, r, y)
           /\ \A r, x \in ReadingsOf(p) : r = x \/ Before(order, r, x) \/ Before(order, x, r)
<1>1. \A r \in ReadingsOf(p) :
         order[r[1]] \in Nat /\ At(r) \in Nat /\ r[1] \in DOMAIN system.procs /\ r[2] \in Nat
  BY ReadingsAre, SeriesAre DEF IsOrder
<1>2. \A r, x \in ReadingsOf(p) : order[r[1]] = order[x[1]] => r[1] = x[1]
  BY <1>1 DEF IsOrder, IsInjective
<1>3. \A r, x \in ReadingsOf(p) : r[1] = x[1] /\ r[2] = x[2] => r = x
  BY ReadingsAre
<1>4. \A r \in ReadingsOf(p) : ~Before(order, r, r)
  BY <1>1 DEF Before
<1>5. ASSUME NEW r \in ReadingsOf(p), NEW x \in ReadingsOf(p), NEW y \in ReadingsOf(p),
             Before(order, r, x), Before(order, x, y)
      PROVE  Before(order, r, y)
  BY <1>1, <1>2, <1>5 DEF Before
<1>6. \A r, x \in ReadingsOf(p) : r = x \/ Before(order, r, x) \/ Before(order, x, r)
  BY <1>1, <1>2, <1>3 DEF Before
<1> QED
  BY <1>4, <1>5, <1>6

\* A finite order has ends.
LEMMA EndsExist ==
    ASSUME NEW D, IsFiniteSet(D), D # {}, NEW Rel, Orders(D, Rel)
    PROVE  /\ \E r \in D : \A x \in D \ {r} : <<r, x>> \in Rel
           /\ \E r \in D : \A x \in D \ {r} : <<x, r>> \in Rel
<1> DEFINE n == Cardinality(D)
           at(x) == PlaceIn(D, Rel, x)
<1>1. n \in Nat /\ n # 0
  BY FS_CardinalityType, FS_EmptySet
<1>2. /\ \A x \in D : at(x) \in 0..n-1
      /\ \A x, z \in D : <<x, z>> \in Rel => at(x) < at(z)
      /\ \A k \in 1..n : \E x \in D : at(x) = k - 1
  BY PlaceIs
<1>3. \A x, y \in D : x = y \/ <<x, y>> \in Rel \/ <<y, x>> \in Rel
  BY DEF Orders
<1> HIDE DEF n, at
<1>4. PICK r \in D : at(r) = 0
  <2>1. 1 \in 1..n
    BY <1>1
  <2> QED
    BY <1>2, <2>1
<1>5. ASSUME NEW x \in D \ {r} PROVE <<r, x>> \in Rel
  <2>1. ~(at(x) < at(r))
    BY <1>1, <1>2, <1>4
  <2> QED
    BY <1>2, <1>3, <2>1
<1>6. PICK l \in D : at(l) = n - 1
  <2>1. n \in 1..n
    BY <1>1
  <2> QED
    BY <1>2, <2>1
<1>7. ASSUME NEW x \in D \ {l} PROVE <<x, l>> \in Rel
  <2>1. ~(at(l) < at(x))
    BY <1>1, <1>2, <1>6
  <2> QED
    BY <1>2, <1>3, <2>1
<1> QED
  BY <1>5, <1>7

\* The first and the last of some readings.
LEMMA EndsOfReadings ==
    ASSUME system \in Systems, NEW p, NEW order, IsOrder(order),
           NEW E \in SUBSET ReadingsOf(p), E # {}
    PROVE  /\ FirstReading(E, order) \in E
           /\ \A x \in E \ {FirstReading(E, order)} : Before(order, FirstReading(E, order), x)
           /\ LastReading(E, order) \in E
           /\ \A x \in E \ {LastReading(E, order)} : Before(order, x, LastReading(E, order))
<1> DEFINE Rel == {x \in E \X E : Before(order, x[1], x[2])}
<1>1. \A x, y \in E : <<x, y>> \in Rel <=> Before(order, x, y)
  OBVIOUS
<1> HIDE DEF Rel
<1>2. Orders(E, Rel)
  BY <1>1, BeforeIs DEF Orders
<1>3. IsFiniteSet(E)
  BY ReadingsAre, FS_Subset
<1>4. /\ \E r \in E : \A x \in E \ {r} : <<r, x>> \in Rel
      /\ \E r \in E : \A x \in E \ {r} : <<x, r>> \in Rel
  BY <1>2, <1>3, EndsExist
<1>5. \E r \in E : \A x \in E \ {r} : Before(order, r, x)
  BY <1>1, <1>4
<1>6. \E r \in E : \A x \in E \ {r} : Before(order, x, r)
  BY <1>1, <1>4
<1> QED
  BY <1>5, <1>6 DEF FirstReading, LastReading

\* Of some readings one is the largest and one the smallest; and the k-th smallest is
\* one of them.
LEMMA KbOfReadings ==
    ASSUME system \in Systems, NEW p, NEW order, IsOrder(order),
           NEW E \in SUBSET ReadingsOf(p), E # {}
    PROVE  /\ \E r \in E : \A x \in E : Kb(x) <= Kb(r)
           /\ \E r \in E : \A x \in E : Kb(r) <= Kb(x)
           /\ Cardinality(E) \in Nat \ {0}
           /\ \A k \in 0..Cardinality(E)-1 : \E r \in E : KthSmallest(E, k) = Kb(r)
<1> DEFINE smaller(x, y) == Kb(x) < Kb(y) \/ (Kb(x) = Kb(y) /\ Before(order, x, y))
           Rel == {x \in E \X E : smaller(x[1], x[2])}
           n == Cardinality(E)
<1>1. \A x, y \in E : <<x, y>> \in Rel <=> smaller(x, y)
  OBVIOUS
<1> HIDE DEF Rel
<1>2. \A x \in E : Kb(x) \in Nat
  BY ReadingsAre
<1>3. Orders(E, Rel)
  <2>1. \A x \in E : ~smaller(x, x)
    BY <1>2, BeforeIs
  <2>2. \A x, y, z \in E : smaller(x, y) /\ smaller(y, z) => smaller(x, z)
    BY <1>2, BeforeIs
  <2>3. \A x, y \in E : x = y \/ smaller(x, y) \/ smaller(y, x)
    BY <1>2, BeforeIs
  <2> HIDE DEF smaller
  <2> QED
    BY <1>1, <2>1, <2>2, <2>3 DEF Orders
<1>4. IsFiniteSet(E)
  BY ReadingsAre, FS_Subset
<1>5. /\ \E r \in E : \A x \in E \ {r} : <<r, x>> \in Rel
      /\ \E r \in E : \A x \in E \ {r} : <<x, r>> \in Rel
  BY <1>3, <1>4, EndsExist
<1>6. \A x, y \in E : smaller(x, y) => Kb(x) <= Kb(y)
  BY <1>2
<1>7. \A x \in E : Kb(x) <= Kb(x)
  BY <1>2
<1>8. \E r \in E : \A x \in E : Kb(x) <= Kb(r)
  <2> HIDE DEF smaller
  <2> QED
    BY <1>1, <1>5, <1>6, <1>7
<1>9. \E r \in E : \A x \in E : Kb(r) <= Kb(x)
  <2> HIDE DEF smaller
  <2> QED
    BY <1>1, <1>5, <1>6, <1>7
<1>10. n \in Nat \ {0}
  BY <1>4, FS_CardinalityType, FS_EmptySet
<1>11. ASSUME NEW k \in 0..n-1
       PROVE  \E r \in E : KthSmallest(E, k) = Kb(r)
  <2> DEFINE below(r) == {x \in E : Kb(x) < Kb(r)}
             upto(r) == {x \in E : Kb(x) <= Kb(r)}
             prior(r) == {y \in E : <<y, r>> \in Rel}
  <2>1. PICK r \in E : PlaceIn(E, Rel, r) = k
    <3>1. k + 1 \in 1..Cardinality(E) /\ (k + 1) - 1 = k
      BY <1>10
    <3>2. \A j \in 1..Cardinality(E) : \E x \in E : PlaceIn(E, Rel, x) = j - 1
      BY <1>3, <1>4, PlaceIs
    <3>3. \E x \in E : PlaceIn(E, Rel, x) = (k + 1) - 1
      BY <3>1, <3>2
    <3> QED
      BY <3>1, <3>3
  <2>2. Cardinality(prior(r)) = k
    BY <2>1 DEF PlaceIn
  <2>3. below(r) \subseteq prior(r)
    BY <1>1
  <2>4. prior(r) \cup {r} \subseteq upto(r) /\ r \notin prior(r)
    <3>1. ~smaller(r, r)
      BY <1>2, BeforeIs
    <3>2. \A x \in prior(r) : Kb(x) <= Kb(r)
      BY <1>1, <1>6
    <3> QED
      BY <1>1, <1>7, <3>1, <3>2
  <2>5. IsFiniteSet(prior(r)) /\ IsFiniteSet(upto(r))
    BY <1>4, FS_Subset
  <2> HIDE DEF below, upto, prior
  <2>6. Cardinality(below(r)) \in Nat /\ Cardinality(below(r)) <= k
    BY <2>2, <2>3, <2>5, FS_Subset, FS_CardinalityType
  <2>7. Cardinality(prior(r) \cup {r}) = k + 1
    BY <2>2, <2>4, <2>5, FS_AddElement
  <2>8. Cardinality(upto(r)) \in Nat /\ k + 1 <= Cardinality(upto(r))
    BY <2>4, <2>5, <2>7, FS_Subset, FS_CardinalityType
  <2> DEFINE Is(x) == Cardinality(below(x)) <= k /\ k < Cardinality(upto(x))
  <2>9. \E x \in E : Is(x)
    BY <2>6, <2>8
  <2>10. KthSmallest(E, k) = Kb(CHOOSE x \in E : Is(x))
    BY DEF KthSmallest, below, upto
  <2> QED
    BY <2>9, <2>10
<1> QED
  BY <1>8, <1>9, <1>10, <1>11

----------------------------------------------------------------------------
(* What a process is ranked on.                                            *)

\* The figures of some readings.
LEMMA MedianIs ==
    ASSUME system \in Systems, NEW p, NEW order, IsOrder(order),
           NEW E \in SUBSET ReadingsOf(p), E # {}
    PROVE  \E r, x \in E : TwiceMedian(E) = Kb(r) + Kb(x)
<1> DEFINE n == Cardinality(E)
<1>1. n \in Nat \ {0} /\ \A k \in 0..n-1 : \E r \in E : KthSmallest(E, k) = Kb(r)
  BY KbOfReadings
<1>2. n \div 2 \in 0..n-1 /\ (n - 1) \div 2 \in 0..n-1
  <2> HIDE DEF n
  <2> QED
    BY <1>1
<1>3. \E r \in E : KthSmallest(E, n \div 2) = Kb(r)
  BY <1>1, <1>2
<1>4. \E r \in E : KthSmallest(E, (n - 1) \div 2) = Kb(r)
  BY <1>1, <1>2
<1> QED
  BY <1>3, <1>4 DEF TwiceMedian

\* The span is between two readings that bound all of them.
LEMMA SpanIs ==
    ASSUME system \in Systems, NEW p, NEW order, IsOrder(order), ReadingsOf(p) # {}
    PROVE  \E lo, hi \in ReadingsOf(p) :
              /\ \A x \in ReadingsOf(p) : Kb(lo) <= Kb(x) /\ Kb(x) <= Kb(hi)
              /\ Span(p) = Kb(hi) - Kb(lo)
<1> DEFINE R == ReadingsOf(p)
           held == {Kb(r) : r \in R}
           top == CHOOSE v \in held : \A w \in held : w <= v
           low == CHOOSE v \in held : \A w \in held : v <= w
<1>1. PICK hi \in R : \A x \in R : Kb(x) <= Kb(hi)
  BY KbOfReadings
<1>2. PICK lo \in R : \A x \in R : Kb(lo) <= Kb(x)
  BY KbOfReadings
<1>3. \A x \in R : Kb(x) \in Nat /\ Kb(x) \in held
  BY ReadingsAre
<1>4. \A v \in held : \E x \in R : v = Kb(x)
  OBVIOUS
<1>5. Span(p) = top - low
  BY DEF Span
<1> HIDE DEF held, R
<1>6. top \in held /\ \A w \in held : w <= top
  <2>1. \E v \in held : \A w \in held : w <= v
    BY <1>1, <1>3, <1>4
  <2> QED
    BY <2>1
<1>7. low \in held /\ \A w \in held : low <= w
  <2>1. \E v \in held : \A w \in held : v <= w
    BY <1>2, <1>3, <1>4
  <2> QED
    BY <2>1
<1> HIDE DEF top, low
<1>8. top = Kb(hi)
  BY <1>1, <1>3, <1>4, <1>6
<1>9. low = Kb(lo)
  BY <1>2, <1>3, <1>4, <1>7
<1> QED
  BY <1>1, <1>2, <1>5, <1>8, <1>9 DEF R

\* The peak is a reading.
LEMMA PeakIs ==
    ASSUME system \in Systems, NEW p, NEW order, IsOrder(order), ReadingsOf(p) # {}
    PROVE  \E r \in ReadingsOf(p) : Peak(ReadingsOf(p)) = Kb(r)
<1>1. \E r \in ReadingsOf(p) : \A x \in ReadingsOf(p) : Kb(x) <= Kb(r)
  BY KbOfReadings
<1> QED
  BY <1>1 DEF Peak

\* A process grew by no more than it swung.
LEMMA GrowthIs ==
    ASSUME system \in Systems, NEW p, NEW order, IsOrder(order), ReadingsOf(p) # {}
    PROVE  /\ Growth(ReadingsOf(p), order) \in Int
           /\ Growth(ReadingsOf(p), order) <= 2 * Span(p)
           /\ Span(p) \in Int
<1> DEFINE R == ReadingsOf(p)
<1>1. PICK lo \in R, hi \in R :
          /\ \A x \in R : Kb(lo) <= Kb(x) /\ Kb(x) <= Kb(hi)
          /\ Span(p) = Kb(hi) - Kb(lo)
  BY SpanIs
<1>2. \A x \in R : Kb(x) \in Nat
  BY ReadingsAre
<1>3. FirstReading(R, order) \in R /\ LastReading(R, order) \in R
  BY EndsOfReadings
<1>4. PICK top \in R : Peak(R) = Kb(top)
  BY PeakIs
<1> DEFINE Within(v) == v \in Int /\ v <= 2 * Span(p)
           start == Kb(FirstReading(R, order))
           climb == 2 * (Kb(LastReading(R, order)) - start)
<1>5. \A x, y \in R : Within(2 * (Kb(x) - Kb(y)))
  BY <1>1, <1>2
<1>6. Within(climb) /\ Within(2 * (Peak(R) - start))
  BY <1>3, <1>4, <1>5
<1>7. Restarts(R, order) # {} => Within(TwiceReclaimed(R, order))
  <2> SUFFICES ASSUME Restarts(R, order) # {} PROVE Within(TwiceReclaimed(R, order))
    OBVIOUS
  <2> DEFINE last == LastReading(Restarts(R, order), order)
             E == {r \in R : ~Before(order, r, last)}
  <2>1. Restarts(R, order) \in SUBSET R
    BY DEF Restarts
  <2>2. last \in R
    BY <2>1, EndsOfReadings
  <2>3. E \in SUBSET R /\ E # {}
    BY <2>2, BeforeIs
  <2>4. TwiceReclaimed(R, order) = 2 * Peak(R) - TwiceMedian(E)
    BY DEF TwiceReclaimed
  <2> HIDE DEF E, last
  <2>5. PICK r \in E, x \in E : TwiceMedian(E) = Kb(r) + Kb(x)
    BY <2>3, MedianIs
  <2> QED
    BY <1>1, <1>2, <1>4, <2>3, <2>4, <2>5
<1>8. \A a, b : Within(a) /\ Within(b) => Within(Larger(a, b))
  BY DEF Larger
<1>9. Growth(R, order) = IF Restarts(R, order) = {} THEN climb
                         ELSE Larger(Larger(climb, 2 * (Peak(R) - start)), TwiceReclaimed(R, order))
  BY DEF Growth
<1>10. Span(p) \in Int
  BY <1>1, <1>2
<1> HIDE DEF Within, climb, start
<1>11. Within(Growth(R, order))
  BY <1>6, <1>7, <1>8, <1>9
<1> QED
  BY <1>10, <1>11 DEF Within

\* A series that is the only one of its process is read in its order.
LEMMA RanThroughIs ==
    ASSUME system \in Systems, NEW p \in Procs, NEW order, IsOrder(order), RanThrough(p)
    PROVE  /\ ReadingsOf(p) # {}
           /\ Restarts(ReadingsOf(p), order) = {}
           /\ Growth(ReadingsOf(p), order) = 2 * NetGrowth(p)
           /\ NetGrowth(p) \in Int
           /\ Cardinality(ReadingsOf(p)) < 2 => NetGrowth(p) = 0
<1> DEFINE R == ReadingsOf(p)
           s == CHOOSE t \in SeriesOf(p) : TRUE
           n == Len(PtsOf(s))
<1>1. s \in SeriesOf(p) /\ s \in DOMAIN system.procs /\ n \in Nat \ {0} /\ s \in Nat
  BY SeriesOfAre
<1>2. SeriesOf(p) = {s}
  <2>1. Cardinality(SeriesOf(p)) = 1 /\ IsFiniteSet(SeriesOf(p))
    BY SeriesOfAre DEF RanThrough
  <2>2. PICK t : SeriesOf(p) = {t}
    BY <2>1, FS_Singleton
  <2> QED
    BY <1>1, <2>2
<1>3. NetGrowth(p) = PtsOf(s)[n].kb - PtsOf(s)[1].kb
  BY DEF NetGrowth, PtsOf
<1> HIDE DEF s, n
<1>4. \A k \in 1..n : <<s, k>> \in R
  BY <1>1, ReadingsAre DEF n
<1>5. \A r \in R : r = <<s, r[2]>> /\ r[1] = s /\ r[2] \in 1..n
  BY <1>2, ReadingsAre DEF n
<1>6. \A k \in 1..n : <<s, k>>[1] = s /\ <<s, k>>[2] = k
  OBVIOUS
<1>7. \A r, x \in R : Before(order, r, x) <=> r[2] < x[2]
  <2>1. \A r \in R : At(r) = PtsOf(s)[r[2]].at /\ At(r) \in Nat /\ r[2] \in 1..n
    BY <1>5, ReadingsAre DEF At, PtsOf
  <2>2. \A j, k \in 1..n : j < k => PtsOf(s)[j].at <= PtsOf(s)[k].at
    BY <1>1, SeriesAre DEF n
  <2>3. order[s] \in Nat
    BY <1>1, SeriesAre DEF IsOrder
  <2>4. ASSUME NEW r \in R, NEW x \in R
        PROVE  Before(order, r, x) <=> r[2] < x[2]
    <3>1. r[2] < x[2] => At(r) <= At(x)
      BY <2>1, <2>2
    <3>2. x[2] < r[2] => At(x) <= At(r)
      BY <2>1, <2>2
    <3>3. r[2] = x[2] => At(x) = At(r)
      BY <2>1
    <3>4. Before(order, r, x) <=> At(r) < At(x) \/ (At(r) = At(x) /\ r[2] < x[2])
      BY <1>5, <2>3 DEF Before
    <3>5. At(r) \in Nat /\ At(x) \in Nat /\ r[2] \in Nat /\ x[2] \in Nat
      BY <2>1
    <3> QED
      BY <3>1, <3>2, <3>3, <3>4, <3>5
  <2> QED
    BY <2>4
<1>8. R # {}
  <2>1. 1 \in 1..n
    BY <1>1
  <2> QED
    BY <1>4, <2>1
<1>9. \A E \in SUBSET R : E # {} => LastReading(E, order) \in E
          /\ \A x \in E : x[2] <= LastReading(E, order)[2]
  <2> SUFFICES ASSUME NEW E \in SUBSET R, E # {}
               PROVE  /\ LastReading(E, order) \in E
                      /\ \A x \in E : x[2] <= LastReading(E, order)[2]
    OBVIOUS
  <2>1. /\ LastReading(E, order) \in E
        /\ \A x \in E \ {LastReading(E, order)} : Before(order, x, LastReading(E, order))
    BY EndsOfReadings
  <2> QED
    BY <1>5, <1>7, <2>1
<1>10. FirstReading(R, order) \in R /\ \A x \in R : FirstReading(R, order)[2] <= x[2]
  <2>1. /\ FirstReading(R, order) \in R
        /\ \A x \in R \ {FirstReading(R, order)} : Before(order, FirstReading(R, order), x)
    BY <1>8, EndsOfReadings
  <2> QED
    BY <1>5, <1>7, <2>1
<1>11. FirstReading(R, order) = <<s, 1>>
  <2>1. <<s, 1>> \in R
    BY <1>1, <1>4
  <2> QED
    BY <1>1, <1>5, <1>10, <2>1
<1>12. LastReading(R, order) = <<s, n>>
  <2>1. <<s, n>> \in R
    BY <1>1, <1>4
  <2>2. LastReading(R, order) \in R /\ n <= LastReading(R, order)[2]
    BY <1>8, <1>9, <2>1
  <2> QED
    BY <1>1, <1>5, <2>2
<1>13. Restarts(R, order) = {}
  <2> SUFFICES ASSUME NEW r \in Restarts(R, order) PROVE FALSE
    OBVIOUS
  <2> DEFINE E == {x \in R : Before(order, x, r)}
             prev == LastReading(E, order)
  <2>1. r \in R /\ E # {} /\ RestartsAfter(r, prev)
    BY DEF Restarts
  <2>2. E \in SUBSET R /\ \A x \in E : Before(order, x, r)
    OBVIOUS
  <2>3. \A x \in R : Before(order, x, r) => x \in E
    OBVIOUS
  <2> HIDE DEF E
  <2>4. prev \in E /\ prev \in R /\ prev[2] < r[2] /\ \A x \in E : x[2] <= prev[2]
    BY <1>7, <1>9, <2>1, <2>2
  <2> HIDE DEF prev
  <2>5. r[2] \in 1..n /\ prev[2] \in 1..n
    BY <1>5, <2>1, <2>4
  <2>6. <<s, r[2] - 1>> \in E
    <3>1. r[2] - 1 \in 1..n
      BY <1>1, <2>4, <2>5
    <3>2. <<s, r[2] - 1>> \in R /\ <<s, r[2] - 1>>[2] < r[2]
      BY <1>4, <2>5, <3>1
    <3> QED
      BY <1>7, <2>1, <2>3, <3>2
  <2>7. r[2] = prev[2] + 1
    BY <2>4, <2>5, <2>6
  <2>8. ~(Kb(r) * 2 < Kb(prev))
    <3>1. \A a, x \in R : x[2] = a[2] + 1 => Kb(x) * 2 >= Kb(a)
      BY DEF RanThrough
    <3>2. Kb(r) \in Nat /\ Kb(prev) \in Nat
      BY <2>1, <2>4, ReadingsAre
    <3> QED
      BY <2>1, <2>4, <2>7, <3>1, <3>2
  <2>9. Pid(r) = Pid(prev)
    BY <1>5, <2>1, <2>4 DEF Pid
  <2> QED
    BY <2>1, <2>8, <2>9 DEF RestartsAfter
<1>14. /\ Kb(<<s, n>>) = PtsOf(s)[n].kb /\ Kb(<<s, 1>>) = PtsOf(s)[1].kb
       /\ PtsOf(s)[n].kb \in Nat /\ PtsOf(s)[1].kb \in Nat
  BY <1>1, SeriesAre DEF Kb, PtsOf, n
<1>15. Growth(R, order) = 2 * NetGrowth(p)
  <2>1. Growth(R, order) = 2 * (Kb(LastReading(R, order)) - Kb(FirstReading(R, order)))
    BY <1>13 DEF Growth
  <2> QED
    BY <1>3, <1>11, <1>12, <1>14, <2>1
<1>16. ASSUME Cardinality(R) < 2 PROVE NetGrowth(p) = 0
  <2>1. n = 1
    <3> SUFFICES ASSUME n # 1 PROVE FALSE
      OBVIOUS
    <3>1. <<s, 1>> \in R /\ <<s, 2>> \in R /\ <<s, 1>> # <<s, 2>>
      BY <1>1, <1>4
    <3> DEFINE a == <<s, 1>>
               b == <<s, 2>>
    <3>2. a \in R /\ b \in R /\ a # b
      BY <3>1
    <3> HIDE DEF a, b, R
    <3>3. IsFiniteSet({a}) /\ Cardinality({a}) = 1
      BY FS_Singleton
    <3>4. IsFiniteSet({a} \cup {b}) /\ Cardinality({a} \cup {b}) = 2
      BY <3>2, <3>3, FS_AddElement
    <3>5. IsFiniteSet(R) /\ Cardinality(R) \in Nat
      BY ReadingsAre, FS_CardinalityType DEF R
    <3>6. {a} \cup {b} \subseteq R
      BY <3>2
    <3>7. 2 <= Cardinality(R)
      BY <3>4, <3>5, <3>6, FS_Subset
    <3> QED
      BY <1>16, <3>5, <3>7
  <2> QED
    BY <1>3, <1>14, <2>1
<1> QED
  BY <1>3, <1>8, <1>13, <1>14, <1>15, <1>16

\* Where a process has several series, one of them takes over from another.
LEMMA SeveralRestart ==
    ASSUME system \in Systems, NEW p, NEW order, IsOrder(order), Cardinality(SeriesOf(p)) > 1
    PROVE  Restarts(ReadingsOf(p), order) # {}
<1> DEFINE R == ReadingsOf(p)
           first == FirstReading(R, order)
           E == {x \in R : x[1] # first[1]}
           r == FirstReading(E, order)
           D == {x \in R : Before(order, x, r)}
           prev == LastReading(D, order)
<1>1. PICK s \in SeriesOf(p), t \in SeriesOf(p) : s # t
  <2> SUFFICES ASSUME \A s, t \in SeriesOf(p) : s = t PROVE FALSE
    OBVIOUS
  <2>1. CASE SeriesOf(p) = {}
    BY <2>1, FS_EmptySet
  <2>2. CASE SeriesOf(p) # {}
    <3>1. PICK s : SeriesOf(p) = {s}
      BY <2>2
    <3> QED
      BY <3>1, FS_Singleton
  <2> QED
    BY <2>1, <2>2
<1>2. \A u \in SeriesOf(p) : <<u, 1>> \in R /\ <<u, 1>>[1] = u
  <2>1. \A u \in SeriesOf(p) : 1 \in 1..Len(PtsOf(u))
    BY SeriesOfAre
  <2> QED
    BY <2>1, ReadingsAre
<1>3. first \in R /\ \A x \in R \ {first} : Before(order, first, x)
  BY <1>1, <1>2, EndsOfReadings
<1>4. E \in SUBSET R /\ E # {}
  <2>1. PICK u \in SeriesOf(p) : u # first[1]
    <3> HIDE DEF first
    <3> QED
      BY <1>1
  <2>2. <<u, 1>> \in R /\ <<u, 1>>[1] # first[1]
    BY <1>2, <2>1
  <2>3. <<u, 1>> \in E
    BY <2>2
  <2> QED
    BY <2>3
<1>5. r \in E /\ \A x \in E \ {r} : Before(order, r, x)
  BY <1>4, EndsOfReadings
<1>6. r \in R /\ r[1] # first[1]
  BY <1>5
<1>7. D \in SUBSET R /\ first \in D
  BY <1>3, <1>6
<1>8. prev \in D
  BY <1>7, EndsOfReadings
<1>9. prev \in R /\ Before(order, prev, r)
  BY <1>8
<1>10. prev \notin E
  <2> HIDE DEF prev, r, E, D, first
  <2>1. prev # r
    BY <1>6, <1>9, BeforeIs
  <2>2. prev \in E => Before(order, r, prev)
    BY <1>5, <2>1
  <2> QED
    BY <1>6, <1>9, <2>2, BeforeIs
<1>11. prev[1] = first[1]
  BY <1>9, <1>10
<1>12. Pid(r) # Pid(prev)
  <2>1. \A x \in R : x[1] \in DOMAIN system.procs /\ system.procs[x[1]].proc = p
    BY ReadingsAre DEF SeriesOf
  <2> QED
    BY <1>6, <1>9, <1>11, <2>1, SeriesAre DEF Pid
<1>13. r \in Restarts(R, order)
  BY <1>6, <1>7, <1>12 DEF Restarts, RestartsAfter
<1> QED
  BY <1>13

----------------------------------------------------------------------------
(* The suspects, ranked.                                                   *)

\* What is reported of a process, and when.
SuspectOf(p, order) ==
    [name |-> p, growth |-> Growth(ReadingsOf(p), order),
     restarted |-> Restarts(ReadingsOf(p), order) # {}, concurrent |-> Concurrent(ReadingsOf(p))]
Suspected(p, order) ==
    p \in Procs /\ Cardinality(ReadingsOf(p)) >= 2 /\ Growth(ReadingsOf(p), order) > 0

\* There are finitely many processes, each with readings.
LEMMA ProcsAre ==
    ASSUME system \in Systems
    PROVE  IsFiniteSet(Procs) /\ Procs \subseteq Nat /\ \A p \in Procs : ReadingsOf(p) # {}
<1> DEFINE f == [s \in DOMAIN system.procs |-> system.procs[s].proc]
<1>1. Procs = Range(f)
  BY DEF Procs, Range
<1>2. f = [s \in DOMAIN system.procs |-> f[s]]
  OBVIOUS
<1> HIDE DEF f
<1>3. IsFiniteSet(Procs)
  BY <1>1, <1>2, SeriesOfAre, FiniteImage
<1>4. Procs \subseteq Nat
  BY SeriesAre DEF Procs
<1>5. ASSUME NEW p \in Procs PROVE ReadingsOf(p) # {}
  <2>1. PICK s : s \in SeriesOf(p)
    BY SeriesOfAre
  <2>2. 1 \in 1..Len(PtsOf(s))
    BY <2>1, SeriesOfAre
  <2> QED
    BY <2>1, <2>2, ReadingsAre
<1> QED
  BY <1>3, <1>4, <1>5

\* The suspects are the processes that grew, each with its own figures.
LEMMA SuspectsAre ==
    ASSUME system \in Systems, NEW order, IsOrder(order)
    PROVE  /\ IsFiniteSet(AllSuspects(order))
           /\ \A p : Suspected(p, order) => SuspectOf(p, order) \in AllSuspects(order)
           /\ \A s \in AllSuspects(order) :
                 /\ s = SuspectOf(s.name, order) /\ Suspected(s.name, order)
                 /\ s.name \in Nat /\ s.growth \in Int /\ s.growth > 0
<1> DEFINE P == {q \in Procs : Cardinality(ReadingsOf(q)) >= 2 /\ Growth(ReadingsOf(q), order) > 0}
           f == [p \in P |-> SuspectOf(p, order)]
<1>1. AllSuspects(order) = Range(f)
  BY DEF AllSuspects, SuspectOf, Range
<1>2. \A p : p \in P <=> Suspected(p, order)
  BY DEF Suspected
<1>3. IsFiniteSet(P)
  BY ProcsAre, FS_Subset
<1>4. f = [p \in P |-> f[p]] /\ \A p \in P : f[p] = SuspectOf(p, order)
  OBVIOUS
<1>5. P \subseteq Procs
  OBVIOUS
<1> HIDE DEF f, P
<1>6. IsFiniteSet(AllSuspects(order))
  BY <1>1, <1>3, <1>4, FiniteImage
<1>7. \A s \in AllSuspects(order) : \E p \in P : s = SuspectOf(p, order)
  BY <1>1, <1>4 DEF Range
<1>8. \A p \in P : SuspectOf(p, order) \in AllSuspects(order)
  BY <1>1, <1>4 DEF Range
<1>9. \A p : SuspectOf(p, order).name = p /\ SuspectOf(p, order).growth = Growth(ReadingsOf(p), order)
  BY DEF SuspectOf
<1>10. ASSUME NEW s \in AllSuspects(order)
       PROVE  /\ s = SuspectOf(s.name, order) /\ Suspected(s.name, order)
              /\ s.name \in Nat /\ s.growth \in Int /\ s.growth > 0
  <2>1. PICK p \in P : s = SuspectOf(p, order)
    BY <1>7
  <2>2. s.name = p /\ s.growth = Growth(ReadingsOf(p), order)
    BY <1>9, <2>1
  <2>3. Suspected(p, order)
    BY <1>2
  <2>4. p \in Procs /\ Growth(ReadingsOf(p), order) > 0
    BY <2>3 DEF Suspected
  <2>5. Growth(ReadingsOf(p), order) \in Int
    BY <2>4, ProcsAre, GrowthIs
  <2> QED
    BY <2>1, <2>2, <2>3, <2>4, <2>5, ProcsAre
<1> QED
  BY <1>2, <1>6, <1>8, <1>10

\* The list has each suspect once, the larger before the smaller.
IsRanking(all, S) ==
    /\ all \in Seq(S) /\ Len(all) = Cardinality(S) /\ DOMAIN all = 1..Len(all)
    /\ \A s \in S : \E k \in 1..Len(all) : all[k] = s
    /\ \A j, k \in 1..Len(all) : j < k => RanksAbove(all[j], all[k])

\* The ranking has every suspect once, the larger first.
LEMMA RankedIs ==
    ASSUME system \in Systems, NEW order, IsOrder(order)
    PROVE  IsRanking(Ranked(AllSuspects(order)), AllSuspects(order))
<1> DEFINE S == AllSuspects(order)
           n == Cardinality(S)
           Rel == {x \in S \X S : RanksAbove(x[1], x[2])}
           at(s) == PlaceIn(S, Rel, s)
           all == Ranked(S)
<1>1. \A x, y \in S : <<x, y>> \in Rel <=> RanksAbove(x, y)
  OBVIOUS
<1> HIDE DEF Rel
<1>2. \A s \in S : s.name \in Nat /\ s.growth \in Int
  BY SuspectsAre
<1>3. \A x, y \in S : x.name = y.name => x = y
  BY SuspectsAre
<1>4. IsFiniteSet(S)
  BY SuspectsAre
<1> HIDE DEF S
<1>5. Orders(S, Rel)
  BY <1>1, <1>2, <1>3 DEF Orders, RanksAbove
<1>6. \A s \in S : {x \in S : RanksAbove(x, s)} = {x \in S : <<x, s>> \in Rel}
  BY <1>1
<1>7. \A s \in S : at(s) = Cardinality({x \in S : RanksAbove(x, s)})
  BY <1>6 DEF PlaceIn
<1>8. n \in Nat
  BY <1>4, FS_CardinalityType
<1>9. /\ \A x \in S : at(x) \in 0..n-1
      /\ \A x, z \in S : <<x, z>> \in Rel => at(x) < at(z)
      /\ \A x, z \in S : at(x) = at(z) => x = z
      /\ \A k \in 1..n : \E x \in S : at(x) = k - 1
  BY <1>4, <1>5, PlaceIs
<1>10. all = [k \in 1..n |-> CHOOSE s \in S : Cardinality({x \in S : RanksAbove(x, s)}) = k - 1]
  BY DEF Ranked
<1>11. \A k \in 1..n : all[k] = CHOOSE s \in S : Cardinality({x \in S : RanksAbove(x, s)}) = k - 1
  BY <1>10
<1>12. DOMAIN all = 1..n /\ all = [k \in 1..n |-> all[k]]
  BY <1>10
<1> HIDE DEF all, n
<1>13. ASSUME NEW k \in 1..n
       PROVE  all[k] \in S /\ at(all[k]) = k - 1
  <2>1. \E s \in S : Cardinality({x \in S : RanksAbove(x, s)}) = k - 1
    BY <1>7, <1>9
  <2>2. all[k] \in S /\ Cardinality({x \in S : RanksAbove(x, all[k])}) = k - 1
    BY <1>11, <2>1
  <2> QED
    BY <1>7, <2>2
<1> HIDE DEF at
<1>14. all \in Seq(S) /\ Len(all) = n
  <2>1. all \in Seq(S)
    BY <1>8, <1>12, <1>13, SeqIs
  <2> QED
    BY <1>8, <1>12, <2>1
<1>15. ASSUME NEW s \in S PROVE \E k \in 1..n : all[k] = s
  <2>1. at(s) + 1 \in 1..n
    BY <1>8, <1>9
  <2>2. at(all[at(s) + 1]) = at(s) /\ all[at(s) + 1] \in S
    BY <1>8, <1>9, <1>13, <2>1
  <2> QED
    BY <1>9, <2>1, <2>2
<1>16. ASSUME NEW j \in 1..n, NEW k \in 1..n, j < k
       PROVE  RanksAbove(all[j], all[k])
  <2>1. all[j] \in S /\ all[k] \in S /\ at(all[j]) = j - 1 /\ at(all[k]) = k - 1
    BY <1>13
  <2>2. ~(at(all[k]) < at(all[j])) /\ all[j] # all[k]
    BY <1>8, <1>16, <2>1
  <2> QED
    BY <1>1, <1>5, <1>9, <2>1, <2>2 DEF Orders
<1> QED
  BY <1>12, <1>14, <1>15, <1>16 DEF IsRanking, all, n, S

\* What is shown: suspects, and of those that are meant all or enough larger ones.
LEMMA ShownIs ==
    ASSUME system \in Systems, NEW order, IsOrder(order), NEW shown,
           shown = Shown(AllSuspects(order))
    PROVE  /\ \A s \in Range(shown) : s \in AllSuspects(order)
           /\ \A s \in AllSuspects(order) : Meaningful(s) =>
                 \/ s \in Range(shown)
                 \/ Len(shown) = MaxSuspects /\ \A x \in Range(shown) : x.growth >= s.growth
<1> DEFINE S == AllSuspects(order)
           all == Ranked(S)
           L == {k \in DOMAIN all : Meaningful(all[k])}
           n == Cardinality(L)
           m == IF MaxSuspects < n THEN MaxSuspects ELSE n
           picked == Pick(all, L)
<1>1. \A s \in S : s.growth \in Int
  BY SuspectsAre
<1>2. IsRanking(all, S)
  BY RankedIs
<1> HIDE DEF S
<1>3. shown = Upto(picked, MaxSuspects)
  BY DEF Shown, S
<1>4. \A k \in DOMAIN all : k \in L <=> Meaningful(all[k])
  OBVIOUS
<1>5. L \in SUBSET (DOMAIN all)
  OBVIOUS
<1> HIDE DEF all, L
<1>6. all \in Seq(S) /\ DOMAIN all = 1..Len(all) /\ L \in SUBSET (1..Len(all)) /\ Len(all) \in Nat
  BY <1>2, <1>5 DEF IsRanking
<1>7. /\ IsFiniteSet(L) /\ n \in 0..Len(all)
      /\ picked \in Seq(S) /\ Len(picked) = n
      /\ \A k \in 1..n : Ascending(L)[k] \in L /\ picked[k] = all[Ascending(L)[k]]
  BY <1>6, PickIs
<1>8. L \in SUBSET Nat
  BY <1>6
<1>9. /\ \A k \in L : \E j \in 1..n : Ascending(L)[j] = k
      /\ \A i, j \in 1..n : i < j => Ascending(L)[i] < Ascending(L)[j]
  BY <1>7, <1>8, AscendingIs
<1> HIDE DEF n, picked
<1>10. m \in Nat /\ m <= n /\ n \in Nat /\ (m < n => m = MaxSuspects)
  BY <1>6, <1>7, MaxSuspectsAssumption
<1>11. shown = SubSeq(picked, 1, m)
  BY <1>3, <1>7 DEF Upto
<1> HIDE DEF m
<1>12. Len(shown) = m /\ DOMAIN shown = 1..m /\ \A k \in 1..m : shown[k] = picked[k]
  BY <1>7, <1>10, <1>11
<1>13. \A k \in 1..n : picked[k] \in S
  BY <1>7, ElementOfSeq
<1>14. \A x \in Range(shown) : \E k \in 1..m : x = picked[k] /\ k \in 1..n
  BY <1>10, <1>12 DEF Range
<1>15. ASSUME NEW s \in S, Meaningful(s), s \notin Range(shown)
       PROVE  Len(shown) = MaxSuspects /\ \A x \in Range(shown) : x.growth >= s.growth
  <2>1. PICK k \in 1..Len(all) : all[k] = s
    BY <1>2 DEF IsRanking
  <2>2. k \in L
    BY <1>4, <1>6, <1>15, <2>1
  <2>3. PICK j \in 1..n : Ascending(L)[j] = k
    BY <1>9, <2>2
  <2>4. picked[j] = s
    BY <1>7, <2>1, <2>3
  <2>5. j > m
    <3> SUFFICES ASSUME j <= m PROVE FALSE
      BY <1>10
    <3>1. j \in 1..m
      BY <1>10
    <3> QED
      BY <1>12, <1>15, <2>4, <3>1 DEF Range
  <2>6. Len(shown) = MaxSuspects
    BY <1>10, <1>12, <2>5
  <2>7. ASSUME NEW x \in Range(shown) PROVE x.growth >= s.growth
    <3>1. PICK i \in 1..m : x = picked[i] /\ i \in 1..n
      BY <1>14
    <3>2. i < j
      BY <1>10, <2>5
    <3>3. Ascending(L)[i] < k /\ Ascending(L)[i] \in L
      BY <1>7, <1>9, <2>3, <3>1, <3>2
    <3>4. x = all[Ascending(L)[i]] /\ Ascending(L)[i] \in 1..Len(all)
      BY <1>6, <1>7, <3>1, <3>3
    <3>5. RanksAbove(x, s)
      BY <1>2, <2>1, <3>3, <3>4 DEF IsRanking
    <3>6. x \in S
      BY <1>13, <3>1
    <3> QED
      BY <1>1, <3>5, <3>6 DEF RanksAbove
  <2> QED
    BY <2>6, <2>7
<1>16. \A x \in Range(shown) : x \in S
  BY <1>13, <1>14
<1> QED
  BY <1>15, <1>16 DEF S

\* The sum is no less than each of its terms.
LEMMA ExplainedIs ==
    ASSUME NEW S, \A s \in S : s.growth \in Nat, NEW all \in Seq(S)
    PROVE  TwiceExplained(all) \in Nat /\ \A k \in 1..Len(all) : all[k].growth <= TwiceExplained(all)
<1> DEFINE n == Len(all)
           grown(k) == all[k].growth
           Q(g) == g = [k \in 0..n |-> IF k = 0 THEN 0 ELSE g[k-1] + grown(k)]
           total == CHOOSE g : Q(g)
           step == [k \in 1..n |-> [x \in Nat |-> x + grown(k)]]
<1>1. n \in Nat /\ \A k \in 1..n : grown(k) \in Nat
  BY ElementOfSeq
<1>2. TwiceExplained(all) = total[n]
  BY DEF TwiceExplained
<1> HIDE DEF n, grown
<1>3. step \in [1..n -> [Nat -> Nat]] /\ \A k \in 1..n : \A x \in Nat : step[k][x] = x + grown(k)
  BY <1>1
<1> HIDE DEF step
<1>4. PICK g : Iterates(Nat, 0, n, step, g)
  BY <1>1, <1>3, IterationExists
<1>5. g \in [0..n -> Nat] /\ g[0] = 0 /\ \A k \in 1..n : g[k] = step[k][g[k-1]]
  BY <1>4 DEF Iterates
<1>6. \A k \in 1..n : g[k] = g[k-1] + grown(k)
  <2>1. \A k \in 1..n : g[k-1] \in Nat
    <3>1. \A k \in 1..n : k - 1 \in 0..n
      BY <1>1
    <3> QED
      BY <1>5, <3>1
  <2> QED
    BY <1>3, <1>5, <2>1
<1>7. Q(g)
  <2>1. \A k \in 0..n : g[k] = IF k = 0 THEN 0 ELSE g[k-1] + grown(k)
    <3>1. \A k \in 0..n : k = 0 \/ k \in 1..n
      BY <1>1
    <3> QED
      BY <1>5, <1>6, <3>1
  <2>2. g = [k \in 0..n |-> g[k]]
    BY <1>5
  <2> QED
    BY <2>1, <2>2
<1>8. Q(total)
  <2> HIDE DEF Q
  <2> QED
    BY <1>7
<1> HIDE DEF total
<1>9. \A k \in 0..n : total[k] = IF k = 0 THEN 0 ELSE total[k-1] + grown(k)
  BY <1>8
<1>10. total[0] = 0 /\ \A k \in 1..n : total[k] = total[k-1] + grown(k)
  <2>1. \A k \in 1..n : k \in 0..n /\ k # 0
    BY <1>1
  <2> QED
    BY <1>1, <1>9, <2>1
<1> HIDE DEF Q
<1> DEFINE T == {k \in 0..n : total[k] \in Nat /\ \A j \in 1..k : grown(j) <= total[k]}
<1>11. 0 \in T
  BY <1>1, <1>10
<1>12. ASSUME NEW k \in 1..n, k - 1 \in T
       PROVE  k \in T
  <2>1. total[k] = total[k-1] + grown(k) /\ total[k-1] \in Nat /\ grown(k) \in Nat
    BY <1>1, <1>10, <1>12
  <2>2. \A j \in 1..(k-1) : grown(j) <= total[k-1]
    BY <1>12
  <2>3. k \in 0..n
    BY <1>1
  <2>4. ASSUME NEW j \in 1..k PROVE grown(j) <= total[k]
    <3>1. j \in 1..n /\ grown(j) \in Nat
      BY <1>1
    <3>2. CASE j = k
      BY <2>1, <3>2
    <3>3. CASE j # k
      <4>1. j \in 1..(k-1)
        BY <3>3
      <4> QED
        BY <2>1, <2>2, <3>1, <4>1
    <3> QED
      BY <3>2, <3>3
  <2> QED
    BY <2>1, <2>3, <2>4
<1> HIDE DEF T
<1>13. \A k \in 0..n : k \in T
  BY <1>1, <1>11, <1>12, AllUpto
<1>14. n \in T
  BY <1>1, <1>13
<1> QED
  BY <1>2, <1>14 DEF T, n, grown

\* The decline is a number.
LEMMA DropIs ==
    ASSUME system \in Systems
    PROVE  DropKB \in Int
<1>1. \A k \in 1..3 : system.avail[k] \in Seq(Point)
  BY SystemsAssumption
<1>2. CASE ~HasTrend
  BY <1>2 DEF DropKB
<1>3. CASE HasTrend
  <2> DEFINE k == CHOOSE x \in Usable : \A l \in Usable : x <= l
             pts == system.avail[k]
  <2>1. Usable \in SUBSET Nat /\ Usable # {}
    BY <1>3 DEF Usable, HasTrend
  <2>2. \E x \in Usable : \A l \in Usable : x <= l
    BY <2>1, LeastNumber
  <2>3. k \in Usable
    BY <2>2
  <2> HIDE DEF k
  <2>4. pts \in Seq(Point) /\ Len(pts) >= 2
    BY <1>1, <2>3 DEF Usable
  <2> HIDE DEF pts
  <2>5. 1 \in 1..Len(pts) /\ Len(pts) \in 1..Len(pts)
    BY <2>4
  <2>6. pts[1] \in Point /\ pts[Len(pts)] \in Point
    BY <2>4, <2>5, ElementOfSeq
  <2>7. Trend = (pts[1].kb - pts[Len(pts)].kb) * (IF k = 3 THEN KbPerMiB ELSE 1)
    BY DEF Trend, k, pts
  <2> QED
    BY <1>3, <2>6, <2>7 DEF DropKB, Point, KbPerMiB
<1> QED
  BY <1>2, <1>3

\* A process that ran through and gained enough is a suspect.
LEMMA GainedIsSuspected ==
    ASSUME system \in Systems, NEW order, IsOrder(order), NEW p \in Procs, RanThrough(p),
           NetGrowth(p) > 0
    PROVE  SuspectOf(p, order) \in AllSuspects(order) /\ SuspectOf(p, order).growth = 2 * NetGrowth(p)
<1>1. /\ Growth(ReadingsOf(p), order) = 2 * NetGrowth(p) /\ NetGrowth(p) \in Int
      /\ Cardinality(ReadingsOf(p)) < 2 => NetGrowth(p) = 0
  BY RanThroughIs
<1>2. Cardinality(ReadingsOf(p)) \in Nat
  BY ReadingsAre, FS_CardinalityType
<1>3. Suspected(p, order)
  BY <1>1, <1>2 DEF Suspected
<1> QED
  BY <1>1, <1>3, SuspectsAre DEF SuspectOf

----------------------------------------------------------------------------
(* The report.                                                             *)

\* What is said of the processes that are shown, of duplicates and of the kernel.
Blames(shown) ==
    /\ \A s \in Range(shown) :
          /\ s.growth > 0 /\ s.growth <= 2 * Span(s.name)
          /\ RanThrough(s.name) => s.growth = 2 * NetGrowth(s.name) /\ ~s.restarted
          /\ Cardinality(SeriesOf(s.name)) > 1 => s.restarted
    /\ \A p \in Procs :
          RanThrough(p) /\ NetGrowth(p) > 0 /\ NetGrowth(p) * 100 >= MinSuspectPct * DropKB =>
              \/ p \in {s.name : s \in Range(shown)}
              \/ /\ Len(shown) = MaxSuspects
                 /\ \A s \in Range(shown) : s.growth >= 2 * NetGrowth(p)
RunBeside(duplicates) ==
    \A p \in duplicates : \E r, x \in ReadingsOf(p) : r[1] # x[1] /\ At(r) = At(x)
LeftToKernel ==
    \A p \in Procs : RanThrough(p) => NetGrowth(p) * 100 < UserspaceExplainsThreshold * DropKB

\* A process that is shown grew, by what it swung or what it gained.
LEMMA ShownGrew ==
    ASSUME system \in Systems, NEW order, IsOrder(order), NEW s \in AllSuspects(order)
    PROVE  /\ s.growth > 0 /\ s.growth <= 2 * Span(s.name)
           /\ RanThrough(s.name) => s.growth = 2 * NetGrowth(s.name) /\ ~s.restarted
           /\ Cardinality(SeriesOf(s.name)) > 1 => s.restarted
<1> DEFINE p == s.name
<1>1. s = SuspectOf(p, order) /\ Suspected(p, order)
  BY SuspectsAre
<1>2. p \in Procs /\ Growth(ReadingsOf(p), order) > 0
  BY <1>1 DEF Suspected
<1>3. s.growth = Growth(ReadingsOf(p), order) /\ s.restarted = (Restarts(ReadingsOf(p), order) # {})
  BY <1>1 DEF SuspectOf
<1> HIDE DEF p
<1>4. s.growth > 0 /\ s.growth <= 2 * Span(p)
  <2>1. ReadingsOf(p) # {}
    BY <1>2, ProcsAre
  <2> QED
    BY <1>2, <1>3, <2>1, GrowthIs
<1>5. RanThrough(p) => s.growth = 2 * NetGrowth(p) /\ ~s.restarted
  <2> SUFFICES ASSUME RanThrough(p) PROVE s.growth = 2 * NetGrowth(p) /\ ~s.restarted
    OBVIOUS
  <2>1. Restarts(ReadingsOf(p), order) = {} /\ Growth(ReadingsOf(p), order) = 2 * NetGrowth(p)
    BY <1>2, RanThroughIs
  <2> QED
    BY <1>3, <2>1
<1>6. Cardinality(SeriesOf(p)) > 1 => s.restarted
  BY <1>3, SeveralRestart
<1> QED
  BY <1>4, <1>5, <1>6 DEF p

\* What is shown is blamed for growth only, and leaves out only what is little or smaller.
LEMMA ShownAreBlamed ==
    ASSUME system \in Systems, NEW order, IsOrder(order), NEW shown,
           shown = Shown(AllSuspects(order))
    PROVE  Blames(shown)
<1>1. \A s \in Range(shown) : s \in AllSuspects(order)
  BY ShownIs
<1>2. \A s \in Range(shown) :
          /\ s.growth > 0 /\ s.growth <= 2 * Span(s.name)
          /\ RanThrough(s.name) => s.growth = 2 * NetGrowth(s.name) /\ ~s.restarted
          /\ Cardinality(SeriesOf(s.name)) > 1 => s.restarted
  BY <1>1, ShownGrew
<1>3. ASSUME NEW p \in Procs, RanThrough(p), NetGrowth(p) > 0,
             NetGrowth(p) * 100 >= MinSuspectPct * DropKB
      PROVE  \/ p \in {s.name : s \in Range(shown)}
             \/ /\ Len(shown) = MaxSuspects
                /\ \A s \in Range(shown) : s.growth >= 2 * NetGrowth(p)
  <2> DEFINE t == SuspectOf(p, order)
  <2>1. t.name = p
    BY DEF SuspectOf
  <2>2. t \in AllSuspects(order) /\ t.growth = 2 * NetGrowth(p)
    BY <1>3, GainedIsSuspected
  <2> HIDE DEF t
  <2>3. NetGrowth(p) \in Int /\ DropKB \in Int
    BY <1>3, DropIs, SuspectsAre, RanThroughIs
  <2>4. Meaningful(t)
    BY <1>3, <2>2, <2>3 DEF Meaningful, MinSuspectPct
  <2>5. \/ t \in Range(shown)
        \/ Len(shown) = MaxSuspects /\ \A x \in Range(shown) : x.growth >= t.growth
    BY <2>2, <2>4, ShownIs
  <2> QED
    BY <2>1, <2>2, <2>5
<1> QED
  BY <1>2, <1>3 DEF Blames

\* Two instances at one time are of two series.
LEMMA DuplicatesAre ==
    ASSUME system \in Systems, NEW order, IsOrder(order), NEW duplicates,
           duplicates = {s.name : s \in {x \in AllSuspects(order) : x.concurrent}}
    PROVE  RunBeside(duplicates)
<1> SUFFICES ASSUME NEW p \in duplicates
             PROVE  \E r, x \in ReadingsOf(p) : r[1] # x[1] /\ At(r) = At(x)
  BY DEF RunBeside
<1>1. PICK s \in AllSuspects(order) : s.concurrent /\ s.name = p
  OBVIOUS
<1>2. s = SuspectOf(p, order)
  BY <1>1, SuspectsAre
<1>3. Concurrent(ReadingsOf(p))
  BY <1>1, <1>2 DEF SuspectOf
<1>4. PICK r \in ReadingsOf(p), x \in ReadingsOf(p) : At(r) = At(x) /\ Pid(r) # Pid(x)
  BY <1>3 DEF Concurrent
<1> QED
  BY <1>4 DEF Pid

\* If suspects explain too little, so does what any one process gained.
LEMMA KernelIs ==
    ASSUME system \in Systems, NEW order, IsOrder(order), KernelLikely(AllSuspects(order))
    PROVE  LeftToKernel
<1> DEFINE all == Ranked(AllSuspects(order))
           sum == TwiceExplained(all)
<1> SUFFICES ASSUME NEW p \in Procs, RanThrough(p)
             PROVE  NetGrowth(p) * 100 < UserspaceExplainsThreshold * DropKB
  BY DEF LeftToKernel
<1>1. DropKB > 0 /\ sum * 100 < 2 * UserspaceExplainsThreshold * DropKB
  BY DEF KernelLikely
<1>2. NetGrowth(p) \in Int /\ DropKB \in Int
  BY DropIs, SuspectsAre, RanThroughIs
<1>3. \A s \in AllSuspects(order) : s.growth \in Nat
  <2>1. \A s \in AllSuspects(order) : s.growth \in Int /\ s.growth > 0
    BY SuspectsAre
  <2> QED
    BY <2>1
<1>4. IsRanking(all, AllSuspects(order))
  BY RankedIs
<1> HIDE DEF all
<1>5. all \in Seq(AllSuspects(order))
  BY <1>4 DEF IsRanking
<1>6. sum \in Nat /\ \A k \in 1..Len(all) : all[k].growth <= sum
  BY <1>3, <1>5, ExplainedIs
<1> HIDE DEF sum
<1>7. NetGrowth(p) > 0 => 2 * NetGrowth(p) <= sum
  <2> SUFFICES ASSUME NetGrowth(p) > 0 PROVE 2 * NetGrowth(p) <= sum
    OBVIOUS
  <2>1. SuspectOf(p, order) \in AllSuspects(order) /\ SuspectOf(p, order).growth = 2 * NetGrowth(p)
    BY GainedIsSuspected
  <2>2. PICK k \in 1..Len(all) : all[k] = SuspectOf(p, order)
    BY <1>4, <2>1 DEF IsRanking
  <2> QED
    BY <1>6, <2>1, <2>2
<1> QED
  BY <1>1, <1>2, <1>6, <1>7 DEF UserspaceExplainsThreshold

----------------------------------------------------------------------------
(* The walk and the analysis keep the evidence.                            *)

\* Where the walk is; after the last file nothing awaits its kill.
WalkIs ==
    /\ system \in Systems /\ sorted \in BOOLEAN
    /\ file \in 1..Len(system.files) + 1 /\ line \in Nat
    /\ file <= Len(system.files) => line <= Len(OOMText)
    /\ file > Len(system.files) => line = 0 /\ invoked = <<>>

\* What was found so far, and what the report says when there is one.
WalkFound == ~sorted => Awaits(file, line, invoked) /\ Found(file, line, invoked, ooms)
ReportIs ==
    report.done =>
        /\ Blames(report.suspects) /\ RunBeside(report.duplicates)
        /\ report.kernel => LeftToKernel

\* The inductive invariant.
MemInv == WalkIs /\ WalkFound /\ (sorted => OOMsPaired) /\ ReportIs

\* The invariant says what the property does.
LEMMA MemInvGivesBlame ==
    ASSUME MemInv PROVE BlameFollowsEvidence
BY DEF MemInv, ReportIs, BlameFollowsEvidence, BlamedForGrowth, DuplicatesRanBeside, KernelIsLeft,
       Blames, RunBeside, LeftToKernel

\* The archive stays, and with it what it is evidence of.
LEMMA EvidenceStays ==
    ASSUME system' = system
    PROVE  /\ Incidents' = Incidents
           /\ \A f, l, w, e : Awaits(f, l, w)' = Awaits(f, l, w)
           /\ \A f, l, w, e : Found(f, l, w, e)' = Found(f, l, w, e)
<1>1. \A s : OOMLines(s)' = OOMLines(s)
  BY DEF OOMLines
<1>2. \A y, k : EventOf(y, k)' = EventOf(y, k)
  BY DEF EventOf, LineTime
<1>3. \A y, k : Answers(y, k)' = Answers(y, k)
  BY <1>1 DEF Answers
<1>4. Incidents' = Incidents
  BY DEF Incidents, EventOf, LineTime, Answers, OOMLines
<1>5. KillerLines' = KillerLines /\ Invocations' = Invocations
  BY <1>1 DEF KillerLines, Invocations
<1>6. \A f, l, w : Awaits(f, l, w)' = Awaits(f, l, w)
  BY <1>2, <1>5 DEF Awaits
<1>7. \A f, l, w, e : Found(f, l, w, e)' = Found(f, l, w, e)
  BY <1>4 DEF Found, Passed, AwaitedBy
<1> QED
  BY <1>4, <1>6, <1>7

\* What the readings show stays with the archive.
LEMMA ReportSame ==
    ASSUME system' = system
    PROVE  /\ \A s : Blames(s)' = Blames(s)
           /\ \A d : RunBeside(d)' = RunBeside(d)
           /\ LeftToKernel' = LeftToKernel
<1>1. Procs' = Procs /\ DropKB' = DropKB
  BY DEF Procs, DropKB, HasTrend, Trend, Usable
<1>2. \A p : SeriesOf(p)' = SeriesOf(p) /\ ReadingsOf(p)' = ReadingsOf(p)
  BY DEF SeriesOf, ReadingsOf
<1>3. \A r : At(r)' = At(r) /\ Kb(r)' = Kb(r)
  BY DEF At, Kb
<1>4. \A p : Span(p)' = Span(p)
  BY DEF Span, ReadingsOf, SeriesOf, Kb
<1>5. \A p : RanThrough(p)' = RanThrough(p) /\ NetGrowth(p)' = NetGrowth(p)
  BY DEF RanThrough, NetGrowth, ReadingsOf, SeriesOf, Kb
<1>6. \A s : Blames(s)' = Blames(s)
  BY <1>1, <1>2, <1>4, <1>5 DEF Blames
<1>7. \A d : RunBeside(d)' = RunBeside(d)
  BY <1>2, <1>3 DEF RunBeside
<1>8. LeftToKernel' = LeftToKernel
  BY <1>1, <1>5 DEF LeftToKernel
<1> QED
  BY <1>6, <1>7, <1>8

\* A report that followed from them still does.
LEMMA ReportStays ==
    ASSUME system' = system, report' = report, ReportIs
    PROVE  ReportIs'
BY ReportSame DEF ReportIs

----------------------------------------------------------------------------
(* Every step.                                                             *)

\* A line is read of a file that is scanned.
LEMMA LineIs ==
    ASSUME MemInv, NEW says, ReadsLine(says)
    PROVE  /\ system \in Systems /\ ~sorted /\ file \in 1..Len(system.files)
           /\ system.files[file].scanned /\ line \in Nat
           /\ line < Len(system.files[file].lines)
           /\ system.files[file].lines[line + 1] = NextOOMLine /\ NextOOMLine.says = says
           /\ line' = line + 1 /\ line + 1 <= Len(OOMText)
           /\ Awaits(file, line, invoked) /\ Found(file, line, invoked, ooms)
<1>1. /\ system \in Systems /\ ~sorted /\ file \in 1..Len(system.files) + 1
      /\ line \in Nat /\ file <= Len(system.files) /\ line < Len(OOMText)
      /\ NextOOMLine.says = says /\ line' = line + 1
      /\ Awaits(file, line, invoked) /\ Found(file, line, invoked, ooms)
  BY DEF MemInv, WalkIs, WalkFound, ReadsLine, Reading
<1>2. Len(system.files) \in Nat
  BY <1>1, FilesAre
<1>3. file \in 1..Len(system.files)
  BY <1>1, <1>2
<1>4. system.files[file].scanned
  <2> SUFFICES ASSUME ~system.files[file].scanned PROVE FALSE
    OBVIOUS
  <2>1. Len(OOMText) = 0
    BY DEF OOMText
  <2> QED
    BY <1>1, <2>1
<1>5. OOMText = system.files[file].lines
  BY <1>4 DEF OOMText
<1>6. file \in DOMAIN system.files
  BY <1>1, <1>3, FilesAre
<1>7. Len(OOMText) \in Nat
  BY <1>1, <1>5, <1>6, FilesAre
<1> QED
  BY <1>1, <1>3, <1>4, <1>5, <1>7 DEF NextOOMLine

\* What a line leaves as it is, and what is left to show.
LEMMA LineKeeps ==
    ASSUME MemInv, NEW says, ReadsLine(says), UNCHANGED <<system, file, sorted, report>>,
           Awaits(file, line + 1, invoked') /\ Found(file, line + 1, invoked', ooms')
    PROVE  MemInv'
<1>1. /\ system \in Systems /\ ~sorted /\ file \in 1..Len(system.files)
      /\ line \in Nat /\ line' = line + 1 /\ line + 1 <= Len(OOMText)
  BY LineIs
<1>2. Len(system.files) \in Nat
  BY <1>1, FilesAre
<1>3. WalkIs'
  <2>1. OOMText' = OOMText
    BY DEF OOMText
  <2>2. file \in 1..Len(system.files) + 1 /\ ~(file > Len(system.files)) /\ line + 1 \in Nat
    BY <1>1, <1>2
  <2>3. sorted \in BOOLEAN
    BY DEF MemInv, WalkIs
  <2> QED
    BY <1>1, <2>1, <2>2, <2>3 DEF WalkIs
<1>4. WalkFound'
  <2>1. Awaits(file, line, invoked)' /\ Found(file, line, invoked, ooms)'
    BY <1>1, EvidenceStays
  <2> QED
    BY <2>1 DEF WalkFound
<1>5. ReportIs'
  BY ReportStays DEF MemInv
<1> QED
  BY <1>1, <1>3, <1>4, <1>5 DEF MemInv

\* Invoke keeps the invariant: one more invocation awaits its kill.
LEMMA InvokeKeeps ==
    ASSUME MemInv, Invoke PROVE MemInv'
<1>1. ReadsLine("invoked") /\ UNCHANGED <<system, file, sorted, report>>
      /\ ooms' = ooms \o invoked /\ invoked' = <<Invocation(NextOOMLine)>>
  BY DEF Invoke
<1>2. Invocation(NextOOMLine) = EventOf(<<file, line + 1>>, <<>>)
  BY <1>1, LineIs DEF Invocation, EventOf, Place, LineTime
<1>3. Awaits(file, line + 1, invoked') /\ Found(file, line + 1, invoked', ooms')
  BY <1>1, <1>2, LineIs, InvokeStep
<1> QED
  BY <1>1, <1>3, LineKeeps

\* What a kill adds to an event.
LEMMA KilledByIs ==
    ASSUME NEW l, NEW at, NEW by, NEW killed, NEW raw
    PROVE  KilledBy([at |-> at, by |-> by, killed |-> killed, raw |-> raw], l)
               = [at |-> IF at = 0 THEN l.at ELSE at, by |-> by, killed |-> Place, raw |-> raw]
<1> DEFINE e == [at |-> at, by |-> by, killed |-> killed, raw |-> raw]
           v == IF at = 0 THEN l.at ELSE at
           P == Place
           d == [at |-> at, by |-> by, killed |-> P, raw |-> raw]
<1>1. KilledBy(e, l) = [[e EXCEPT !.killed = P] EXCEPT !.at = v]
  BY DEF KilledBy
<1> HIDE DEF v, P
<1>2. [e EXCEPT !.killed = P] = d
  OBVIOUS
<1>3. [d EXCEPT !.at = v] = [at |-> v, by |-> by, killed |-> P, raw |-> raw]
  OBVIOUS
<1>4. KilledBy(e, l) = [d EXCEPT !.at = v]
  BY <1>1, <1>2
<1> QED
  BY <1>3, <1>4 DEF v, P

\* Kill keeps it: the event is that of the invocation, or of the kill alone.
LEMMA KillKeeps ==
    ASSUME MemInv, Kill PROVE MemInv'
<1> DEFINE e == KilledBy((invoked \o <<KillAlone(NextOOMLine)>>)[1], NextOOMLine)
           n == <<file, line + 1>>
<1>1. ReadsLine("killed") /\ UNCHANGED <<system, file, sorted, report>>
      /\ ooms' = Append(ooms, e) /\ invoked' = <<>>
  BY DEF Kill
<1>2. NextOOMLine.at = LineTime(n) /\ Place = n
  BY <1>1, LineIs DEF Place, LineTime
<1>3. ASSUME invoked = <<>> PROVE e = EventOf(<<>>, n)
  <2>1. (invoked \o <<KillAlone(NextOOMLine)>>)[1] = KillAlone(NextOOMLine)
    BY <1>3
  <2> QED
    BY <1>2, <2>1, KilledByIs DEF KillAlone, EventOf
<1>4. ASSUME NEW y \in Invocations, invoked = <<EventOf(y, <<>>)>> PROVE e = EventOf(y, n)
  <2>1. (invoked \o <<KillAlone(NextOOMLine)>>)[1] = EventOf(y, <<>>)
    BY <1>4
  <2>2. y # <<>> /\ n # <<>>
    BY <1>1, LineIs, KillerLinesAre
  <2>3. EventOf(y, <<>>) = [at |-> LineTime(y), by |-> y, killed |-> <<>>, raw |-> y]
    BY <2>2 DEF EventOf
  <2>4. EventOf(y, n) = [at |-> IF LineTime(y) = 0 THEN LineTime(n) ELSE LineTime(y),
                         by |-> y, killed |-> n, raw |-> y]
    BY <2>2 DEF EventOf
  <2> QED
    BY <1>2, <2>1, <2>3, <2>4, KilledByIs
<1> HIDE DEF e
<1>5. Awaits(file, line + 1, <<>>) /\ Found(file, line + 1, <<>>, Append(ooms, e))
  BY <1>1, <1>3, <1>4, LineIs, KillStep
<1> QED
  BY <1>1, <1>5, LineKeeps

\* Any other line keeps it.
LEMMA OtherKeeps ==
    ASSUME MemInv, OtherOOMLine PROVE MemInv'
<1>1. ReadsLine("other") /\ UNCHANGED <<system, file, invoked, ooms, sorted, report>>
  BY DEF OtherOOMLine
<1>2. Awaits(file, line + 1, invoked) /\ Found(file, line + 1, invoked, ooms)
  BY <1>1, LineIs, OtherStep
<1> QED
  BY <1>1, <1>2, LineKeeps

\* So does the end of a file: nothing awaits its kill in the next one.
LEMMA EndKeeps ==
    ASSUME MemInv, EndOfFile PROVE MemInv'
<1>1. /\ system \in Systems /\ ~sorted /\ file \in 1..Len(system.files) + 1
      /\ line \in Nat /\ file <= Len(system.files) /\ line = Len(OOMText)
      /\ ooms' = ooms \o invoked /\ invoked' = <<>>
      /\ file' = file + 1 /\ line' = 0
      /\ UNCHANGED <<system, sorted, report>>
      /\ Awaits(file, line, invoked) /\ Found(file, line, invoked, ooms)
  BY DEF MemInv, WalkIs, WalkFound, EndOfFile, Reading
<1>2. Len(system.files) \in Nat
  BY <1>1, FilesAre
<1>3. file \in 1..Len(system.files) /\ file \in DOMAIN system.files
  BY <1>1, <1>2, FilesAre
<1>4. AllRead(file, line)
  <2> SUFFICES ASSUME NEW z \in KillerLines, z[1] = file PROVE z[2] <= line
    BY DEF AllRead
  <2>1. system.files[file].scanned /\ z[2] \in 1..Len(system.files[file].lines)
    BY <1>1, OOMLinesAre DEF KillerLines
  <2>2. Len(system.files[file].lines) \in Nat
    BY <1>1, <1>3, FilesAre
  <2> QED
    BY <1>1, <2>1, <2>2 DEF OOMText
<1>5. Awaits(file + 1, 0, <<>>) /\ Found(file + 1, 0, <<>>, ooms \o invoked)
  BY <1>1, <1>3, <1>4, EndStep
<1>6. WalkIs'
  <2>1. file + 1 \in 1..Len(system.files) + 1
    BY <1>2, <1>3
  <2>2. ASSUME file + 1 <= Len(system.files) PROVE 0 <= Len(OOMText')
    <3>1. file + 1 \in DOMAIN system.files
      BY <1>1, <1>2, <1>3, <2>2, FilesAre
    <3>2. Len(system.files[file + 1].lines) \in Nat
      BY <1>1, <3>1, FilesAre
    <3> QED
      BY <1>1, <3>2 DEF OOMText
  <2>3. system' \in Systems /\ sorted' \in BOOLEAN /\ 0 \in Nat
    BY <1>1 DEF MemInv, WalkIs
  <2> QED
    BY <1>1, <2>1, <2>2, <2>3 DEF WalkIs
<1>7. WalkFound'
  <2>1. Awaits(file, line, invoked)' /\ Found(file, line, invoked, ooms)'
    BY <1>1, <1>5, EvidenceStays
  <2> QED
    BY <2>1 DEF WalkFound
<1>8. ReportIs'
  BY <1>1, ReportStays DEF MemInv
<1> QED
  BY <1>1, <1>6, <1>7, <1>8 DEF MemInv

\* Sorting keeps it: all is read, and every incident is in the list once.
LEMMA SortKeeps ==
    ASSUME MemInv, SortOOMs PROVE MemInv'
<1>1. /\ system \in Systems /\ file \in 1..Len(system.files) + 1 /\ file > Len(system.files)
      /\ line = 0 /\ invoked = <<>> /\ sorted' = TRUE
      /\ UNCHANGED <<system, file, line, invoked, report>>
      /\ Found(file, line, invoked, ooms)
  BY DEF MemInv, WalkIs, WalkFound, SortOOMs
<1>2. Len(system.files) \in Nat
  BY <1>1, FilesAre
<1>3. Found(Len(system.files) + 1, 0, <<>>, ooms)
  <2>1. file = Len(system.files) + 1
    BY <1>1, <1>2
  <2> QED
    BY <1>1, <2>1
<1>4. PICK p \in [DOMAIN ooms -> DOMAIN ooms] :
          IsInjective(p) /\ ooms' = [k \in DOMAIN p |-> ooms[p[k]]]
  BY DEF SortOOMs
<1>5. Range(ooms') = Incidents /\ Len(ooms') = Cardinality(Incidents)
  BY <1>1, <1>3, <1>4, SortedIncidents
<1>6. OOMsPaired'
  <2>1. Incidents' = Incidents
    BY <1>1, EvidenceStays
  <2> QED
    BY <1>5, <2>1 DEF OOMsPaired, Range
<1>7. WalkIs'
  BY <1>1 DEF MemInv, WalkIs, OOMText
<1>8. ReportIs'
  BY <1>1, ReportStays DEF MemInv
<1> QED
  BY <1>1, <1>6, <1>7, <1>8 DEF MemInv, WalkFound

\* The analysis keeps it: the report is of the suspects, in whatever order.
LEMMA AnalyzeKeeps ==
    ASSUME MemInv, AnalyzeMemory PROVE MemInv'
<1>1. /\ system \in Systems /\ sorted
      /\ UNCHANGED <<system, file, line, invoked, ooms, sorted>>
  BY DEF MemInv, WalkIs, AnalyzeMemory
<1>2. PICK order \in [DOMAIN system.procs -> DOMAIN system.procs] :
          IsInjective(order) /\ report' = ReportOn(AllSuspects(order))
  BY DEF AnalyzeMemory
<1>3. IsOrder(order)
  BY <1>2 DEF IsOrder
<1>4. /\ report'.suspects = Shown(AllSuspects(order))
      /\ report'.kernel = KernelLikely(AllSuspects(order))
      /\ report'.duplicates = {s.name : s \in {x \in AllSuspects(order) : x.concurrent}}
  BY <1>2 DEF ReportOn
<1>5. /\ Blames(report'.suspects) /\ RunBeside(report'.duplicates)
      /\ report'.kernel => LeftToKernel
  BY <1>1, <1>3, <1>4, ShownAreBlamed, DuplicatesAre, KernelIs
<1>6. ReportIs'
  BY <1>1, <1>5, ReportSame DEF ReportIs
<1>7. WalkIs'
  BY <1>1 DEF MemInv, WalkIs, OOMText
<1>8. OOMsPaired'
  BY <1>1, EvidenceStays DEF MemInv, OOMsPaired
<1> QED
  BY <1>1, <1>6, <1>7, <1>8 DEF MemInv, WalkFound

\* It holds before anything is read.
LEMMA InitMem ==
    ASSUME MemoryInit PROVE MemInv
<1>1. /\ system \in Systems /\ file = 1 /\ line = 0 /\ invoked = <<>> /\ ooms = <<>>
      /\ sorted = FALSE /\ report = NoReport
  BY DEF MemoryInit
<1>2. Len(system.files) \in Nat
  BY <1>1, FilesAre
<1>3. ASSUME 1 <= Len(system.files) PROVE 0 <= Len(OOMText)
  <2>1. Len(system.files[1].lines) \in Nat
    BY <1>1, <1>2, <1>3, FilesAre
  <2> QED
    BY <1>1, <2>1 DEF OOMText
<1>4. WalkIs
  <2>1. 1 \in 1..Len(system.files) + 1 /\ 0 \in Nat
    BY <1>2
  <2> QED
    BY <1>1, <1>3, <2>1 DEF WalkIs
<1>5. \A z \in KillerLines : z[1] \in Nat \ {0} /\ z[2] \in Nat \ {0}
  BY <1>1, <1>2, OOMLinesAre, KillerLinesAre DEF KillerLines
<1>6. Awaits(1, 0, <<>>)
  BY <1>1, <1>5, KillerLinesAre DEF Awaits
<1>7. Found(1, 0, <<>>, <<>>)
  <2>1. \A e \in Incidents : e.raw \in KillerLines
    BY <1>1, KillerLinesAre
  <2>2. \A z \in KillerLines : ~Passed(1, 0, z)
    BY <1>5 DEF Passed
  <2> QED
    BY <2>1, <2>2 DEF Found
<1>8. WalkFound
  BY <1>1, <1>6, <1>7 DEF WalkFound
<1> QED
  BY <1>1, <1>4, <1>8 DEF MemInv, ReportIs, NoReport

\* The report follows from the logs and the counters alone, for every archive and
\* every limit of suspects: each OOM incident is one event, the blame is for growth,
\* a duplicate is no restart, and the kernel is suspected only of what processes did
\* not take (FindOOMEvents, processSuspects, AnalyzeMemory).
THEOREM BlameIsEvidenced == MemorySpec => []BlameFollowsEvidence
<1>1. MemoryInit => MemInv
  BY InitMem
<1>2. MemInv /\ [MemoryNext]_memoryVars => MemInv'
  <2> SUFFICES ASSUME MemInv, [MemoryNext]_memoryVars PROVE MemInv'
    OBVIOUS
  <2>1. CASE MemoryNext
    BY <2>1, InvokeKeeps, KillKeeps, OtherKeeps, EndKeeps, SortKeeps, AnalyzeKeeps DEF MemoryNext
  <2>2. CASE UNCHANGED memoryVars
    <3>1. UNCHANGED <<system, file, line, invoked, ooms, sorted, report>>
      BY <2>2 DEF memoryVars
    <3>2. WalkIs'
      BY <3>1 DEF MemInv, WalkIs, OOMText
    <3>3. WalkFound' /\ (sorted => OOMsPaired)'
      BY <3>1, EvidenceStays DEF MemInv, WalkFound, OOMsPaired
    <3>4. ReportIs'
      BY <3>1, ReportStays DEF MemInv
    <3> QED
      BY <3>2, <3>3, <3>4 DEF MemInv
  <2> QED
    BY <2>1, <2>2
<1>3. MemInv => BlameFollowsEvidence
  BY MemInvGivesBlame
<1> QED
  BY <1>1, <1>2, <1>3, PTL DEF MemorySpec

=============================================================================
