--------------------------- MODULE ArchiveProofs ---------------------------
(***************************************************************************)
(* Theorems about archives, for every zip, every tar and every cap: an     *)
(* accepted zip is listed as its members, one marker of the firewall       *)
(* decides, and the configuration is the best file that holds one; and     *)
(* about the index of an archive (SearchIndex): it misses no file, lists   *)
(* every member and tiles the blob.                                        *)
(***************************************************************************)
EXTENDS Archive, SearchIndex, SelectionProofs

ArchiveTypes ==
    /\ zip \in Seq(ZipMember) /\ next \in 0..Len(zip)
    /\ written \in Nat /\ remaining \in Nat
    /\ archive \in Tar /\ upload \in {"converting", "stored", "refused"}

\* The first n members of the zip that are converted, and what becomes of one.
Readable(n) == {k \in 1..n : ~Skipped(zip[k])}

Converted(m) ==
    [path |-> NameOf(m), reg |-> TRUE, size |-> m.declared, got |-> m.got, root |-> m.root,
     head |-> m.head]

\* The tar of a zip: its readable members so far, which take what is no longer left
\* under the cap, and what the tar adds to them.
ConversionInv ==
    upload = "converting" \/ zip # <<>> =>
        /\ written = Cardinality(Readable(next)) /\ Len(archive.members) = written
        /\ \A k \in 1..written :
              archive.members[k] = Converted(zip[Ascending(Readable(next))[k]])
        /\ Offset(archive, written + 1) <= (MaxInflatedBytes - remaining) + written * AddedBytes
        /\ upload = "stored" => next = Len(zip)

----------------------------------------------------------------------------
(* Paths.                                                                  *)

Leads == {"./", "/", ".\\", "\\"}

LEMMA TrimIs ==
    ASSUME NEW lead \in Seq(Leads), NEW s
    PROVE  (IF lead # <<>> /\ Head(lead) = s THEN Tail(lead) ELSE lead) \in Seq(Leads)
OBVIOUS

LEMMA NormalizedIs ==
    ASSUME NEW p \in Path
    PROVE  NormalizePath(p) \in Path /\ NormalizePath(p).rest = p.rest
<1> DEFINE trim(lead, s) == IF lead # <<>> /\ Head(lead) = s THEN Tail(lead) ELSE lead
           x == trim(trim(p.lead, "./"), "/")
<1>1. p.lead \in Seq(Leads) /\ p.rest \in Rest
  BY DEF Path, Leads
<1>2. x \in Seq(Leads)
  <2>1. \A l \in Seq(Leads) : \A s : trim(l, s) \in Seq(Leads)
    BY TrimIs
  <2> HIDE DEF trim
  <2> QED BY <1>1, <2>1
<1>3. NormalizePath(p) = [p EXCEPT !.lead = x]
  BY DEF NormalizePath
<1> HIDE DEF x
<1> QED BY <1>1, <1>2, <1>3 DEF Path, Leads

LEMMA SlashedIs ==
    ASSUME NEW p \in Path
    PROVE  Slashed(p) \in Path /\ Slashed(p).rest = p.rest
<1> DEFINE slash(s) == CASE s = ".\\" -> "./" [] s = "\\" -> "/" [] OTHER -> s
           x == [k \in DOMAIN p.lead |-> slash(p.lead[k])]
<1>1. p.lead \in Seq(Leads) /\ p.rest \in Rest
  BY DEF Path, Leads
<1>2. \A s \in Leads : slash(s) \in Leads
  BY DEF Leads
<1>3. Slashed(p) = [p EXCEPT !.lead = x]
  BY DEF Slashed
<1> HIDE DEF slash
<1>4. x \in Seq(Leads)
  BY <1>1, <1>2
<1> HIDE DEF x
<1> QED BY <1>1, <1>3, <1>4 DEF Path, Leads

LEMMA MemberIs ==
    ASSUME NEW m \in ZipMember
    PROVE  /\ Converted(m) \in TarMember
           /\ NameOf(m) \in Path
           /\ ~Skipped(m) => Listed(Converted(m))
<1>1. /\ m.path \in Path /\ m.declared \in Nat /\ m.got \in Nat /\ m.root \in {"config", "other"}
      /\ m.head \in Heads
  BY DEF ZipMember
<1>2. NameOf(m) \in Path
  BY <1>1, SlashedIs, NormalizedIs DEF NameOf
<1>3. Converted(m) \in TarMember
  BY <1>1, <1>2 DEF Converted, TarMember
<1>4. ASSUME ~Skipped(m)
      PROVE  Listed(Converted(m))
  <2> DEFINE p == NameOf(m)
  <2>1. p.rest.number # 0
    BY <1>4 DEF Skipped, EmptyPath, EndsInSlash
  <2>2. NormalizePath(p).rest = p.rest
    BY <1>2, NormalizedIs
  <2>3. Converted(m).path = p
    BY DEF Converted
  <2> HIDE DEF p
  <2> QED BY <2>1, <2>2, <2>3 DEF Listed, EmptyPath
<1> QED BY <1>2, <1>3, <1>4

----------------------------------------------------------------------------
(* Offsets.                                                                *)

LEMMA TarIs ==
    ASSUME NEW a \in Tar
    PROVE  /\ a.members \in Seq(TarMember) /\ Len(a.members) \in Nat
           /\ DOMAIN a.members = 1..Len(a.members) /\ a.broken \in BOOLEAN
           /\ \A i \in 1..Len(a.members) :
                 /\ a.members[i] \in TarMember /\ a.members[i].size \in Nat
                 /\ a.members[i].path \in Path /\ a.members[i].reg \in BOOLEAN
<1>1. a.members \in Seq(TarMember) /\ a.broken \in BOOLEAN
  BY DEF Tar
<1>2. \A i \in 1..Len(a.members) : a.members[i] \in TarMember
  BY <1>1
<1> QED BY <1>1, <1>2 DEF TarMember

\* A member takes its header and its bytes, and a tar adds no more than AddedBytes.
LEMMA PaddedIs ==
    ASSUME NEW n \in Nat
    PROVE  Padded(n) \in Nat /\ n <= Padded(n) /\ Padded(n) < n + BlockBytes
<1> DEFINE B == BlockBytes
           x == n % B
           y == (B - x) % B
<1>1. B \in Nat \ {0}
  BY ArchiveAssumption
<1>2. x \in 0..B-1
  BY <1>1
<1>3. y \in 0..B-1
  <2> HIDE DEF x
  <2>1. B - x \in Int
    BY <1>1, <1>2
  <2> QED BY <1>1, <2>1
<1>4. Padded(n) = n + y
  BY DEF Padded
<1> HIDE DEF y, B
<1>5. n + y \in Nat /\ n <= n + y /\ n + y < n + B
  BY <1>1, <1>3
<1> QED BY <1>4, <1>5 DEF B

LEMMA MemberBytesAre ==
    ASSUME NEW m \in TarMember
    PROVE  /\ HeadBytes(m) \in Nat /\ MemberBytes(m) \in Nat /\ AddedBytes \in Nat
           /\ HeadBytes(m) <= MemberBytes(m)
           /\ MemberBytes(m) <= m.size + AddedBytes
<1> DEFINE B == BlockBytes
           h == m.head
           x == h * B
           z == MaxHeadBlocks * B
           d == Padded(m.size)
<1>1. /\ B \in Nat \ {0} /\ MaxHeadBlocks \in Nat /\ h \in 1..MaxHeadBlocks /\ m.size \in Nat
  BY ArchiveAssumption DEF TarMember, Heads
<1>2. x \in Nat /\ z \in Nat /\ x <= z
  <2> HIDE DEF h, B
  <2>1. PICK e \in Nat : MaxHeadBlocks = h + e
    <3>1. MaxHeadBlocks - h \in Nat /\ MaxHeadBlocks = h + (MaxHeadBlocks - h)
      BY <1>1
    <3> QED BY <3>1
  <2>2. e * B \in Nat /\ h * B \in Nat
    BY <1>1
  <2>3. (h + e) * B = h * B + e * B
    BY <1>1
  <2>4. z = (h + e) * B
    BY <2>1
  <2> DEFINE u == e * B
             v == h * B
  <2> HIDE DEF z, u, v
  <2>5. z = v + u /\ u \in Nat /\ v \in Nat
    BY <2>2, <2>3, <2>4 DEF u, v
  <2>6. x = v
    BY DEF v
  <2> HIDE DEF x
  <2> QED BY <2>5, <2>6
<1>3. d \in Nat /\ m.size <= d /\ d < m.size + B
  BY <1>1, PaddedIs
<1>4. AddedBytes = z + B
  <2> HIDE DEF B
  <2>1. (MaxHeadBlocks + 1) * B = MaxHeadBlocks * B + B
    BY <1>1
  <2> QED BY <2>1 DEF AddedBytes, B
<1>5. HeadBytes(m) = x /\ MemberBytes(m) = x + d
  BY DEF HeadBytes, MemberBytes
<1> HIDE DEF B, h, x, z, d
<1>6. x + d \in Nat /\ z + B \in Nat /\ x <= x + d
  BY <1>1, <1>2, <1>3
<1>7. x + d <= m.size + (z + B)
  BY <1>1, <1>2, <1>3
<1> QED BY <1>2, <1>4, <1>5, <1>6, <1>7

\* Each member starts behind what the one before takes.
LEMMA OffsetIs ==
    ASSUME NEW a \in Tar
    PROVE  /\ Offset(a, 1) = 0
           /\ \A i \in 1..Len(a.members)+1 : Offset(a, i) \in Nat
           /\ \A i \in 1..Len(a.members) :
                 Offset(a, i + 1) = Offset(a, i) + MemberBytes(a.members[i])
<1> DEFINE n == Len(a.members)
           size(k) == MemberBytes(a.members[k])
           R(g) == g = [k \in 0..n |-> IF k = 0 THEN 0 ELSE g[k-1] + size(k)]
           sum == CHOOSE g : R(g)
           step == [k \in 1..n |-> [x \in Nat |-> x + size(k)]]
<1>1. n \in Nat /\ \A k \in 1..n : size(k) \in Nat
  BY TarIs, MemberBytesAre
<1>2. \A i : Offset(a, i) = sum[i - 1]
  BY DEF Offset
<1> HIDE DEF n, size
<1>3. step \in [1..n -> [Nat -> Nat]] /\ \A k \in 1..n : \A x \in Nat : step[k][x] = x + size(k)
  BY <1>1
<1> HIDE DEF step
<1>4. PICK g : Iterates(Nat, 0, n, step, g)
  BY <1>1, <1>3, IterationExists
<1>5. g \in [0..n -> Nat] /\ g[0] = 0 /\ \A k \in 1..n : g[k] = step[k][g[k-1]]
  BY <1>4 DEF Iterates
<1>6. \A k \in 1..n : g[k] = g[k-1] + size(k)
  <2>1. \A k \in 1..n : g[k-1] \in Nat
    <3>1. \A k \in 1..n : k - 1 \in 0..n
      BY <1>1
    <3> QED BY <1>5, <3>1
  <2> QED BY <1>3, <1>5, <2>1
<1>7. R(g)
  <2>1. \A k \in 0..n : g[k] = IF k = 0 THEN 0 ELSE g[k-1] + size(k)
    <3>1. \A k \in 0..n : k = 0 \/ k \in 1..n
      BY <1>1
    <3> QED BY <1>5, <1>6, <3>1
  <2>2. g = [k \in 0..n |-> g[k]]
    BY <1>5
  <2> QED BY <2>1, <2>2
<1>8. R(sum)
  <2> HIDE DEF R
  <2> QED BY <1>7
<1> HIDE DEF sum
<1>9. \A k \in 0..n : sum[k] = IF k = 0 THEN 0 ELSE sum[k-1] + size(k)
  BY <1>8
<1>10. sum[0] = 0 /\ \A k \in 1..n : sum[k] = sum[k-1] + size(k)
  <2>1. \A k \in 1..n : k \in 0..n /\ k # 0
    BY <1>1
  <2> QED BY <1>1, <1>9, <2>1
<1> DEFINE S == {k \in 0..n : sum[k] \in Nat}
<1>11. 0 \in S /\ \A k \in 1..n : k - 1 \in S => k \in S
  <2>1. 0 \in S
    BY <1>1, <1>10
  <2>2. ASSUME NEW k \in 1..n, k - 1 \in S
        PROVE  k \in S
    <3>1. sum[k] = sum[k-1] + size(k) /\ sum[k-1] \in Nat /\ size(k) \in Nat
      BY <1>1, <1>10, <2>2
    <3>2. k \in 0..n
      BY <1>1
    <3> QED BY <1>1, <3>1, <3>2
  <2> QED BY <2>1, <2>2
<1> HIDE DEF S
<1>12. \A k \in 0..n : k \in S
  BY <1>1, <1>11, AllUpto
<1>13. \A k \in 0..n : sum[k] \in Nat
  BY <1>12 DEF S
<1>14. \A i \in 1..n+1 : Offset(a, i) \in Nat
  <2>1. \A i \in 1..n+1 : i - 1 \in 0..n
    BY <1>1
  <2> QED BY <1>2, <1>13, <2>1
<1>15. \A i \in 1..n : Offset(a, i + 1) = Offset(a, i) + size(i)
  <2>1. \A i \in 1..n : (i + 1) - 1 = i
    BY <1>1
  <2> QED BY <1>2, <1>10, <2>1
<1>16. Offset(a, 1) = 0
  <2>1. 1 - 1 = 0
    OBVIOUS
  <2> QED BY <1>2, <1>10, <2>1
<1> QED BY <1>14, <1>15, <1>16 DEF n, size

LEMMA OffsetsRise ==
    ASSUME NEW a \in Tar, NEW i \in 1..Len(a.members), NEW j \in i+1..Len(a.members)+1
    PROVE  DataOffset(a, i) <= Offset(a, j)
<1> DEFINE n == Len(a.members)
           size(k) == MemberBytes(a.members[k])
           x == DataOffset(a, i)
           S == {k \in 0..n+1 : k \in i+1..n+1 => x <= Offset(a, k)}
<1>1. n \in Nat /\ i \in 1..n /\ j \in i+1..n+1
  BY TarIs
<1>2. /\ \A k \in 1..n+1 : Offset(a, k) \in Nat
      /\ \A k \in 1..n : Offset(a, k + 1) = Offset(a, k) + size(k) /\ size(k) \in Nat
  BY OffsetIs, TarIs, MemberBytesAre
<1>3. x \in Nat /\ x <= Offset(a, i) + size(i)
  <2> DEFINE h == HeadBytes(a.members[i])
             y == Offset(a, i)
  <2>1. h \in Nat /\ h <= size(i) /\ size(i) \in Nat
    BY <1>1, TarIs, MemberBytesAre
  <2>2. x = y + h
    BY DEF DataOffset
  <2>3. i \in 1..n+1
    BY <1>1
  <2>4. y \in Nat
    BY <1>2, <2>3
  <2> HIDE DEF h, x, y
  <2>5. x <= y + size(i) /\ x \in Nat
    BY <2>1, <2>2, <2>4
  <2> QED BY <2>5 DEF y
<1> HIDE DEF n, size, x
<1>4. 0 \in S
  BY <1>1
<1>5. ASSUME NEW k \in 1..n+1, k - 1 \in S
      PROVE  k \in S
  <2>1. CASE k \notin i+1..n+1
    BY <1>1, <2>1
  <2>2. CASE k = i + 1
    BY <1>1, <1>2, <1>3, <2>2
  <2>3. CASE k \in i+2..n+1
    <3> DEFINE l == k - 1
    <3>1. l \in 1..n /\ l \in i+1..n+1 /\ l + 1 = k /\ l \in 1..n+1
      BY <1>1, <2>3
    <3>2. x <= Offset(a, l)
      BY <1>5, <3>1
    <3>3. Offset(a, l + 1) = Offset(a, l) + size(l) /\ size(l) \in Nat /\ Offset(a, l) \in Nat
      BY <1>2, <3>1
    <3> HIDE DEF l
    <3>4. x <= Offset(a, l + 1)
      BY <1>3, <3>2, <3>3
    <3> QED BY <3>1, <3>4
  <2>4. k \notin i+1..n+1 \/ k = i + 1 \/ k \in i+2..n+1
    BY <1>1
  <2> QED BY <2>1, <2>2, <2>3, <2>4
<1> HIDE DEF S
<1>6. n + 1 \in Nat /\ j \in 0..n+1
  BY <1>1
<1>7. \A k \in 0..n+1 : k \in S
  BY <1>4, <1>5, <1>6, AllUpto
<1>8. j \in S
  BY <1>6, <1>7
<1> QED BY <1>1, <1>8 DEF S, x

----------------------------------------------------------------------------
(* The conversion.                                                         *)

LEMMA ReadableIs ==
    ASSUME NEW n \in Nat
    PROVE  /\ Readable(n) \in SUBSET Nat /\ IsFiniteSet(Readable(n)) /\ Readable(n) \in SUBSET (1..n)
           /\ Cardinality(Readable(n)) \in Nat
           /\ ~Skipped(zip[n+1]) => Readable(n+1) = Readable(n) \cup {n+1}
           /\ Skipped(zip[n+1]) => Readable(n+1) = Readable(n)
<1>1. Readable(n) \in SUBSET (1..n)
  BY DEF Readable
<1>2. Readable(n) \in SUBSET Nat /\ IsFiniteSet(Readable(n)) /\ Cardinality(Readable(n)) \in 0..n
  BY <1>1, Bounded
<1>3. \A k : k \in 1..n+1 <=> k \in 1..n \/ k = n + 1
  OBVIOUS
<1>4. ~Skipped(zip[n+1]) => Readable(n+1) = Readable(n) \cup {n+1}
  BY <1>3 DEF Readable
<1>5. Skipped(zip[n+1]) => Readable(n+1) = Readable(n)
  BY <1>3 DEF Readable
<1> QED BY <1>1, <1>2, <1>4, <1>5

LEMMA ArchiveStarts == ArchiveInit => ArchiveTypes /\ ConversionInv
<1> SUFFICES ASSUME ArchiveInit
             PROVE  ArchiveTypes /\ ConversionInv
  OBVIOUS
<1>1. next = 0 /\ written = 0 /\ remaining = MaxInflatedBytes /\ MaxInflatedBytes \in Nat
  BY ArchiveAssumption DEF ArchiveInit
<1>2. NoTar \in Tar /\ NoTar.members = <<>>
  <2>1. <<>> \in Seq(TarMember)
    OBVIOUS
  <2> QED BY <2>1 DEF NoTar, Tar
<1>3. \/ zip \in Seq(ZipMember) /\ archive = NoTar /\ upload = "converting"
      \/ zip = <<>> /\ archive \in Tar /\ upload = "stored"
  BY ArchiveAssumption DEF ArchiveInit
<1>4. ArchiveTypes
  <2>1. <<>> \in Seq(ZipMember)
    OBVIOUS
  <2>2. zip \in Seq(ZipMember) /\ archive \in Tar /\ upload \in {"converting", "stored", "refused"}
    BY <1>2, <1>3, <2>1
  <2> QED BY <1>1, <2>2 DEF ArchiveTypes
<1>5. ConversionInv
  <2>1. CASE archive = NoTar /\ upload = "converting"
    <3>1. Readable(next) = {}
      BY <1>1 DEF Readable
    <3>2. Cardinality(Readable(next)) = 0 /\ Len(archive.members) = 0
      BY <1>2, <2>1, <3>1, AscendingEmpty
    <3>3. Offset(archive, 0 + 1) <= (MaxInflatedBytes - MaxInflatedBytes) + 0 * AddedBytes
      <4>1. Offset(archive, 1) = 0
        BY <1>2, <2>1, OffsetIs
      <4>2. AddedBytes \in Nat
        BY ArchiveAssumption DEF AddedBytes
      <4> QED BY <1>1, <4>1, <4>2
    <3> QED BY <1>1, <2>1, <3>2, <3>3 DEF ConversionInv
  <2>2. CASE zip = <<>> /\ upload = "stored"
    BY <2>2 DEF ConversionInv
  <2> QED BY <1>3, <2>1, <2>2
<1> QED BY <1>4, <1>5

LEMMA CurrentIs ==
    ASSUME ArchiveTypes, Converting
    PROVE  Current \in ZipMember /\ next + 1 \in 0..Len(zip) /\ next \in Nat /\ Current = zip[next + 1]
<1>1. zip \in Seq(ZipMember) /\ next \in 0..Len(zip) /\ next < Len(zip) /\ Len(zip) \in Nat
  BY DEF ArchiveTypes, Converting
<1>2. next + 1 \in 1..Len(zip) /\ next + 1 \in 0..Len(zip) /\ next \in Nat
  BY <1>1
<1>3. zip[next + 1] \in ZipMember
  BY <1>1, <1>2, ElementOfSeq
<1> QED BY <1>2, <1>3 DEF Current

\* An appended member moves none before it.
LEMMA AppendOffsets ==
    ASSUME NEW a \in Tar, NEW m \in TarMember,
           NEW b \in Tar, b.members = Append(a.members, m)
    PROVE  Offset(b, Len(a.members) + 2)
              = Offset(a, Len(a.members) + 1) + MemberBytes(m)
<1> DEFINE n == Len(a.members)
           S == {k \in 0..n : Offset(b, k + 1) = Offset(a, k + 1)}
<1>1. n \in Nat /\ a.members \in Seq(TarMember)
  BY TarIs
<1>2. Len(b.members) = n + 1 /\ b.members[n + 1] = m /\ \A k \in 1..n : b.members[k] = a.members[k]
  BY <1>1, AppendProperties
<1>3. /\ Offset(a, 1) = 0
      /\ \A i \in 1..n : Offset(a, i + 1) = Offset(a, i) + MemberBytes(a.members[i])
  BY OffsetIs
<1>4. /\ Offset(b, 1) = 0
      /\ \A i \in 1..n+1 : Offset(b, i + 1) = Offset(b, i) + MemberBytes(b.members[i])
  BY <1>2, OffsetIs
<1> HIDE DEF n
<1>5. 0 \in S
  <2>1. 0 + 1 = 1 /\ 0 \in 0..n
    BY <1>1
  <2> QED BY <1>3, <1>4, <2>1
<1>6. ASSUME NEW k \in 1..n, k - 1 \in S
      PROVE  k \in S
  <2>1. (k - 1) + 1 = k /\ k \in 0..n /\ k \in 1..n+1
    BY <1>1
  <2>2. Offset(b, k) = Offset(a, k)
    BY <1>6, <2>1
  <2>3. Offset(b, k + 1) = Offset(a, k + 1)
    BY <1>2, <1>3, <1>4, <2>1, <2>2
  <2> QED BY <2>1, <2>3
<1> HIDE DEF S
<1>7. \A k \in 0..n : k \in S
  BY <1>1, <1>5, <1>6, AllUpto
<1>8. Offset(b, n + 1) = Offset(a, n + 1)
  <2>1. n \in 0..n
    BY <1>1
  <2> QED BY <1>7, <2>1 DEF S
<1>9. n + 1 \in 1..n+1 /\ (n + 1) + 1 = n + 2
  BY <1>1
<1>10. Offset(b, (n + 1) + 1) = Offset(b, n + 1) + MemberBytes(b.members[n + 1])
  BY <1>4, <1>9
<1> QED BY <1>2, <1>8, <1>9, <1>10 DEF n

LEMMA ConvertKeeps ==
    ASSUME ArchiveTypes, ConversionInv, ConvertMember
    PROVE  ArchiveTypes' /\ ConversionInv'
<1> DEFINE m == Converted(Current)
           c == Current
           d == c.declared
           R == Readable(next)
           R2 == Readable(next + 1)
<1>1. /\ Converting /\ ~Skipped(c) /\ d <= remaining /\ c.got = d
      /\ next' = next + 1 /\ written' = written + 1 /\ remaining' = remaining - d
      /\ zip' = zip /\ upload' = upload /\ upload = "converting"
  BY DEF ConvertMember, ConvertAs, Converting
<1>2. archive' = [archive EXCEPT !.members = Append(@, m)]
  BY DEF ConvertMember, ConvertAs, Converted
<1>3. /\ c \in ZipMember /\ next + 1 \in 0..Len(zip) /\ next \in Nat /\ c = zip[next + 1]
      /\ d \in Nat /\ m \in TarMember /\ m.size = d
  <2>1. c \in ZipMember /\ next + 1 \in 0..Len(zip) /\ next \in Nat /\ c = zip[next + 1]
    BY <1>1, CurrentIs
  <2>2. d \in Nat
    BY <2>1 DEF ZipMember
  <2> QED BY <2>1, <2>2, MemberIs DEF Converted
<1>4. /\ archive \in Tar /\ archive.members \in Seq(TarMember) /\ archive.broken \in BOOLEAN
      /\ remaining \in Nat /\ written \in Nat
  BY TarIs DEF ArchiveTypes
<1>5. /\ written = Cardinality(R) /\ Len(archive.members) = written
      /\ \A k \in 1..written : archive.members[k] = Converted(zip[Ascending(R)[k]])
      /\ Offset(archive, written + 1) <= (MaxInflatedBytes - remaining) + written * AddedBytes
  BY <1>1 DEF ConversionInv
<1>6. /\ R \in SUBSET Nat /\ IsFiniteSet(R) /\ R \in SUBSET (1..next) /\ R2 = R \cup {next + 1}
  BY <1>1, <1>3, ReadableIs
<1> HIDE DEF m, c, d, R, R2
<1>7. archive' \in Tar /\ archive'.members = Append(archive.members, m)
  <2> DEFINE ms == Append(archive.members, m)
  <2>1. ms \in Seq(TarMember)
    BY <1>3, <1>4, AppendProperties
  <2>2. archive' = [archive EXCEPT !.members = ms]
    BY <1>2
  <2> HIDE DEF ms
  <2>3. archive' \in Tar /\ archive'.members = ms
    BY <1>4, <2>1, <2>2 DEF Tar
  <2> QED BY <2>3 DEF ms
<1>8. ArchiveTypes'
  <2>1. remaining - d \in Nat /\ written + 1 \in Nat
    BY <1>1, <1>3, <1>4
  <2>2. zip \in Seq(ZipMember)
    BY DEF ArchiveTypes
  <2> QED BY <1>1, <1>3, <1>7, <2>1, <2>2 DEF ArchiveTypes
<1>9. Cardinality(R2) = written + 1 /\ Ascending(R2) = Append(Ascending(R), next + 1)
  <2>1. next + 1 \in Nat /\ \A y \in R : y < next + 1
    BY <1>3, <1>6
  <2> QED BY <1>5, <1>6, <2>1, AscendingAppend
<1>10. /\ Len(archive'.members) = written + 1 /\ archive'.members[written + 1] = m
       /\ \A k \in 1..written : archive'.members[k] = archive.members[k]
  BY <1>3, <1>4, <1>5, <1>7, AppendProperties
<1>11. /\ Ascending(R2)[written + 1] = next + 1
       /\ \A k \in 1..written : Ascending(R2)[k] = Ascending(R)[k]
  <2>1. Ascending(R) \in Seq(Nat) /\ Len(Ascending(R)) = written
    <3>1. Ascending(R) \in Seq(R) /\ Len(Ascending(R)) = written
      BY <1>5, <1>6, AscendingIs
    <3> QED BY <1>6, <3>1, SeqMonotonic
  <2>2. next + 1 \in Nat
    BY <1>3
  <2> QED BY <1>9, <2>1, <2>2, AppendProperties
<1>12. \A k \in 1..written+1 : archive'.members[k] = Converted(zip[Ascending(R2)[k]])
  <2>1. \A k \in 1..written+1 : k = written + 1 \/ k \in 1..written
    BY <1>4
  <2>2. archive'.members[written + 1] = Converted(zip[Ascending(R2)[written + 1]])
    BY <1>3, <1>10, <1>11 DEF m, c
  <2> QED BY <1>5, <1>10, <1>11, <2>1, <2>2
<1>13. Offset(archive', written + 1 + 1)
          <= (MaxInflatedBytes - (remaining - d)) + (written + 1) * AddedBytes
  <2> DEFINE old == archive
             new == archive'
             x == Offset(old, written + 1)
             y == Offset(new, written + 2)
             z == MemberBytes(m)
             w == written * AddedBytes
             w2 == (written + 1) * AddedBytes
             K == AddedBytes
  <2>1. y = x + z
    <3>1. new \in Tar /\ old \in Tar /\ new.members = Append(old.members, m) /\ Len(old.members) = written
      BY <1>4, <1>5, <1>7
    <3> HIDE DEF old, new
    <3>2. Offset(new, Len(old.members) + 2) = Offset(old, Len(old.members) + 1) + MemberBytes(m)
      BY <1>3, <3>1, AppendOffsets
    <3> QED BY <3>1, <3>2
  <2>2. x <= (MaxInflatedBytes - remaining) + w
    BY <1>5
  <2>3. MaxInflatedBytes \in Nat /\ written + 1 + 1 = written + 2
    BY <1>4, ArchiveAssumption
  <2>4. z \in Nat /\ K \in Nat /\ z <= d + K
    BY <1>3, MemberBytesAre
  <2> HIDE DEF K, z
  <2>5. w2 = w + K /\ w \in Nat
    <3>1. written * K \in Nat /\ (written + 1) * K = written * K + K
      BY <1>4, <2>4
    <3> QED BY <3>1 DEF K
  <2>6. x \in Nat
    <3>1. written + 1 \in 1..Len(archive.members)+1
      BY <1>4, <1>5
    <3> QED BY <1>4, <3>1, OffsetIs
  <2> HIDE DEF x, y, w, w2
  <2>7. y <= (MaxInflatedBytes - (remaining - d)) + w2
    BY <1>3, <1>4, <2>1, <2>2, <2>3, <2>4, <2>5, <2>6
  <2> QED BY <2>3, <2>7 DEF y, w2
<1>14. ConversionInv'
  <2>1. Readable(next)' = R2
    BY <1>1 DEF Readable, R2
  <2> QED BY <1>1, <1>9, <1>10, <1>12, <1>13, <2>1 DEF ConversionInv
<1> QED BY <1>8, <1>14

LEMMA ArchiveKept ==
    ArchiveTypes /\ ConversionInv /\ [ArchiveNext]_archiveVars => ArchiveTypes' /\ ConversionInv'
<1> SUFFICES ASSUME ArchiveTypes, ConversionInv, [ArchiveNext]_archiveVars
             PROVE  ArchiveTypes' /\ ConversionInv'
  OBVIOUS
<1>1. CASE SkipZipMember
  <2>1. /\ Converting /\ Skipped(zip[next + 1]) /\ next' = next + 1 /\ upload = "converting"
        /\ UNCHANGED <<zip, written, remaining, archive, upload>>
        /\ next + 1 \in 0..Len(zip) /\ next \in Nat
    BY <1>1, CurrentIs DEF SkipZipMember, Converting
  <2>2. Readable(next)' = Readable(next)
    <3>1. Readable(next)' = Readable(next + 1)
      BY <2>1 DEF Readable
    <3> QED BY <2>1, <3>1, ReadableIs
  <2>3. ArchiveTypes'
    BY <2>1 DEF ArchiveTypes
  <2>4. ConversionInv'
    BY <2>1, <2>2 DEF ConversionInv
  <2> QED BY <2>3, <2>4
<1>2. CASE Refuse
  <2>1. /\ upload' = "refused" /\ UNCHANGED <<zip, next, written, remaining, archive>>
        /\ upload = "converting"
    BY <1>2 DEF Refuse, Converting
  <2>2. Readable(next)' = Readable(next)
    BY <2>1 DEF Readable
  <2>3. ArchiveTypes'
    BY <2>1 DEF ArchiveTypes
  <2>4. ConversionInv'
    BY <2>1, <2>2 DEF ConversionInv
  <2> QED BY <2>3, <2>4
<1>3. CASE ConvertMember
  BY <1>3, ConvertKeeps
<1>4. CASE FinishZip
  <2>1. /\ upload' \in {"refused", "stored"} /\ UNCHANGED <<zip, next, written, remaining, archive>>
        /\ upload = "converting" /\ next = Len(zip)
    BY <1>4 DEF FinishZip
  <2>2. Readable(next)' = Readable(next)
    BY <2>1 DEF Readable
  <2>3. ArchiveTypes'
    BY <2>1 DEF ArchiveTypes
  <2>4. ConversionInv'
    BY <2>1, <2>2 DEF ConversionInv
  <2> QED BY <2>3, <2>4
<1>5. CASE UNCHANGED archiveVars
  <2>1. UNCHANGED <<zip, next, written, remaining, archive, upload>>
    BY <1>5 DEF archiveVars
  <2>2. Readable(next)' = Readable(next)
    BY <2>1 DEF Readable
  <2> QED BY <2>1, <2>2 DEF ArchiveTypes, ConversionInv
<1> QED BY <1>1, <1>2, <1>3, <1>4, <1>5 DEF ArchiveNext

----------------------------------------------------------------------------
(* The listing of a converted zip.                                         *)

LEMMA FoundIs ==
    ASSUME NEW a \in Tar
    PROVE  /\ Found(a) \in SUBSET (1..Len(a.members))
           /\ IsFiniteSet(Found(a)) /\ Cardinality(Found(a)) \in 0..Len(a.members)
           /\ \A k \in 1..Cardinality(Found(a)) : Ascending(Found(a))[k] = k
           /\ \A k \in 1..Len(a.members) : k > Cardinality(Found(a)) =>
                 DataOffset(a, k) > MaxInflatedBytes
<1> DEFINE n == Len(a.members)
           F == Found(a)
           c == Cardinality(F)
           place(i) == Offset(a, i)
           data(i) == DataOffset(a, i)
<1>1. n \in Nat /\ MaxInflatedBytes \in Nat
  BY TarIs, ArchiveAssumption
<1>2. F = {i \in 1..n : data(i) <= MaxInflatedBytes}
  BY TarIs DEF Found
<1>3. \A i \in 1..n : place(i) \in Nat /\ data(i) \in Nat /\ place(i) <= data(i)
  <2> SUFFICES ASSUME NEW i \in 1..n
               PROVE  place(i) \in Nat /\ data(i) \in Nat /\ place(i) <= data(i)
    OBVIOUS
  <2> DEFINE h == HeadBytes(a.members[i])
  <2>1. i \in 1..n+1
    BY <1>1
  <2>2. place(i) \in Nat /\ h \in Nat /\ data(i) = place(i) + h
    BY <2>1, OffsetIs, TarIs, MemberBytesAre DEF DataOffset
  <2> HIDE DEF h, place, data
  <2> QED BY <2>2
<1>4. \A i \in 1..n : \A j \in i+1..n+1 : data(i) <= place(j)
  BY OffsetsRise
<1> HIDE DEF n, F, place, data
<1>5. F \in SUBSET (1..n)
  BY <1>2
<1>6. F \in SUBSET Nat /\ IsFiniteSet(F) /\ c \in 0..n
  BY <1>1, <1>5, Bounded
<1>7. ASSUME NEW x \in F, NEW y \in (1..n) \ F
      PROVE  x < y
  <2>1. CASE y < x
    <3>1. x \in 1..n /\ y \in 1..n /\ x \in y+1..n+1
      BY <1>1, <1>5, <2>1
    <3>2. data(y) <= place(x) /\ data(x) <= MaxInflatedBytes
      BY <1>2, <1>4, <3>1
    <3>3. place(x) \in Nat /\ data(x) \in Nat /\ data(y) \in Nat /\ place(x) <= data(x)
      BY <1>3, <3>1
    <3>4. data(y) <= MaxInflatedBytes
      BY <1>1, <3>2, <3>3
    <3> QED BY <1>2, <3>1, <3>4
  <2>2. x # y /\ x \in Nat /\ y \in Nat
    BY <1>5
  <2> QED BY <2>1, <2>2
<1>8. /\ 1..n \in SUBSET Nat /\ IsFiniteSet(1..n) /\ F \in SUBSET (1..n)
      /\ \A k \in 1..n : Ascending(1..n)[k] = k
  <2>1. IsFiniteSet(1..n) /\ Ascending(1..n) = [k \in 1..n |-> k]
    BY <1>1, AscendingAll
  <2>2. \A k \in 1..n : Ascending(1..n)[k] = k
    BY <2>1
  <2>3. 1..n \in SUBSET Nat
    BY <1>1
  <2> QED BY <1>5, <2>1, <2>2, <2>3
<1>9. \A k \in 1..c : Ascending(F)[k] = k
  <2>1. \A x \in F : \A y \in (1..n) \ F : x < y
    BY <1>7
  <2>2. \A k \in 1..c : Ascending(F)[k] = Ascending(1..n)[k]
    BY <1>8, <2>1, AscendingInitial
  <2>3. \A k \in 1..c : k \in 1..n
    BY <1>1, <1>6
  <2> QED BY <1>8, <2>2, <2>3
<1>10. ASSUME NEW k \in 1..n, k > c
       PROVE  data(k) > MaxInflatedBytes
  <2>1. k \notin F
    <3>1. SUFFICES ASSUME k \in F
                   PROVE  FALSE
      OBVIOUS
    <3>2. PICK j \in 1..c : Ascending(F)[j] = k
      BY <1>6, <3>1, AscendingIs
    <3>3. j = k
      BY <1>9, <3>2
    <3> QED BY <1>6, <1>10, <3>3
  <2>2. data(k) \in Nat
    BY <1>3
  <2> QED BY <1>1, <1>2, <2>1, <2>2
<1> QED BY <1>5, <1>6, <1>9, <1>10 DEF n, F, data

\* The places of the files that are listed.
Places(a) == {i \in Found(a) : a.members[i].reg /\ Listed(a.members[i])}

\* F are the places of the entries of the listing.
ListedAt(a, F) ==
    /\ DOMAIN IndexArchive(a) = 1..Cardinality(F) /\ Len(IndexArchive(a)) = Cardinality(F)
    /\ Cardinality(F) \in Nat /\ F \in SUBSET (1..Len(a.members))
    /\ \A k \in 1..Cardinality(F) :
          /\ Ascending(F)[k] \in F
          /\ IndexArchive(a)[k] = EntryOf(a.members[Ascending(F)[k]])

LEMMA ListingIs ==
    ASSUME NEW a \in Tar
    PROVE  ListedAt(a, Places(a))
<1> DEFINE F == Places(a)
           regulars == Pick(a.members, F)
<1>1. F \in SUBSET (1..Len(a.members)) /\ a.members \in Seq(TarMember)
      /\ Len(a.members) \in Nat
  BY FoundIs, TarIs DEF Places
<1>2. Files(a, Listed) = regulars
  BY DEF Files, Places
<1> HIDE DEF F
<1>3. IndexArchive(a) = [k \in DOMAIN regulars |-> EntryOf(regulars[k])]
  BY <1>2 DEF IndexArchive
<1>4. /\ regulars \in Seq(TarMember) /\ Len(regulars) = Cardinality(F) /\ Cardinality(F) \in 0..Len(a.members)
      /\ \A k \in 1..Cardinality(F) : Ascending(F)[k] \in F /\ regulars[k] = a.members[Ascending(F)[k]]
  <2> DEFINE s == a.members
  <2>1. s \in Seq(TarMember) /\ F \in SUBSET (1..Len(s)) /\ regulars = Pick(s, F)
    BY <1>1
  <2> HIDE DEF s, regulars
  <2>2. /\ IsFiniteSet(F) /\ Cardinality(F) \in 0..Len(s)
        /\ Pick(s, F) \in Seq(TarMember)
        /\ Len(Pick(s, F)) = Cardinality(F)
        /\ \A k \in 1..Cardinality(F) :
              Ascending(F)[k] \in F /\ Pick(s, F)[k] = s[Ascending(F)[k]]
    BY <2>1, PickIs
  <2> QED BY <2>1, <2>2 DEF s
<1> HIDE DEF regulars
<1>5. DOMAIN regulars = 1..Cardinality(F) /\ Cardinality(F) \in Nat
  BY <1>4
<1>6. DOMAIN IndexArchive(a) = 1..Cardinality(F)
      /\ \A k \in 1..Cardinality(F) : IndexArchive(a)[k] = EntryOf(regulars[k])
  BY <1>3, <1>5
<1>7. Len(IndexArchive(a)) = Cardinality(F)
  BY <1>3, <1>5
<1> QED BY <1>1, <1>4, <1>5, <1>6, <1>7 DEF ListedAt, F

\* A listed file can be opened by the name it is listed under.
LEMMA ListedOpens ==
    ASSUME NEW a \in Tar, NEW i \in Found(a), a.members[i].reg, NEW path,
           NormalizePath(a.members[i].path) = path
    PROVE  EntryReader(a, path) # {}
<1> DEFINE named == {j \in Found(a) : a.members[j].reg /\ NormalizePath(a.members[j].path) = path}
<1>1. named \in SUBSET (1..Len(a.members)) /\ i \in named /\ Len(a.members) \in Nat
  BY FoundIs, TarIs
<1>2. EntryReader(a, path) = {x \in named : \A y \in named : x <= y}
  BY DEF EntryReader
<1> HIDE DEF named
<1>3. named \in SUBSET Nat /\ named # {}
  BY <1>1
<1>4. PICK x \in named : \A y \in named : x <= y
  BY <1>3, LeastNumber
<1> QED BY <1>2, <1>4

LEMMA ZipIsListedWhole == ArchiveTypes /\ ConversionInv => ZipIsListed
<1> SUFFICES ASSUME ArchiveTypes, ConversionInv, Stored, zip # <<>>
             PROVE  LET listing == IndexArchive(archive)
                    IN  /\ Len(listing) <= Len(ReadableMembers)
                        /\ \A k \in DOMAIN listing :
                              /\ listing[k] = [path |-> NormalizePath(NameOf(ReadableMembers[k])),
                                               size |-> ReadableMembers[k].declared]
                              /\ EntryReader(archive, listing[k].path) # {}
                        /\ Len(listing) < Len(ReadableMembers) =>
                              remaining < Len(ReadableMembers) * AddedBytes
  BY DEF ZipIsListed
<1> DEFINE a == archive
           n == written
           R == Readable(next)
           F == Found(a)
           c == Cardinality(F)
           listing == IndexArchive(a)
<1>1. /\ n = Cardinality(R) /\ Len(a.members) = n /\ next = Len(zip)
      /\ \A k \in 1..n : a.members[k] = Converted(zip[Ascending(R)[k]])
      /\ Offset(a, n + 1) <= (MaxInflatedBytes - remaining) + n * AddedBytes
  BY DEF ConversionInv, Stored
<1>2. a \in Tar /\ n \in Nat /\ remaining \in Nat /\ zip \in Seq(ZipMember) /\ next \in Nat
      /\ DOMAIN zip = 1..next /\ MaxInflatedBytes \in Nat
  BY <1>1, ArchiveAssumption DEF ArchiveTypes
<1>3. R \in SUBSET (1..next) /\ IsFiniteSet(R) /\ R \in SUBSET Nat
  BY <1>2, ReadableIs
<1>4. /\ ReadableMembers = Pick(zip, R)
      /\ Len(ReadableMembers) = n
      /\ \A k \in 1..n : Ascending(R)[k] \in R /\ ReadableMembers[k] = zip[Ascending(R)[k]]
  <2>1. ReadableMembers = Pick(zip, R)
    BY <1>2 DEF ReadableMembers, Readable
  <2> HIDE DEF R
  <2>2. R \in SUBSET (1..Len(zip))
    BY <1>1, <1>3
  <2> QED BY <1>1, <1>2, <2>1, <2>2, PickIs
<1>5. ASSUME NEW k \in 1..n
      PROVE  /\ a.members[k] = Converted(ReadableMembers[k])
             /\ a.members[k].reg /\ Listed(a.members[k])
  <2> DEFINE j == Ascending(R)[k]
  <2>1. j \in R /\ a.members[k] = Converted(zip[j]) /\ ReadableMembers[k] = zip[j]
    BY <1>1, <1>4
  <2>2. j \in 1..Len(zip) /\ ~Skipped(zip[j])
    BY <1>1, <1>3, <2>1 DEF Readable
  <2> HIDE DEF j
  <2>3. zip[j] \in ZipMember
    BY <1>2, <2>2, ElementOfSeq
  <2> QED BY <2>1, <2>2, <2>3, MemberIs DEF Converted
<1>6. F = {i \in F : a.members[i].reg /\ Listed(a.members[i])}
  <2>1. \A i \in F : i \in 1..n
    BY <1>1, <1>2, FoundIs
  <2> QED BY <1>5, <2>1
<1>7. /\ F \in SUBSET (1..n) /\ c \in 0..n
      /\ \A k \in 1..c : Ascending(F)[k] = k /\ k \in 1..n
      /\ \A k \in 1..n : k > c => DataOffset(a, k) > MaxInflatedBytes
  <2>1. /\ F \in SUBSET (1..n) /\ c \in 0..n /\ \A k \in 1..c : Ascending(F)[k] = k
        /\ \A k \in 1..n : k > c => DataOffset(a, k) > MaxInflatedBytes
    BY <1>1, <1>2, FoundIs
  <2>2. \A k \in 1..c : k \in 1..n
    BY <1>2, <2>1
  <2> QED BY <2>1, <2>2
<1> HIDE DEF F, R
<1>8. /\ DOMAIN listing = 1..c /\ Len(listing) = c
      /\ \A k \in 1..c : Ascending(F)[k] \in F /\ listing[k] = EntryOf(a.members[k])
  <2>1. F = Places(a)
    BY <1>6 DEF F, Places
  <2>2. /\ DOMAIN listing = 1..c /\ Len(listing) = c
        /\ \A k \in 1..c :
              Ascending(F)[k] \in F /\ listing[k] = EntryOf(a.members[Ascending(F)[k]])
    BY <1>2, <2>1, ListingIs DEF ListedAt
  <2> QED BY <1>7, <2>2
<1> HIDE DEF listing, c
<1>9. ASSUME NEW k \in 1..c
      PROVE  /\ listing[k] = [path |-> NormalizePath(NameOf(ReadableMembers[k])),
                              size |-> ReadableMembers[k].declared]
             /\ EntryReader(a, listing[k].path) # {}
  <2>1. k \in F /\ k \in 1..n /\ listing[k] = EntryOf(a.members[k])
    BY <1>7, <1>8
  <2>2. a.members[k] = Converted(ReadableMembers[k]) /\ a.members[k].reg
    BY <1>5, <2>1
  <2>3. listing[k] = [path |-> NormalizePath(NameOf(ReadableMembers[k])),
                      size |-> ReadableMembers[k].declared]
    BY <2>1, <2>2 DEF EntryOf, Converted
  <2>4. listing[k].path = NormalizePath(a.members[k].path)
    BY <2>1 DEF EntryOf
  <2>5. EntryReader(a, listing[k].path) # {}
    BY <1>2, <2>1, <2>2, <2>4, ListedOpens DEF F
  <2> QED BY <2>3, <2>5
<1>10. ASSUME c < n
       PROVE  remaining < n * AddedBytes
  <2>1. c + 1 \in 1..n /\ c + 1 > c /\ n + 1 \in (c+1)+1..n+1 /\ n + 1 \in 1..n+1
    BY <1>2, <1>7, <1>10
  <2> DEFINE x == DataOffset(a, c + 1)
             y == Offset(a, n + 1)
             w == n * AddedBytes
             h == HeadBytes(a.members[c + 1])
             z == Offset(a, c + 1)
  <2>2. x > MaxInflatedBytes
    BY <1>7, <2>1
  <2>3. x <= y
    BY <1>1, <1>2, <2>1, OffsetsRise
  <2>4. x \in Nat /\ y \in Nat
    <3>1. c + 1 \in 1..n+1
      BY <1>2, <2>1
    <3>2. z \in Nat /\ h \in Nat /\ x = z + h /\ y \in Nat
      BY <1>1, <1>2, <2>1, <3>1, OffsetIs, TarIs, MemberBytesAre DEF DataOffset
    <3> HIDE DEF x, y, z, h
    <3> QED BY <3>2
  <2>5. y <= (MaxInflatedBytes - remaining) + w /\ w \in Nat
    <3>1. AddedBytes \in Nat
      BY ArchiveAssumption DEF AddedBytes
    <3> QED BY <1>1, <1>2, <3>1
  <2> HIDE DEF x, y, w
  <2>6. remaining < w
    BY <1>2, <2>2, <2>3, <2>4, <2>5
  <2> QED BY <2>6 DEF w
<1>11. c <= n
  BY <1>2, <1>7
<1> QED BY <1>4, <1>8, <1>9, <1>10, <1>11 DEF listing

----------------------------------------------------------------------------
(* The kind of an archive.                                                 *)

MarkersSeen == [fw : SUBSET (1..7), gp : SUBSET (1..9)]

\* One step of the walk over the entries.
SeeOne(x, r) ==
    [fw |-> x.fw \cup r.fw, gp |-> IF x.fw \cup r.fw = {} THEN x.gp \cup r.gp ELSE x.gp]

\* The first k of these entries have a marker of the firewall, of the agent.
FwIn(e, k) == \E j \in 1..k : e[j].path.rest.fw # {}
GpIn(e, k) == \E j \in 1..k : e[j].path.rest.gp # {}

\* x is seen of the first k.
SeenOf(x, e, k) ==
    /\ x.fw # {} <=> FwIn(e, k)
    /\ ~FwIn(e, k) => (x.gp # {} <=> GpIn(e, k))

LEMMA SeeOneIs ==
    ASSUME NEW x, NEW e, NEW k \in Nat \ {0}, SeenOf(x, e, k - 1)
    PROVE  SeenOf(SeeOne(x, e[k].path.rest), e, k)
<1> DEFINE r == e[k].path.rest
           y == SeeOne(x, r)
<1>1. \A j : j \in 1..k <=> j \in 1..k-1 \/ j = k
  OBVIOUS
<1>2. FwIn(e, k) <=> FwIn(e, k - 1) \/ r.fw # {}
  BY <1>1 DEF FwIn
<1>3. GpIn(e, k) <=> GpIn(e, k - 1) \/ r.gp # {}
  BY <1>1 DEF GpIn
<1> HIDE DEF r
<1>4. y.fw = x.fw \cup r.fw /\ y.gp = IF x.fw \cup r.fw = {} THEN x.gp \cup r.gp ELSE x.gp
  BY DEF SeeOne
<1> HIDE DEF y
<1>5. y.fw # {} <=> FwIn(e, k)
  BY <1>2, <1>4 DEF SeenOf
<1>6. ASSUME ~FwIn(e, k)
      PROVE  y.gp # {} <=> GpIn(e, k)
  <2>1. x.fw \cup r.fw = {} /\ ~FwIn(e, k - 1)
    BY <1>2, <1>4, <1>5, <1>6
  <2>2. y.gp = x.gp \cup r.gp
    BY <1>4, <2>1
  <2> QED BY <1>3, <2>1, <2>2 DEF SeenOf
<1> QED BY <1>5, <1>6 DEF SeenOf, y, r

LEMMA SeenIs ==
    ASSUME NEW e, Len(e) \in Nat, \A k \in 1..Len(e) : e[k].path \in Path
    PROVE  SeenOf(Seen(e), e, Len(e))
<1> DEFINE n == Len(e)
           z == [fw |-> {}, gp |-> {}]
           r(k) == NormalizePath(e[k].path).rest
           R(g) == g = [k \in 0..n |-> IF k = 0 THEN z ELSE SeeOne(g[k-1], r(k))]
           seen == CHOOSE g : R(g)
           step == [k \in 1..n |-> [x \in MarkersSeen |-> SeeOne(x, r(k))]]
<1>1. n \in Nat /\ z \in MarkersSeen /\ z.fw = {} /\ z.gp = {}
  BY DEF MarkersSeen
<1>2. \A k \in 1..n : r(k) = e[k].path.rest /\ r(k) \in Rest
  BY NormalizedIs DEF Path
<1>3. Seen(e) = seen[n]
  BY DEF Seen, SeeOne
<1>4. \A k \in 1..n : \A x \in MarkersSeen : SeeOne(x, r(k)) \in MarkersSeen
  <2> TAKE k \in 1..n
  <2> TAKE x \in MarkersSeen
  <2>1. r(k).fw \in SUBSET (1..7) /\ r(k).gp \in SUBSET (1..9)
    BY <1>2 DEF Rest
  <2> HIDE DEF r
  <2> QED BY <2>1 DEF SeeOne, MarkersSeen
<1> HIDE DEF n, z, r
<1>5. /\ step \in [1..n -> [MarkersSeen -> MarkersSeen]]
      /\ \A k \in 1..n : \A x \in MarkersSeen : step[k][x] = SeeOne(x, r(k))
  BY <1>4
<1> HIDE DEF step
<1>6. PICK g : Iterates(MarkersSeen, z, n, step, g)
  BY <1>1, <1>5, IterationExists
<1>7. g \in [0..n -> MarkersSeen] /\ g[0] = z /\ \A k \in 1..n : g[k] = step[k][g[k-1]]
  BY <1>6 DEF Iterates
<1>8. \A k \in 1..n : g[k] = SeeOne(g[k-1], r(k))
  <2>1. \A k \in 1..n : g[k-1] \in MarkersSeen
    <3>1. \A k \in 1..n : k - 1 \in 0..n
      BY <1>1
    <3> QED BY <1>7, <3>1
  <2> QED BY <1>5, <1>7, <2>1
<1>9. R(g)
  <2>1. \A k \in 0..n : g[k] = IF k = 0 THEN z ELSE SeeOne(g[k-1], r(k))
    <3>1. \A k \in 0..n : k = 0 \/ k \in 1..n
      BY <1>1
    <3> QED BY <1>7, <1>8, <3>1
  <2>2. g = [k \in 0..n |-> g[k]]
    BY <1>7
  <2> QED BY <2>1, <2>2
<1>10. R(seen)
  <2> HIDE DEF R
  <2> QED BY <1>9
<1> HIDE DEF seen
<1>11. \A k \in 0..n : seen[k] = IF k = 0 THEN z ELSE SeeOne(seen[k-1], r(k))
  BY <1>10
<1>12. seen[0] = z /\ \A k \in 1..n : seen[k] = SeeOne(seen[k-1], e[k].path.rest)
  <2>1. \A k \in 1..n : k \in 0..n /\ k # 0
    BY <1>1
  <2> QED BY <1>1, <1>2, <1>11, <2>1
<1> DEFINE S == {k \in 0..n : SeenOf(seen[k], e, k)}
<1>13. 0 \in S
  <2>1. ~FwIn(e, 0) /\ ~GpIn(e, 0)
    BY DEF FwIn, GpIn
  <2>2. SeenOf(seen[0], e, 0)
    BY <1>1, <1>12, <2>1 DEF SeenOf
  <2> QED BY <1>1, <2>2
<1>14. ASSUME NEW k \in 1..n, k - 1 \in S
       PROVE  k \in S
  <2>1. k \in Nat \ {0} /\ k \in 0..n /\ SeenOf(seen[k-1], e, k - 1)
    BY <1>1, <1>14
  <2>2. SeenOf(SeeOne(seen[k-1], e[k].path.rest), e, k)
    BY <2>1, SeeOneIs
  <2> QED BY <1>12, <2>1, <2>2
<1> HIDE DEF S
<1>15. \A k \in 0..n : k \in S
  BY <1>1, <1>13, <1>14, AllUpto
<1>16. SeenOf(seen[n], e, n)
  <2>1. n \in 0..n
    BY <1>1
  <2> QED BY <1>15, <2>1 DEF S
<1> QED BY <1>3, <1>16 DEF n

LEMMA KindIsOfContents == ArchiveTypes => KindOfContents
<1> SUFFICES ASSUME ArchiveTypes
             PROVE  KindOfContents
  OBVIOUS
<1> DEFINE a == archive
           F == Places(a)
           e == IndexArchive(a)
           n == Len(e)
<1>1. a \in Tar
  BY DEF ArchiveTypes
<1>2. /\ DOMAIN e = 1..n /\ n = Cardinality(F) /\ n \in Nat /\ F \in SUBSET (1..Len(a.members))
      /\ \A k \in 1..n : Ascending(F)[k] \in F /\ e[k] = EntryOf(a.members[Ascending(F)[k]])
  BY <1>1, ListingIs DEF ListedAt
<1>3. ASSUME NEW k \in 1..n
      PROVE  e[k].path \in Path
  <2> DEFINE i == Ascending(F)[k]
  <2>1. i \in 1..Len(a.members) /\ e[k] = EntryOf(a.members[i])
    BY <1>2
  <2> HIDE DEF i
  <2>2. a.members[i].path \in Path
    BY <1>1, <2>1, TarIs
  <2>3. e[k].path = NormalizePath(a.members[i].path)
    BY <2>1 DEF EntryOf
  <2> QED BY <2>2, <2>3, NormalizedIs
<1> HIDE DEF F, e
<1>4. SeenOf(Seen(e), e, n)
  BY <1>2, <1>3, SeenIs
<1>5. /\ Seen(e).fw # {} <=> \E k \in DOMAIN e : e[k].path.rest.fw # {}
      /\ ~(\E k \in DOMAIN e : e[k].path.rest.fw # {}) =>
            (Seen(e).gp # {} <=> \E k \in DOMAIN e : e[k].path.rest.gp # {})
  BY <1>2, <1>4 DEF SeenOf, FwIn, GpIn
<1>6. /\ DetectKind(e) = "firewall" <=> Seen(e).fw # {}
      /\ Seen(e).fw = {} /\ Seen(e).gp # {} => DetectKind(e) = "gp-agent"
  BY DEF DetectKind
<1>7. /\ (DetectKind(e) = "firewall") = (\E k \in DOMAIN e : e[k].path.rest.fw # {})
      /\ (\E k \in DOMAIN e : e[k].path.rest.gp # {}) /\ ~(\E k \in DOMAIN e : e[k].path.rest.fw # {})
            => DetectKind(e) = "gp-agent"
  BY <1>5, <1>6
<1> QED BY <1>7 DEF KindOfContents, e

----------------------------------------------------------------------------
(* The ranking of the candidates.                                          *)

\* No more numbers than there are images of them.
LEMMA NoMore ==
    ASSUME NEW V, NEW W, IsFiniteSet(V), IsFiniteSet(W), NEW f \in [V -> W],
           \A x, z \in V : f[x] = f[z] => x = z
    PROVE  Cardinality(V) <= Cardinality(W)
<1>1. f \in Injection(V, W)
  BY Fun_IsInj
<1> QED BY <1>1, FS_Injection

----------------------------------------------------------------------------
(* The ranking of the candidates.                                          *)

TierOf(m) == NormalizePath(m.path).rest.tier
NumberOf(m) == NormalizePath(m.path).rest.number

LEMMA CandidateIs ==
    ASSUME NEW m \in TarMember
    PROVE  /\ TierOf(m) \in Nat /\ NumberOf(m) \in Nat /\ m.size \in Nat
           /\ m.path.rest.tier = TierOf(m)
<1>1. m.path \in Path /\ m.size \in Nat
  BY DEF TarMember
<1>2. NormalizePath(m.path).rest = m.path.rest /\ m.path.rest \in Rest
  BY <1>1, NormalizedIs DEF Path
<1>3. m.path.rest.tier \in Nat /\ m.path.rest.number \in Nat
  BY <1>2 DEF Rest
<1> QED BY <1>1, <1>2, <1>3 DEF TierOf, NumberOf

RankedBefore(cs) ==
    {p \in (1..Len(cs)) \X (1..Len(cs)) : RanksBefore(cs, p[1], p[2])}

LEMMA RankingOrders ==
    ASSUME NEW cs \in Seq(TarMember)
    PROVE  Orders(1..Len(cs), RankedBefore(cs))
<1> DEFINE D == 1..Len(cs)
           R == RankedBefore(cs)
           t == [i \in D |-> TierOf(cs[i])]
           s == [i \in D |-> cs[i].size]
           u == [i \in D |-> NumberOf(cs[i])]
<1>1. \A i \in D : cs[i] \in TarMember /\ i \in Nat
  BY ElementOfSeq
<1>2. \A i \in D : t[i] \in Nat /\ s[i] \in Nat /\ u[i] \in Nat /\ i \in Nat
  BY <1>1, CandidateIs
<1>3. \A i, j \in D :
        RanksBefore(cs, i, j) <=> IF t[i] # t[j] THEN t[i] < t[j]
                                  ELSE IF s[i] # s[j] THEN s[i] > s[j]
                                  ELSE IF u[i] # u[j] THEN u[i] < u[j]
                                  ELSE i < j
  BY DEF RanksBefore, TierOf, NumberOf
<1>4. \A i, j \in D : <<i, j>> \in R <=> RanksBefore(cs, i, j)
  BY DEF RankedBefore
<1> HIDE DEF D, R, t, s, u
<1>5. \A i, j \in D : <<i, j>> \in R <=> IF t[i] # t[j] THEN t[i] < t[j]
                                         ELSE IF s[i] # s[j] THEN s[i] > s[j]
                                         ELSE IF u[i] # u[j] THEN u[i] < u[j]
                                         ELSE i < j
  BY <1>3, <1>4
<1>6. \A i \in D : <<i, i>> \notin R
  BY <1>2, <1>5
<1>7. ASSUME NEW i \in D, NEW j \in D, NEW k \in D, <<i, j>> \in R, <<j, k>> \in R
      PROVE  <<i, k>> \in R
  <2>1. /\ t[i] \in Nat /\ s[i] \in Nat /\ u[i] \in Nat /\ i \in Nat
        /\ t[j] \in Nat /\ s[j] \in Nat /\ u[j] \in Nat /\ j \in Nat
        /\ t[k] \in Nat /\ s[k] \in Nat /\ u[k] \in Nat /\ k \in Nat
    BY <1>2
  <2>2. IF t[i] # t[j] THEN t[i] < t[j] ELSE IF s[i] # s[j] THEN s[i] > s[j]
        ELSE IF u[i] # u[j] THEN u[i] < u[j] ELSE i < j
    BY <1>5, <1>7
  <2>3. IF t[j] # t[k] THEN t[j] < t[k] ELSE IF s[j] # s[k] THEN s[j] > s[k]
        ELSE IF u[j] # u[k] THEN u[j] < u[k] ELSE j < k
    BY <1>5, <1>7
  <2>4. IF t[i] # t[k] THEN t[i] < t[k] ELSE IF s[i] # s[k] THEN s[i] > s[k]
        ELSE IF u[i] # u[k] THEN u[i] < u[k] ELSE i < k
    BY <2>1, <2>2, <2>3
  <2> QED BY <1>5, <2>4
<1>8. ASSUME NEW i \in D, NEW j \in D, i # j
      PROVE  <<i, j>> \in R \/ <<j, i>> \in R
  <2>1. /\ t[i] \in Nat /\ s[i] \in Nat /\ u[i] \in Nat /\ i \in Nat
        /\ t[j] \in Nat /\ s[j] \in Nat /\ u[j] \in Nat /\ j \in Nat
    BY <1>2
  <2>2. \/ IF t[i] # t[j] THEN t[i] < t[j] ELSE IF s[i] # s[j] THEN s[i] > s[j]
           ELSE IF u[i] # u[j] THEN u[i] < u[j] ELSE i < j
        \/ IF t[j] # t[i] THEN t[j] < t[i] ELSE IF s[j] # s[i] THEN s[j] > s[i]
           ELSE IF u[j] # u[i] THEN u[j] < u[i] ELSE j < i
    BY <1>8, <2>1
  <2> QED BY <1>5, <2>2
<1> QED BY <1>6, <1>7, <1>8 DEF Orders, D, R

\* The candidate that is ranked k-th.
RankedAt(cs, k) ==
    CHOOSE i \in DOMAIN cs : Cardinality({j \in DOMAIN cs : RanksBefore(cs, j, i)}) = k - 1

RankedAsIs(cs) ==
    LET D == 1..Len(cs) IN
    /\ DOMAIN RankConfigCandidates(cs) = D
    /\ \A k \in D : RankedAt(cs, k) \in D /\ RankConfigCandidates(cs)[k] = cs[RankedAt(cs, k)]
    /\ \A i \in D : \E k \in D : RankedAt(cs, k) = i
    /\ \A j, k \in D : RankedAt(cs, j) = RankedAt(cs, k) => j = k
    /\ \A j, k \in D : j < k => RanksBefore(cs, RankedAt(cs, j), RankedAt(cs, k))

LEMMA RankedIs ==
    ASSUME NEW cs \in Seq(TarMember)
    PROVE  RankedAsIs(cs)
<1> DEFINE n == Len(cs)
           D == 1..n
           R == RankedBefore(cs)
           at(k) == RankedAt(cs, k)
<1>0. n \in Nat /\ DOMAIN cs = D
  OBVIOUS
<1>1. n \in Nat /\ DOMAIN cs = D /\ IsFiniteSet(D) /\ Cardinality(D) = n
  <2> HIDE DEF n
  <2> QED BY <1>0, AscendingAll
<1>2. Orders(D, R)
  BY RankingOrders
<1>3. \A i, j \in D : <<i, j>> \in R <=> RanksBefore(cs, i, j)
  BY DEF RankedBefore
<1>4. \A k : at(k) = PlaceAt(n, R, k)
  <2>1. \A i \in D : {j \in D : <<j, i>> \in R} = {j \in DOMAIN cs : RanksBefore(cs, j, i)}
    BY <1>1, <1>3
  <2>2. \A i \in D : PlaceIn(D, R, i) = Cardinality({j \in DOMAIN cs : RanksBefore(cs, j, i)})
    <3> HIDE DEF D, R
    <3> QED BY <2>1 DEF PlaceIn
  <2>3. \A k : PlaceAt(n, R, k) = CHOOSE i \in D : PlaceIn(D, R, i) = k - 1
    BY DEF PlaceAt
  <2> HIDE DEF D, R
  <2> QED BY <1>1, <2>2, <2>3 DEF RankedAt
<1>5. /\ \A k \in D : at(k) \in D
      /\ \A i \in D : \E k \in D : at(k) = i
      /\ \A j, k \in D : at(j) = at(k) => j = k
      /\ \A j, k \in D : j < k => <<at(j), at(k)>> \in R
  <2>1. /\ \A k \in D : PlaceAt(n, R, k) \in D
        /\ \A i \in D : \E k \in D : PlaceAt(n, R, k) = i
        /\ \A j, k \in D : PlaceAt(n, R, j) = PlaceAt(n, R, k) => j = k
        /\ \A j, k \in D : j < k => <<PlaceAt(n, R, j), PlaceAt(n, R, k)>> \in R
    <3> HIDE DEF n, R
    <3> QED BY <1>1, <1>2, PlaceAtIs
  <2> HIDE DEF D, R, at, n
  <2> QED BY <1>4, <2>1
<1> HIDE DEF D, R
<1>9. \A j, k \in D : j < k => RanksBefore(cs, at(j), at(k))
  BY <1>3, <1>5
<1>10. /\ DOMAIN RankConfigCandidates(cs) = D
       /\ \A k \in D : RankConfigCandidates(cs)[k] = cs[at(k)]
  BY <1>1 DEF RankConfigCandidates, RankedAt
<1> QED BY <1>5, <1>9, <1>10 DEF RankedAsIs, D

\* No lesser file is ranked before a better one.
LEMMA RankedIsNotWorse ==
    ASSUME NEW cs \in Seq(TarMember), NEW i \in 1..Len(cs), NEW j \in 1..Len(cs),
           j = i \/ RanksBefore(cs, j, i)
    PROVE  ~Better(cs[i], cs[j])
<1> DEFINE x == cs[i]
           y == cs[j]
<1>1. x \in TarMember /\ y \in TarMember
  BY ElementOfSeq
<1>2. j = i \/ TierOf(y) < TierOf(x) \/ (TierOf(y) = TierOf(x) /\ y.size >= x.size)
  <2>1. TierOf(x) \in Nat /\ TierOf(y) \in Nat /\ x.size \in Nat /\ y.size \in Nat
    BY <1>1, CandidateIs
  <2>2. CASE RanksBefore(cs, j, i)
    <3>1. IF TierOf(y) # TierOf(x) THEN TierOf(y) < TierOf(x)
          ELSE y.size # x.size => y.size > x.size
      BY <2>2 DEF RanksBefore, TierOf
    <3> HIDE DEF x, y
    <3> QED BY <2>1, <3>1
  <2> QED BY <2>2
<1>3. /\ x.path.rest.tier = TierOf(x) /\ y.path.rest.tier = TierOf(y)
      /\ TierOf(x) \in Nat /\ TierOf(y) \in Nat /\ x.size \in Nat /\ y.size \in Nat
  BY <1>1, CandidateIs
<1>4. j = i => x = y
  OBVIOUS
<1> HIDE DEF x, y
<1>5. ~Better(x, y)
  BY <1>2, <1>3, <1>4 DEF Better
<1> QED BY <1>5 DEF x, y

----------------------------------------------------------------------------
(* The configuration that is picked.                                       *)

LEMMA CandidatesAre ==
    ASSUME NEW a \in Tar
    PROVE  XmlCandidates(a) \in Seq(TarMember)
<1> DEFINE S == {i \in Found(a) : a.members[i].reg /\ a.members[i].path.rest.xml}
<1>1. S \in SUBSET (1..Len(a.members)) /\ a.members \in Seq(TarMember)
  BY FoundIs, TarIs
<1>2. XmlCandidates(a) = Pick(a.members, S)
  BY DEF XmlCandidates, Files
<1> HIDE DEF S
<1> QED BY <1>1, <1>2, PickIs

InTheWay(cs, i) == {j \in DOMAIN cs \ {i} : SizeInRange(cs[j]) /\ ~Better(cs[i], cs[j])}
TriedBefore(ranked, k) == {j \in 1..k-1 : SizeInRange(ranked[j])}

\* Those tried before a candidate are in its way.
LEMMA TriedAreInTheWay ==
    ASSUME NEW cs \in Seq(TarMember), NEW k \in 1..Len(cs)
    PROVE  /\ Cardinality(TriedBefore(RankConfigCandidates(cs), k)) \in Nat
           /\ Cardinality(InTheWay(cs, RankedAt(cs, k))) \in Nat
           /\ Cardinality(TriedBefore(RankConfigCandidates(cs), k))
                 <= Cardinality(InTheWay(cs, RankedAt(cs, k)))
<1> DEFINE n == Len(cs)
           D == 1..n
           ranked == RankConfigCandidates(cs)
           at(j) == RankedAt(cs, j)
           V == TriedBefore(ranked, k)
           W == InTheWay(cs, at(k))
           f == [j \in V |-> at(j)]
<1>1. n \in Nat /\ DOMAIN cs = D /\ k \in D
  OBVIOUS
<1>2. /\ \A j \in D : at(j) \in D /\ ranked[j] = cs[at(j)]
      /\ \A i, j \in D : at(i) = at(j) => i = j
      /\ \A i, j \in D : i < j => RanksBefore(cs, at(i), at(j))
  BY RankedIs DEF RankedAsIs
<1>3. V \in SUBSET D /\ \A j \in V : j \in D /\ j < k /\ SizeInRange(ranked[j])
  <2>1. 1..k-1 \in SUBSET D /\ \A j \in 1..k-1 : j < k
    BY <1>1
  <2> QED BY <2>1 DEF TriedBefore
<1>4. W \in SUBSET D
  BY <1>1 DEF InTheWay
<1> HIDE DEF n
<1>5. IsFiniteSet(V) /\ Cardinality(V) \in Nat /\ IsFiniteSet(W) /\ Cardinality(W) \in Nat
  <2>1. IsFiniteSet(D)
    BY <1>1, AscendingAll
  <2> HIDE DEF D, V, W
  <2> QED BY <1>3, <1>4, <2>1, FS_Subset, FS_CardinalityType
<1> HIDE DEF ranked, V
<1>6. ASSUME NEW j \in V
      PROVE  at(j) \in W
  <2>1. j \in D /\ j < k /\ SizeInRange(cs[at(j)]) /\ at(j) \in D /\ at(k) \in D
    BY <1>1, <1>2, <1>3
  <2>2. at(j) # at(k)
    <3>1. j \in Int /\ k \in Int /\ j # k
      BY <2>1
    <3> QED BY <1>1, <1>2, <2>1, <3>1
  <2>3. RanksBefore(cs, at(j), at(k))
    BY <1>1, <1>2, <2>1
  <2>4. ~Better(cs[at(k)], cs[at(j)])
    BY <2>1, <2>3, RankedIsNotWorse DEF D, n
  <2> QED BY <1>1, <2>1, <2>2, <2>4 DEF InTheWay
<1> HIDE DEF W
<1>7. f \in [V -> W] /\ \A i, j \in V : f[i] = f[j] => i = j
  BY <1>2, <1>3, <1>6
<1> HIDE DEF f
<1>8. Cardinality(V) <= Cardinality(W)
  BY <1>5, <1>7, NoMore
<1> QED BY <1>5, <1>8 DEF V, W, ranked

\* The first of the tried candidates that holds a configuration.
PickedIn(a, ranked, g) ==
    /\ g \in Tried(ranked) /\ IsConfig(a, ranked[g])
    /\ \A k \in Tried(ranked) : IsConfig(a, ranked[k]) => g <= k

LEMMA PickedIs ==
    ASSUME NEW a, NEW ranked, DOMAIN ranked \in SUBSET Nat,
           ranked = RankConfigCandidates(XmlCandidates(a))
    PROVE  \/ /\ ExtractConfig(a) = <<>>
              /\ \A k \in Tried(ranked) : ~IsConfig(a, ranked[k])
           \/ \E g : PickedIn(a, ranked, g) /\ ExtractConfig(a) = <<ranked[g]>>
<1> DEFINE good == {k \in Tried(ranked) : IsConfig(a, ranked[k])}
           g == CHOOSE k \in good : \A x \in good : k <= x
<1>1. ExtractConfig(a) = IF good = {} THEN <<>> ELSE <<ranked[g]>>
  BY DEF ExtractConfig
<1>2. CASE good = {}
  BY <1>1, <1>2
<1>3. CASE good # {}
  <2>1. good \in SUBSET Nat
    BY DEF Tried
  <2>2. g \in good /\ \A x \in good : g <= x
    <3> HIDE DEF good
    <3>1. \E k \in good : \A x \in good : k <= x
      BY <1>3, <2>1, LeastNumber
    <3> QED BY <3>1
  <2> HIDE DEF g
  <2>3. PickedIn(a, ranked, g)
    BY <2>2 DEF PickedIn
  <2>4. ExtractConfig(a) = <<ranked[g]>>
    BY <1>1, <1>3
  <2> QED BY <2>3, <2>4
<1> QED BY <1>2, <1>3

LEMMA ConfigIsBest == ArchiveTypes => ConfigIsTopRanked
<1> SUFFICES ASSUME ArchiveTypes
             PROVE  ConfigIsTopRanked
  OBVIOUS
<1> DEFINE a == archive
           cs == XmlCandidates(a)
           n == Len(cs)
           D == 1..n
           ranked == RankConfigCandidates(cs)
           at(j) == RankedAt(cs, j)
           picked == ExtractConfig(a)
<1>1. cs \in Seq(TarMember)
  BY CandidatesAre DEF ArchiveTypes
<1> HIDE DEF a, cs
<1>2. n \in Nat /\ DOMAIN cs = D /\ MaxTries \in Nat
  BY <1>1, ArchiveAssumption
<1>3. /\ DOMAIN ranked = D
      /\ \A j \in D : at(j) \in D /\ ranked[j] = cs[at(j)]
      /\ \A i \in D : \E j \in D : at(j) = i
      /\ \A i, j \in D : i < j => RanksBefore(cs, at(i), at(j))
  BY <1>1, RankedIs DEF RankedAsIs
<1>4. \/ picked = <<>> /\ \A k \in Tried(ranked) : ~IsConfig(a, ranked[k])
      \/ \E g : PickedIn(a, ranked, g) /\ picked = <<ranked[g]>>
  <2>1. DOMAIN ranked \in SUBSET Nat /\ ranked = RankConfigCandidates(XmlCandidates(a))
    BY <1>3 DEF cs
  <2> HIDE DEF ranked
  <2> QED BY <2>1, PickedIs
<1> HIDE DEF ranked, picked, n
<1>5. picked # <<>> => IsConfig(a, picked[1])
  BY <1>4 DEF PickedIn
<1>6. ASSUME NEW i \in D, SizeInRange(cs[i]), IsConfig(a, cs[i]),
             picked = <<>> \/ Better(cs[i], picked[1])
      PROVE  Cardinality(InTheWay(cs, i)) >= MaxTries
  <2>1. PICK k \in D : at(k) = i
    BY <1>3, <1>6
  <2>2. ranked[k] = cs[i]
    BY <1>3, <2>1
  <2>3. k \notin Tried(ranked)
    <3> SUFFICES ASSUME k \in Tried(ranked)
                 PROVE  FALSE
      OBVIOUS
    <3>1. PICK g : PickedIn(a, ranked, g) /\ picked = <<ranked[g]>>
      BY <1>4, <1>6, <2>2
    <3>2. g \in D /\ g <= k
      BY <1>3, <1>6, <2>2, <3>1 DEF PickedIn, Tried
    <3>3. Better(cs[i], cs[at(g)]) /\ at(g) \in D
      <4>1. picked # <<>> /\ picked[1] = ranked[g]
        BY <3>1
      <4> QED BY <1>3, <1>6, <3>2, <4>1
    <3>4. at(g) = i \/ RanksBefore(cs, at(g), i)
      <4>1. g = k \/ g < k
        BY <3>2
      <4> QED BY <1>3, <2>1, <3>2, <4>1
    <3> QED BY <1>1, <3>3, <3>4, RankedIsNotWorse DEF D, n
  <2>4. ~(Cardinality(TriedBefore(ranked, k)) < MaxTries)
    BY <1>3, <1>6, <2>2, <2>3 DEF Tried, TriedBefore
  <2>5. /\ Cardinality(TriedBefore(ranked, k)) \in Nat
        /\ Cardinality(InTheWay(cs, at(k))) \in Nat
        /\ Cardinality(TriedBefore(ranked, k)) <= Cardinality(InTheWay(cs, at(k)))
    BY <1>1, TriedAreInTheWay DEF D, n, ranked
  <2> QED BY <1>2, <2>1, <2>4, <2>5
<1>7. /\ picked # <<>> => IsConfig(a, picked[1])
      /\ \A i \in DOMAIN cs :
            (SizeInRange(cs[i]) /\ IsConfig(a, cs[i])
               /\ (picked = <<>> \/ Better(cs[i], picked[1])))
            => Cardinality({j \in DOMAIN cs \ {i} :
                              SizeInRange(cs[j]) /\ ~Better(cs[i], cs[j])}) >= MaxTries
  BY <1>2, <1>5, <1>6 DEF InTheWay
<1> QED BY <1>7 DEF ConfigIsTopRanked, a, cs, picked

----------------------------------------------------------------------------
(* The theorems.                                                           *)

LEMMA ArchiveInvariant == ArchiveSpec => [](ArchiveTypes /\ ConversionInv)
<1>1. ArchiveInit => ArchiveTypes /\ ConversionInv
  BY ArchiveStarts
<1>2. ArchiveTypes /\ ConversionInv /\ [ArchiveNext]_archiveVars => (ArchiveTypes /\ ConversionInv)'
  BY ArchiveKept
<1> QED BY <1>1, <1>2, PTL DEF ArchiveSpec

\* The type invariant: what is uploaded stays as it is, the tar is one, and no more
\* is taken from what is left than is left.
THEOREM ArchiveTyped == ArchiveSpec => []ArchiveTypes
BY ArchiveInvariant, PTL

\* An accepted zip is listed as its readable members, in order, under names that
\* open, and only the headers and the padding of the tar hide the last of them,
\* however many members ConvertZipToTgz skips on the way.
THEOREM ZipListedWhole == ArchiveSpec => []ZipIsListed
BY ArchiveInvariant, ZipIsListedWhole, PTL

\* One firewall marker anywhere makes a firewall, and the agent's markers decide
\* only without one, although DetectKind stops looking for those on the way.
THEOREM KindFollowsContents == ArchiveSpec => []KindOfContents
BY ArchiveInvariant, KindIsOfContents, PTL

\* What ExtractConfig picks holds a configuration, and no better file that holds one
\* is passed over unless MaxTries files no worse than it were in its way.
THEOREM ConfigTopRanked == ArchiveSpec => []ConfigIsTopRanked
BY ArchiveInvariant, ConfigIsBest, PTL

----------------------------------------------------------------------------
(* The index.                                                              *)

\* The strengthening: unless it is scanned always, a file is in the list of
\* each of its trigrams that still has one, and none of them is "absent".
PostingsComplete ==
    \A f \in DOMAIN files :
        f \in always \/ \A t \in files[f].tris :
                            tri[t] = "common" \/ (tri[t] = "listed" /\ f \in post[t])

LEMMA InitShape == IndexInit => Shape /\ PostingsComplete
  BY DEF IndexInit, Shape, PostingsComplete

\* Appending keeps what was there and adds one place at the end.
LEMMA Appended ==
  ASSUME NEW S, NEW s \in Seq(S), NEW x \in S
  PROVE  /\ Append(s, x) \in Seq(S)
         /\ Len(Append(s, x)) = Len(s) + 1 /\ Len(s) \in Nat
         /\ DOMAIN Append(s, x) = DOMAIN s \cup {Len(s) + 1}
         /\ DOMAIN s = 1..Len(s)
         /\ \A i \in DOMAIN s : Append(s, x)[i] = s[i] /\ i # Len(s) + 1
         /\ Append(s, x)[Len(s) + 1] = x
  OBVIOUS

LEMMA MemberFields ==
  ASSUME NEW m \in Members
  PROVE  /\ m.binary \in BOOLEAN /\ m.size \in Nat /\ m.got \in Nat
         /\ m.tris \in SUBSET Trigrams /\ m.got <= m.size
  BY SearchIndexAssumption DEF Member

LEMMA ReadShape ==
  ASSUME Shape, NEW m \in Members, ReadMember(m)
  PROVE  /\ tar' \in Seq(Members) /\ status' \in {"building", "broken", "built", "failed"}
         /\ Len(tar') = Len(tar) + 1 /\ DOMAIN tar \subseteq DOMAIN tar'
         /\ Len(tar) + 1 \in DOMAIN tar'
  BY Appended DEF Shape, ReadMember

LEMMA ListOnlyShape ==
  ASSUME Shape, ListOnly
  PROVE  Shape'
<1>1. PICK m \in Members : ReadMember(m) /\ entries' = Append(entries, NoFile)
  BY DEF ListOnly
<1>2. entries' \in Seq(Nat) /\ Len(entries') = Len(entries) + 1
  BY <1>1, Appended DEF Shape, NoFile
<1> QED  BY <1>1, <1>2, ReadShape DEF Shape, ListOnly, postingVars

LEMMA LeaveOutShape ==
  ASSUME Shape, LeaveOut
  PROVE  Shape'
<1>1. PICK m \in Members : /\ ReadMember(m) /\ entries' = Append(entries, NoFile)
                           /\ unindexed' = unindexed \cup {Len(tar) + 1}
  BY DEF LeaveOut
<1>2. entries' \in Seq(Nat) /\ Len(entries') = Len(entries) + 1
  BY <1>1, Appended DEF Shape, NoFile
<1> QED  BY <1>1, <1>2, ReadShape DEF Shape, LeaveOut, postingVars

\* What CopyToBlob does, with its member and its file number named.
Copies(m, f) ==
    /\ ReadMember(m)
    /\ ~m.binary /\ off + m.size <= MaxBlobBytes /\ m.got > 0
    /\ files' = Append(files, [off |-> off, size |-> m.got, tris |-> m.tris])
    /\ entries' = Append(entries, f)
    /\ off' = off + m.got
    /\ AddPostings(f, m.tris) \/ ScanAlways(f)
    /\ UNCHANGED unindexed

LEMMA CopyToBlobCopies ==
  ASSUME CopyToBlob
  PROVE  \E m \in Members : Copies(m, Len(files) + 1)
  BY DEF CopyToBlob, Copies

LEMMA CopiedFile ==
  ASSUME Shape, NEW m \in Members, NEW f, f = Len(files) + 1, Copies(m, f)
  PROVE  /\ files' \in Seq(Span)
         /\ f \in Nat /\ f \in DOMAIN files' /\ f \notin DOMAIN files
         /\ \A i \in DOMAIN files : i \in DOMAIN files'
         /\ \A i \in DOMAIN files' : i = f \/ i \in DOMAIN files
         /\ \A i \in DOMAIN files : files'[i] = files[i]
         /\ files'[f] = [off |-> off, size |-> m.got, tris |-> m.tris]
<1>1. [off |-> off, size |-> m.got, tris |-> m.tris] \in Span
  BY MemberFields DEF Copies, Shape, Span
<1>2. files \in Seq(Span) /\ files' = Append(files, [off |-> off, size |-> m.got, tris |-> m.tris])
  BY DEF Shape, Copies
<1>3. /\ files' \in Seq(Span) /\ f \in Nat
      /\ DOMAIN files' = DOMAIN files \cup {f}
      /\ \A i \in DOMAIN files : files'[i] = files[i] /\ i # f
      /\ files'[f] = [off |-> off, size |-> m.got, tris |-> m.tris]
  BY <1>1, <1>2, Appended
<1> QED  BY <1>3

LEMMA CopyToBlobShape ==
  ASSUME Shape, CopyToBlob
  PROVE  Shape'
<1> DEFINE f == Len(files) + 1
<1>1. PICK m \in Members : Copies(m, f)
  BY CopyToBlobCopies
<1>c. f = Len(files) + 1
  OBVIOUS
<1> HIDE DEF f
<1>2. /\ f \in Nat /\ f \in DOMAIN files' /\ files' \in Seq(Span)
      /\ \A i \in DOMAIN files : i \in DOMAIN files'
  BY <1>1, <1>c, CopiedFile
<1>3. entries' \in Seq(Nat) /\ Len(entries') = Len(entries) + 1
  BY <1>1, <1>2, Appended DEF Shape, Copies
<1>4. /\ tar' \in Seq(Members) /\ status' \in {"building", "broken", "built", "failed"}
      /\ Len(tar') = Len(tar) + 1 /\ DOMAIN tar \subseteq DOMAIN tar'
  BY <1>1, ReadShape DEF Copies
<1>5. off' \in Nat
  BY <1>1, MemberFields DEF Copies, Shape
<1>6. tri' \in [Trigrams -> {"absent", "listed", "common"}]
  BY <1>1 DEF Copies, AddPostings, ScanAlways, Shape
<1>7. post' \in [Trigrams -> SUBSET (DOMAIN files')] /\ always' \subseteq DOMAIN files'
  <2>1. CASE AddPostings(f, m.tris)
    <3>1. \A t \in Trigrams : post'[t] \in SUBSET (DOMAIN files')
      <4>1. SUFFICES ASSUME NEW t \in Trigrams
                     PROVE  post'[t] \in SUBSET (DOMAIN files')
        OBVIOUS
      <4>2. post[t] \in SUBSET (DOMAIN files)
        BY DEF Shape
      <4>3. post'[t] \in {post[t] \cup {f}, {}, post[t]}
        BY <2>1 DEF AddPostings
      <4> QED  BY <1>2, <4>2, <4>3
    <3>2. post' = [t \in Trigrams |-> post'[t]]
      BY <2>1 DEF AddPostings
    <3> QED  BY <1>2, <2>1, <3>1, <3>2 DEF AddPostings, Shape
  <2>2. CASE ScanAlways(f)
    BY <1>2, <2>2 DEF ScanAlways, Shape
  <2> QED  BY <1>1, <2>1, <2>2 DEF Copies
<1> QED  BY <1>1, <1>2, <1>3, <1>4, <1>5, <1>6, <1>7 DEF Shape, Copies

LEMMA NextShape == Shape /\ [IndexNext]_indexVars => Shape'
<1> SUFFICES ASSUME Shape, [IndexNext]_indexVars
             PROVE  Shape'
  OBVIOUS
<1>1. CASE ListOnly
  BY <1>1, ListOnlyShape
<1>2. CASE LeaveOut
  BY <1>2, LeaveOutShape
<1>3. CASE CopyToBlob
  BY <1>3, CopyToBlobShape
<1>4. CASE Finish \/ Fail \/ UNCHANGED indexVars
  BY <1>4 DEF Finish, Fail, indexVars, postingVars, Shape
<1> QED  BY <1>1, <1>2, <1>3, <1>4 DEF IndexNext

----------------------------------------------------------------------------
(* No file is missed.                                                      *)

LEMMA PostingsFinite ==
  ASSUME Shape, NEW t \in Trigrams
  PROVE  Cardinality(post[t]) \in Nat
<1>1. IsFiniteSet(1..Len(files))
  BY FS_Interval DEF Shape
<1>2. post[t] \subseteq 1..Len(files)
  BY DEF Shape
<1> QED  BY <1>1, <1>2, FS_Subset, FS_CardinalityType

LEMMA CopyToBlobComplete ==
  ASSUME Shape, PostingsComplete, CopyToBlob
  PROVE  PostingsComplete'
<1> DEFINE f == Len(files) + 1
<1>1. PICK m \in Members : Copies(m, f)
  BY CopyToBlobCopies
<1>c. f = Len(files) + 1
  OBVIOUS
<1> HIDE DEF f
<1>a. /\ \A i \in DOMAIN files' : i = f \/ i \in DOMAIN files
      /\ \A i \in DOMAIN files : files'[i] = files[i]
      /\ files'[f] = [off |-> off, size |-> m.got, tris |-> m.tris]
  BY <1>1, <1>c, CopiedFile
<1>b. \A i \in DOMAIN files : files[i].tris \subseteq Trigrams
  <2>1. \A i \in DOMAIN files : files[i] \in Span
    BY DEF Shape
  <2> QED  BY <2>1 DEF Span
<1>2. /\ \A i \in DOMAIN files' : i = f \/ i \in DOMAIN files
      /\ \A i \in DOMAIN files : files'[i] = files[i] /\ files[i].tris \subseteq Trigrams
      /\ files'[f].tris = m.tris /\ m.tris \subseteq Trigrams
  BY <1>a, <1>b, MemberFields
<1>3. CASE AddPostings(f, m.tris)
  \* An old file keeps its place in every list that is still a list.
  <2>1. \A t \in Trigrams : tri[t] = "common" => tri'[t] = "common"
    BY <1>3 DEF AddPostings, Taken, Demoted
  <2>2. \A t \in Trigrams : tri[t] = "listed" =>
            tri'[t] = "common" \/ (tri'[t] = "listed" /\ post[t] \subseteq post'[t])
    BY <1>3 DEF AddPostings
  <2>3. \A t \in m.tris : tri'[t] = "common" \/ (tri'[t] = "listed" /\ f \in post'[t])
    <3> SUFFICES ASSUME NEW t \in m.tris
                 PROVE  tri'[t] = "common" \/ (tri'[t] = "listed" /\ f \in post'[t])
      OBVIOUS
    <3>1. CASE tri[t] = "common"
      BY <1>2, <2>1, <3>1
    <3>2. CASE t \in Taken(m.tris)
      BY <1>2, <1>3, <3>2 DEF AddPostings
    <3>3. CASE tri[t] # "common" /\ t \notin Taken(m.tris)
      <4>1. t \in Demoted(m.tris) \/ ~(Cardinality(post[t]) >= MaxPostingsPerTrigram)
        BY <3>3 DEF Demoted
      <4>2. CASE t \in Demoted(m.tris)
        BY <1>2, <1>3, <3>3, <4>2 DEF AddPostings
      <4>3. CASE ~(Cardinality(post[t]) >= MaxPostingsPerTrigram)
        <5>1. ~(Cardinality(post[t]) < MaxPostingsPerTrigram)
          BY <3>3 DEF Taken
        <5>2. Cardinality(post[t]) \in Nat
          BY <1>2, PostingsFinite
        <5> QED  BY <4>3, <5>1, <5>2, SearchIndexAssumption
      <4> QED  BY <4>1, <4>2, <4>3
    <3> QED  BY <3>1, <3>2, <3>3
  <2>4. always' = always
    BY <1>3 DEF AddPostings
  <2> QED  BY <1>2, <2>1, <2>2, <2>3, <2>4 DEF PostingsComplete
<1>4. CASE ScanAlways(f)
  BY <1>2, <1>4 DEF ScanAlways, PostingsComplete
<1> QED  BY <1>1, <1>3, <1>4 DEF Copies

LEMMA NextComplete ==
  ASSUME Shape, PostingsComplete, [IndexNext]_indexVars
  PROVE  PostingsComplete'
<1>1. CASE CopyToBlob
  BY <1>1, CopyToBlobComplete
<1>2. CASE ~CopyToBlob
  BY <1>2 DEF IndexNext, ListOnly, LeaveOut, Finish, Fail, indexVars, postingVars, PostingsComplete
<1> QED  BY <1>1, <1>2

\* From the postings to the files of a query.
LEMMA CompleteIsSound == Shape /\ PostingsComplete => CandidatesSound
<1> SUFFICES ASSUME Shape, PostingsComplete,
                    NEW q \in SUBSET Groups, NEW f \in DOMAIN files, MayMatch(f, q)
             PROVE  f \in Candidates(q)
  BY DEF CandidatesSound
<1>1. PICK g \in q : g \subseteq files[f].tris
  BY DEF MayMatch
<1>2. CASE f \in always
  BY <1>2 DEF Candidates
<1>3. CASE f \notin always
  <2>1. \A t \in g : tri[t] = "common" \/ (tri[t] = "listed" /\ f \in post[t])
    BY <1>1, <1>3 DEF PostingsComplete
  <2>2. ~Impossible(g) /\ InEveryList(f, g)
    BY <2>1 DEF Impossible, InEveryList, Narrowing
  <2> QED  BY <2>2 DEF Candidates
<1> QED  BY <1>2, <1>3

\* Whatever the archive, the caps and the order of its members, a file with
\* all the trigrams of a group of the query is always a candidate, so the
\* index misses nothing (candidates, searchindex.go).
THEOREM IndexSound == IndexSpec => []CandidatesSound
<1>1. IndexInit => Shape /\ PostingsComplete
  BY InitShape
<1>2. Shape /\ PostingsComplete /\ [IndexNext]_indexVars => (Shape /\ PostingsComplete)'
  BY NextShape, NextComplete
<1>3. Shape /\ PostingsComplete => CandidatesSound
  BY CompleteIsSound
<1> QED  BY <1>1, <1>2, <1>3, PTL DEF IndexSpec

----------------------------------------------------------------------------
(* The index narrows.                                                      *)

\* The strengthening: a posting list names only files with its trigram.
PostingsExact == \A t \in Trigrams : \A f \in post[t] : t \in files[f].tris

LEMMA CopyToBlobExact ==
  ASSUME Shape, PostingsExact, CopyToBlob
  PROVE  PostingsExact'
<1>k. PICK f : f = Len(files) + 1
  OBVIOUS
<1>1. PICK m \in Members : Copies(m, f)
  BY <1>k, CopyToBlobCopies
<1>2. /\ \A i \in DOMAIN files : files'[i] = files[i]
      /\ files'[f] = [off |-> off, size |-> m.got, tris |-> m.tris]
  BY <1>1, <1>k, CopiedFile
<1>3. files'[f].tris = m.tris
  BY <1>2
<1>4. SUFFICES ASSUME NEW t \in Trigrams, NEW g \in post'[t]
               PROVE  t \in files'[g].tris
  BY DEF PostingsExact
<1>5. g \in post[t] \/ (g = f /\ t \in m.tris)
  <2>1. CASE AddPostings(f, m.tris)
    BY <2>1 DEF AddPostings, Taken
  <2>2. CASE ScanAlways(f)
    BY <2>2 DEF ScanAlways
  <2> QED  BY <1>1, <2>1, <2>2 DEF Copies
<1>6. CASE g \in post[t]
  <2>1. g \in DOMAIN files
    BY <1>6 DEF Shape
  <2> QED  BY <1>2, <1>6, <2>1 DEF PostingsExact
<1>7. CASE g = f /\ t \in m.tris
  BY <1>3, <1>7
<1> QED  BY <1>5, <1>6, <1>7

LEMMA ExactNarrows == Shape /\ PostingsExact => CandidatesExact
<1> SUFFICES ASSUME Shape, PostingsExact, NEW q \in SUBSET Groups, NEW f \in DOMAIN files,
                    f \in Candidates(q), f \notin always,
                    \A t \in UNION q : tri[t] # "common"
             PROVE  MayMatch(f, q)
  BY DEF CandidatesExact
<1>1. PICK g \in q : ~Impossible(g) /\ InEveryList(f, g)
  BY DEF Candidates, Unconstrained, InEveryList
<1>2. \A t \in g : t \in Trigrams /\ f \in post[t]
  BY <1>1 DEF InEveryList, Narrowing, Groups
<1> QED  BY <1>2 DEF PostingsExact, MayMatch

\* Unless a trigram of the query became common or the budget ran out, a search
\* reads only files that contain all trigrams of one of its groups (candidates).
THEOREM IndexNarrows == IndexSpec => []CandidatesExact
<1>1. IndexInit => Shape /\ PostingsExact
  <2>1. IndexInit => PostingsExact
    BY DEF IndexInit, PostingsExact
  <2> QED  BY <2>1, InitShape
<1>2. Shape /\ PostingsExact /\ [IndexNext]_indexVars => (Shape /\ PostingsExact)'
  <2>1. ASSUME Shape, PostingsExact, [IndexNext]_indexVars, ~CopyToBlob
        PROVE  PostingsExact'
    BY <2>1 DEF IndexNext, ListOnly, LeaveOut, Finish, Fail, indexVars, postingVars, PostingsExact
  <2> QED  BY <2>1, NextShape, CopyToBlobExact
<1> QED  BY <1>1, <1>2, ExactNarrows, PTL DEF IndexSpec

----------------------------------------------------------------------------
(* Nothing is skipped.                                                     *)

\* The strengthening: no entry is numbered past the last file.
Numbered == \A i \in DOMAIN entries : entries[i] <= Len(files)

MemberListed(i) ==
    /\ entries[i] = NoFile => tar[i].binary \/ tar[i].got = 0 \/ i \in unindexed
    /\ entries[i] # NoFile =>
          /\ entries[i] \in DOMAIN files
          /\ files[entries[i]].tris = tar[i].tris
          /\ i \notin unindexed /\ ~tar[i].binary
    /\ \A j \in 1..i-1 : entries[i] # NoFile => entries[j] < entries[i]

\* The two sequences grow together.
LEMMA ReadEntry ==
  ASSUME Shape, NEW m \in Members, ReadMember(m), NEW x \in Nat, entries' = Append(entries, x),
         NEW k, k = Len(tar) + 1
  PROVE  /\ k \in Nat /\ DOMAIN tar' = DOMAIN tar \cup {k} /\ DOMAIN entries' = DOMAIN tar'
         /\ DOMAIN entries = DOMAIN tar /\ DOMAIN tar = 1..k-1
         /\ tar'[k] = m /\ entries'[k] = x /\ k \notin DOMAIN tar
         /\ \A i \in DOMAIN tar : tar'[i] = tar[i] /\ entries'[i] = entries[i] /\ entries[i] \in Nat
         /\ k \notin unindexed
<1>1. tar \in Seq(Members) /\ entries \in Seq(Nat) /\ Len(entries) = Len(tar)
  BY DEF Shape
<1>2. tar' = Append(tar, m)
  BY DEF ReadMember
<1>3. DOMAIN tar = 1..Len(tar) /\ DOMAIN entries = 1..Len(tar) /\ Len(tar) \in Nat
  BY <1>1
<1>4. /\ DOMAIN tar' = DOMAIN tar \cup {k} /\ tar'[k] = m
      /\ \A i \in DOMAIN tar : tar'[i] = tar[i]
  BY <1>1, <1>2, Appended
<1>5. /\ DOMAIN entries' = DOMAIN entries \cup {k} /\ entries'[k] = x
      /\ \A i \in DOMAIN entries : entries'[i] = entries[i] /\ entries[i] \in Nat
  BY <1>1, <1>2, Appended
<1>6. k \notin DOMAIN tar /\ 1..k-1 = 1..Len(tar) /\ k \in Nat
  BY <1>3
<1> QED  BY <1>3, <1>4, <1>5, <1>6 DEF Shape

LEMMA UnreadListed ==
  ASSUME Shape, NothingSkipped, Numbered, NEW m \in Members, ReadMember(m),
         entries' = Append(entries, NoFile), UNCHANGED files,
         unindexed \subseteq unindexed', unindexed' \subseteq unindexed \cup {Len(tar) + 1},
         m.binary \/ m.got = 0 \/ Len(tar) + 1 \in unindexed'
  PROVE  NothingSkipped' /\ Numbered'
<1>k. PICK k : k = Len(tar) + 1
  OBVIOUS
<1>l. Len(files) \in Nat
  BY DEF Shape
<1>1. /\ k \in Nat /\ DOMAIN tar' = DOMAIN tar \cup {k} /\ DOMAIN entries' = DOMAIN tar'
      /\ DOMAIN entries = DOMAIN tar /\ DOMAIN tar = 1..k-1
      /\ tar'[k] = m /\ entries'[k] = NoFile /\ k \notin DOMAIN tar
      /\ \A i \in DOMAIN tar : tar'[i] = tar[i] /\ entries'[i] = entries[i] /\ entries[i] \in Nat
  BY <1>k, ReadEntry DEF NoFile
<1>2. MemberListed(k)'
  BY <1>1, <1>k DEF MemberListed
<1>3. ASSUME NEW i \in DOMAIN tar
      PROVE  MemberListed(i)'
  <2>1. MemberListed(i)
    BY DEF NothingSkipped, MemberListed
  <2>2. i \in 1..k-1 /\ \A j \in 1..i-1 : j \in DOMAIN tar
    BY <1>1
  <2>3. i \in unindexed' <=> i \in unindexed
    BY <1>1, <1>k
  <2> QED  BY <1>1, <2>1, <2>2, <2>3 DEF MemberListed
<1>4. NothingSkipped'
  BY <1>1, <1>2, <1>3 DEF NothingSkipped, MemberListed
<1>5. Numbered'
  BY <1>1, <1>l DEF Numbered, NoFile
<1> QED  BY <1>4, <1>5

LEMMA CopiedListed ==
  ASSUME Shape, NothingSkipped, Numbered, CopyToBlob
  PROVE  NothingSkipped' /\ Numbered'
<1>k. PICK k, f : k = Len(tar) + 1 /\ f = Len(files) + 1
  OBVIOUS
<1>l. Len(files) \in Nat /\ DOMAIN files = 1..Len(files)
  BY DEF Shape
<1>m. PICK m \in Members : Copies(m, f)
  BY <1>k, CopyToBlobCopies
<1>f. f \in Nat /\ f # NoFile
  BY <1>k, <1>l DEF NoFile
<1>1. /\ k \in Nat /\ DOMAIN tar' = DOMAIN tar \cup {k} /\ DOMAIN entries' = DOMAIN tar'
      /\ DOMAIN entries = DOMAIN tar /\ DOMAIN tar = 1..k-1
      /\ tar'[k] = m /\ entries'[k] = f /\ k \notin DOMAIN tar
      /\ \A i \in DOMAIN tar : tar'[i] = tar[i] /\ entries'[i] = entries[i] /\ entries[i] \in Nat
      /\ k \notin unindexed
  BY <1>k, <1>m, <1>f, ReadEntry DEF Copies
<1>2. /\ f \in DOMAIN files' /\ files' \in Seq(Span)
      /\ \A i \in DOMAIN files : i \in DOMAIN files' /\ files'[i] = files[i]
      /\ files'[f] = [off |-> off, size |-> m.got, tris |-> m.tris]
  BY <1>k, <1>m, CopiedFile
<1>3. Len(files') = f
  BY <1>k, <1>m, Appended DEF Copies, Shape
<1>4. unindexed' = unindexed /\ ~m.binary
  BY <1>m DEF Copies
<1>5. \A i \in DOMAIN tar : entries[i] < f
  BY <1>1, <1>k, <1>l DEF Numbered
<1>6. MemberListed(k)'
  <2>1. files'[f].tris = m.tris
    BY <1>2
  <2> QED  BY <1>1, <1>2, <1>4, <1>5, <1>f, <2>1 DEF MemberListed
<1>7. ASSUME NEW i \in DOMAIN tar
      PROVE  MemberListed(i)'
  <2>1. MemberListed(i)
    BY DEF NothingSkipped, MemberListed
  <2>2. i \in 1..k-1 /\ \A j \in 1..i-1 : j \in DOMAIN tar
    BY <1>1
  <2> QED  BY <1>1, <1>2, <1>4, <2>1, <2>2 DEF MemberListed
<1>8. NothingSkipped'
  BY <1>1, <1>6, <1>7 DEF NothingSkipped, MemberListed
<1>9. Numbered'
  <2>1. \A i \in DOMAIN tar : entries'[i] <= f
    BY <1>1, <1>5, <1>f
  <2> QED  BY <1>1, <1>3, <1>f, <2>1 DEF Numbered
<1> QED  BY <1>8, <1>9

LEMMA NextListed ==
  ASSUME Shape, NothingSkipped, Numbered, [IndexNext]_indexVars
  PROVE  NothingSkipped' /\ Numbered'
<1>1. CASE ListOnly
  BY <1>1, UnreadListed DEF ListOnly
<1>2. CASE LeaveOut
  BY <1>2, UnreadListed DEF LeaveOut
<1>3. CASE CopyToBlob
  BY <1>3, CopiedListed
<1>4. CASE Finish \/ Fail \/ UNCHANGED indexVars
  BY <1>4 DEF Finish, Fail, indexVars, NothingSkipped, Numbered
<1> QED  BY <1>1, <1>2, <1>3, <1>4 DEF IndexNext

\* Every member is listed in order, and every text is in the blob or among
\* the unindexed: the search reads "this one from the archive instead"
\* (BuildSearchIndex).
THEOREM IndexSkipsNothing == IndexSpec => []NothingSkipped
<1>1. IndexInit => Shape /\ NothingSkipped /\ Numbered
  <2>1. IndexInit => Shape
    BY InitShape
  <2>2. IndexInit => NothingSkipped /\ Numbered
    BY DEF IndexInit, NothingSkipped, Numbered
  <2> QED  BY <2>1, <2>2
<1>2. Shape /\ NothingSkipped /\ Numbered /\ [IndexNext]_indexVars
        => (Shape /\ NothingSkipped /\ Numbered)'
  BY NextShape, NextListed
<1> QED  BY <1>1, <1>2, PTL DEF IndexSpec

----------------------------------------------------------------------------
(* The blob.                                                               *)

Ends(f) == files[f].off + files[f].size = IF f = Len(files) THEN off ELSE files[f + 1].off

LEMMA CopiedTiled ==
  ASSUME Shape, BlobTiled, CopyToBlob
  PROVE  BlobTiled'
<1>k. PICK f : f = Len(files) + 1
  OBVIOUS
<1>m. PICK m \in Members : Copies(m, f)
  BY <1>k, CopyToBlobCopies
<1>1. /\ Len(files) \in Nat /\ DOMAIN files = 1..Len(files)
      /\ Len(files') = f /\ DOMAIN files' = 1..f
      /\ \A i \in DOMAIN files : files'[i] = files[i]
      /\ files'[f] = [off |-> off, size |-> m.got, tris |-> m.tris]
  <2>1. [off |-> off, size |-> m.got, tris |-> m.tris] \in Span
    BY <1>m, MemberFields DEF Copies, Shape, Span
  <2> QED  BY <1>k, <1>m, <2>1, Appended DEF Copies, Shape
<1>2. /\ off' = off + m.got /\ off + m.size <= MaxBlobBytes
      /\ off \in Nat /\ m.got \in Nat /\ m.size \in Nat /\ m.got <= m.size
      /\ MaxBlobBytes \in Nat
  BY <1>m, MemberFields, SearchIndexAssumption DEF Copies, Shape
<1>3. off' <= MaxBlobBytes
  BY <1>2
<1>4. files'[f].off = off /\ files'[f].size = m.got
  BY <1>1
<1>5. Ends(f)'
  BY <1>1, <1>2, <1>4 DEF Ends
<1>6. ASSUME NEW i \in DOMAIN files
      PROVE  Ends(i)'
  <2>1. Ends(i)
    BY DEF BlobTiled, Ends
  <2>2. CASE i = Len(files)
    <3>0. files'[i] = files[i]
      BY <1>1
    <3>1. Len(files) \in Nat /\ Len(files') = f
      BY <1>1
    <3>2. i # Len(files') /\ i + 1 = f
      BY <1>k, <2>2, <3>1
    <3> QED  BY <1>4, <2>1, <2>2, <3>0, <3>2 DEF Ends
  <2>3. CASE i # Len(files)
    <3>1. i # Len(files') /\ i + 1 \in DOMAIN files
      BY <1>k, <1>1, <2>3
    <3> QED  BY <1>1, <2>1, <2>3, <3>1 DEF Ends
  <2> QED  BY <2>2, <2>3
<1>7. \A i \in DOMAIN files' : i = f \/ i \in DOMAIN files
  BY <1>k, <1>1
<1> QED  BY <1>3, <1>5, <1>6, <1>7 DEF BlobTiled, Ends

\* The spans lie end to end and the blob never passes its cap: no two files
\* share a byte of it, so a section read for one file reads that file.
THEOREM BlobIsTiled == IndexSpec => []BlobTiled
<1>1. IndexInit => Shape /\ BlobTiled
  <2>1. IndexInit => Shape
    BY InitShape
  <2>2. IndexInit => BlobTiled
    BY SearchIndexAssumption DEF IndexInit, BlobTiled
  <2> QED  BY <2>1, <2>2
<1>2. Shape /\ BlobTiled /\ [IndexNext]_indexVars => (Shape /\ BlobTiled)'
  <2> SUFFICES ASSUME Shape, BlobTiled, [IndexNext]_indexVars
               PROVE  BlobTiled'
    BY NextShape
  <2>1. CASE CopyToBlob
    BY <2>1, CopiedTiled
  <2>2. CASE ~CopyToBlob
    BY <2>2 DEF IndexNext, ListOnly, LeaveOut, Finish, Fail, indexVars, postingVars, BlobTiled
  <2> QED  BY <2>1, <2>2
<1> QED  BY <1>1, <1>2, PTL DEF IndexSpec

=============================================================================
